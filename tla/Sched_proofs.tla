---------------------------- MODULE Sched_proofs -----------------------------
(***************************************************************************)
(* IInv of Sched is an invariant for process tables of every size, with    *)
(* ticks in the middle of schedule, process_create and process_kill, and   *)
(* with it the safety properties the run checks.                           *)
(***************************************************************************)
EXTENDS Sched, FiniteSetTheorems, TLAPS

\* A nonempty set of natural numbers has a least element: the intervals from 0 to
\* its elements are finite sets, and inclusion is well founded on those.
LEMMA LowestExists ==
  ASSUME NEW S \in SUBSET Nat, S # {}
  PROVE  \E x \in S : \A y \in S : x <= y
<1> DEFINE F == {0 .. x : x \in S}
<1>1. ASSUME NEW x \in S  PROVE IsFiniteSet(0 .. x)
  BY FS_Interval, 0 \in Int, x \in Int, Zenon
<1>2. F \subseteq FiniteSubsetsOf(Nat) /\ F # {}
  BY <1>1 DEF FiniteSubsetsOf
<1>3. PICK D \in F : \A E \in F : ~ (<<E, D>> \in StrictSubsetOrdering(Nat))
  <2> HIDE DEF F
  <2> QED BY <1>2, FS_StrictSubsetOrderingWellFounded, WFMin, Zenon
<1>4. PICK x \in S : D = 0 .. x
  BY <1>3
<1>5. ASSUME NEW y \in S, y < x  PROVE FALSE
  <2>1. 0 .. y \in F /\ <<0 .. y, D>> \in StrictSubsetOrdering(Nat)
    BY <1>4, <1>5 DEF StrictSubsetOrdering
  <2> QED BY <1>3, <2>1
<1> QED BY <1>5

USE SchedAssumption

State == {"unused", "ready", "running", "exited"}

\* Pids are numbers, so the shell is none of them.
LEMMA ShellIsNoPid ==
  /\ Pid \subseteq Nat /\ Shell \notin Pid /\ None \notin Pid
  /\ Shell = None /\ Shell \in Int
BY DEF Shell, None, Pid

\* The loop of schedule finds a READY process, or there is none.
LEMMA NextReadyIsReady ==
  ASSUME NEW s, cur \in Context
  PROVE  \/ NextReady(s) = None /\ \A q \in Pid : s[q] # "ready"
         \/ NextReady(s) \in Pid /\ s[NextReady(s)] = "ready"
<1> DEFINE ready == {p \in Pid : s[p] = "ready"}
<1> DEFINE D == {Distance(p) : p \in ready}
<1>1. CASE ready = {}
  BY <1>1 DEF NextReady
<1>2. CASE ready # {}
  <2>1. \A p \in Pid : Distance(p) \in Nat
    <3> SUFFICES ASSUME NEW p \in Pid PROVE Distance(p) \in Nat
      OBVIOUS
    <3>1. p \in Int /\ cur \in Int /\ NProcs \in Nat /\ NProcs > 0
      BY ShellIsNoPid DEF Context
    <3> QED BY <3>1 DEF Distance
  <2>2. D \in SUBSET Nat /\ D # {}
    BY <1>2, <2>1
  <2>3. PICK d \in D : \A e \in D : d <= e
    <3> HIDE DEF D
    <3> QED BY <2>2, LowestExists
  <2>4. PICK p \in ready : d = Distance(p)
    BY <2>3
  <2>5. \E x \in ready : \A q \in ready : Distance(x) <= Distance(q)
    BY <2>3, <2>4
  <2>6. NextReady(s) \in ready
    BY <1>2, <2>5 DEF NextReady
  <2> QED BY <2>6
<1> QED BY <1>1, <1>2

\* context_switch runs the chosen process and stops only the current one.
LEMMA SwitchedToMeans ==
  ASSUME NEW s \in [Pid -> State], NEW n \in Pid
  PROVE  /\ SwitchedTo(s, n) \in [Pid -> State]
         /\ SwitchedTo(s, n)[n] = "running"
         /\ \A p \in Pid \ {n} :
              \/ SwitchedTo(s, n)[p] = s[p]
              \/ s[p] = "running" /\ SwitchedTo(s, n)[p] = "ready"
BY DEF SwitchedTo, State

Step == {"run", "chosen", "marked", "switch", "found", "create", "kill"}

\* IInv as long as no tick has done harm.
Sound == ~cut /\ StacksHeld /\ CpuIsCurrent /\ CallsAgree /\ MarkedWaits

\* Unless the shell is filling a slot, every process that may run has a stack.
LEMMA AllHeld ==
  ASSUME TypeOK, Sound, at[cpu].step # "create"
  PROVE  \A q \in Pid : Alive(q) => built[q]
<1>1. at[Shell].step # "create"
  BY ShellIsNoPid DEF Sound, CallsAgree, Running, Context
<1>2. \A q \in Pid : at[Shell] # [step |-> "create", p |-> q]
  <2> SUFFICES ASSUME NEW q \in Pid, at[Shell] = [step |-> "create", p |-> q] PROVE FALSE
    OBVIOUS
  <2>1. at[Shell].step = "create"
    OBVIOUS
  <2> QED BY <1>1, <2>1
<1> QED BY <1>2 DEF Sound, StacksHeld

LEMMA InitIInv == Init => IInv
<1> SUFFICES ASSUME Init PROVE IInv
  OBVIOUS
<1> USE ShellIsNoPid DEF Init, Running, Context
<1>1. TypeOK
  BY DEF TypeOK
<1>2. StacksHeld /\ CpuIsCurrent
  BY DEF StacksHeld, CpuIsCurrent, Alive
<1>3. CallsAgree /\ MarkedWaits
  BY DEF CallsAgree, MarkedWaits
<1> QED BY <1>1, <1>2, <1>3 DEF IInv

-----------------------------------------------------------------------------
\* What the steps of one context do to its place in a call.
LEMMA CallType ==
  ASSUME TypeOK, NEW x \in Context, NEW c \in [step : Step, p : Context]
  PROVE  /\ [at EXCEPT ![x] = c] \in [Context -> [step : Step, p : Context]]
         /\ [at EXCEPT ![x] = c][x] = c
         /\ \A y \in Context \ {x} : [at EXCEPT ![x] = c][y] = at[y]
BY DEF TypeOK, Step

LEMMA StepType ==
  ASSUME TypeOK, NEW x \in Context, NEW k \in Step
  PROVE  LET new == [at EXCEPT ![x].step = k]
         IN  /\ new \in [Context -> [step : Step, p : Context]]
             /\ new[x] = [step |-> k, p |-> at[x].p]
             /\ \A y \in Context \ {x} : new[y] = at[y]
BY DEF TypeOK, Step

\* The tables a tick leaves before it switches.
LEMMA TickType ==
  ASSUME TypeOK, NEW new \in SUBSET Pid, NEW ok \in BOOLEAN, NEW s,
         s = [p \in Pid |-> IF p \notin new THEN st[p] ELSE IF ok THEN "ready" ELSE "unused"],
         kind' = [p \in Pid |-> IF p \notin new THEN kind[p] ELSE IF ok THEN "demo" ELSE "none"],
         built' = [p \in Pid |-> IF p \in new THEN ok ELSE built[p] /\ p \notin Reaped]
  PROVE  /\ s \in [Pid -> State]
         /\ kind' \in [Pid -> {"none", "demo", "user"}] /\ built' \in [Pid -> BOOLEAN]
BY DEF TypeOK, State

LEMMA TypeKeeps == TypeOK /\ [Next]_vars => TypeOK'
<1> SUFFICES ASSUME TypeOK, [Next]_vars PROVE TypeOK'
  OBVIOUS
<1> USE ShellIsNoPid
<1>0. /\ cpu \in Context /\ cur \in Context /\ idle \in Context /\ at[cpu].p \in Context
      /\ st \in [Pid -> State] /\ (\A x \in Context : at[x].p \in Context)
      /\ Shell \in Context /\ None \in Context /\ Pid \subseteq Context
  BY DEF TypeOK, Context, State
<1>1. CASE UNCHANGED vars
  BY <1>1 DEF TypeOK, vars
<1>2. CASE Mark
  <2>1. at' \in [Context -> [step : Step, p : Context]]
    BY <1>0, <1>2, StepType DEF Mark, Step
  <2>2. st' \in [Pid -> State]
    <3>1. PICK n \in Context : n = at[cpu].p
      BY <1>0
    <3>2. st' = IF n = None THEN st ELSE SwitchedTo(st, n)
      BY <1>2, <3>1 DEF Mark
    <3>3. n \in Pid => SwitchedTo(st, n) \in [Pid -> State]
      BY <1>0, SwitchedToMeans
    <3> QED BY <1>0, <3>1, <3>2, <3>3 DEF Context
  <2>3. cut' \in BOOLEAN
    BY <1>2 DEF Mark, StaleChoice, Alive, TypeOK
  <2> QED BY <1>2, <2>1, <2>2, <2>3 DEF Mark, TypeOK, State, Step
<1>3. CASE Commit
  <2>1. at' \in [Context -> [step : Step, p : Context]]
    BY <1>0, <1>3, StepType DEF Commit, Step
  <2> QED BY <1>0, <1>3, <2>1 DEF Commit, TypeOK, Step
<1>4. CASE Switch
  BY <1>0, <1>4 DEF Switch, TypeOK, Running
<1>5. ASSUME NEW s, Choose(s)  PROVE at' \in [Context -> [step : Step, p : Context]]
  <2>1. PICK n : n = NextReady(s)
    OBVIOUS
  <2>2. n \in Context
    BY <1>0, <2>1, NextReadyIsReady
  <2>3. at' = at \/ at' = [at EXCEPT ![cpu] = [step |-> "chosen", p |-> n]]
    BY <1>5, <2>1 DEF Choose
  <2> QED BY <1>0, <2>2, <2>3 DEF TypeOK, Step
<1>6. CASE \E x \in Context : Yield(x)
  BY <1>5, <1>6 DEF Yield, TypeOK, Step
<1>7. CASE \E p \in Pid : Exit(p)
  <2>1. PICK p \in Pid : Exit(p)
    BY <1>7
  <2>2. at' \in [Context -> [step : Step, p : Context]]
    BY <1>5, <2>1 DEF Exit
  <2> QED BY <2>1, <2>2 DEF Exit, TypeOK, Step
<1>8. CASE \E p \in Pid : ShellFind(p) \/ Kill(p)
  <2>1. PICK p \in Pid : ShellFind(p) \/ Kill(p)
    BY <1>8
  <2>2. at' \in [Context -> [step : Step, p : Context]]
    BY <1>0, <2>1 DEF ShellFind, Kill, TypeOK, Step
  <2>3. st' \in [Pid -> State]
    BY <1>0, <2>1 DEF ShellFind, Kill, State
  <2>4. UNCHANGED <<kind, built, cur, cpu, idle, respawn, cut>>
    BY <2>1 DEF ShellFind, Kill
  <2> QED BY <2>2, <2>3, <2>4 DEF TypeOK, State, Step
<1>9. CASE ShellTake
  <2>1. at' \in [Context -> [step : Step, p : Context]]
    BY <1>0, <1>9, StepType DEF ShellTake, Step
  <2> QED BY <1>9, <2>1 DEF ShellTake, TypeOK, Step
<1>10. CASE ShellFree \/ SetAutorespawn
  <2>1. at' \in [Context -> [step : Step, p : Context]]
    BY <1>0, <1>10 DEF ShellFree, SetAutorespawn, TypeOK, Running, Step
  <2> QED BY <1>0, <1>10, <2>1 DEF ShellFree, SetAutorespawn, TypeOK, Step
<1>11. CASE \E p, c \in Pid, r \in {"ready", "unused", "exited"} : Fork(p, c, r)
  BY <1>11 DEF Fork, TypeOK
<1>12. CASE \E k \in {"demo", "user"}, r \in {"ready", "unused", "exited"} : ShellBuild(k, r)
  <2>1. PICK k \in {"demo", "user"}, r \in {"ready", "unused", "exited"} : ShellBuild(k, r)
    BY <1>12
  <2>2. at' \in [Context -> [step : Step, p : Context]]
    BY <1>0, <2>1 DEF ShellBuild, TypeOK, Step, Running
  <2>3. PICK p \in Context : p = at[Shell].p
    BY <1>0
  <2>4. /\ st' \in [Pid -> State] /\ built' \in [Pid -> BOOLEAN]
        /\ kind' \in [Pid -> {"none", "demo", "user"}]
    BY <2>1, <2>3 DEF ShellBuild, TypeOK, State
  <2> QED BY <2>1, <2>2, <2>4 DEF ShellBuild, TypeOK, State, Step
<1>13. CASE \E user, ok \in BOOLEAN : Tick(user, ok)
  <2>1. PICK user \in BOOLEAN, ok \in BOOLEAN : Tick(user, ok)
    BY <1>13
  <2>2. PICK new \in SUBSET Pid : new = {p \in FreeSlots : DemoDue /\ IsLowest(p, FreeSlots)}
    BY DEF FreeSlots
  <2>3. PICK s :
          s = [p \in Pid |-> IF p \notin new THEN st[p] ELSE IF ok THEN "ready" ELSE "unused"]
    OBVIOUS
  <2>4. PICK n : n = NextReady(s)
    OBVIOUS
  <2>5. /\ kind' = [p \in Pid |-> IF p \notin new THEN kind[p] ELSE IF ok THEN "demo" ELSE "none"]
        /\ built' = [p \in Pid |-> IF p \in new THEN ok ELSE built[p] /\ p \notin Reaped]
        /\ at' = at /\ respawn' = respawn /\ cut' = (cut \/ TickHarms)
        /\ \/ /\ st' = IF n = None THEN s ELSE SwitchedTo(s, n)
              /\ cur' = n
              /\ cpu' = IF n # None THEN n ELSE IF cur = None THEN cpu ELSE idle
              /\ idle' = IF cur = None /\ n # None THEN cpu ELSE idle
           \/ st' = s /\ UNCHANGED <<cur, cpu, idle>>
    BY <2>1, <2>2, <2>3, <2>4 DEF Tick
  <2>6. /\ s \in [Pid -> State]
        /\ kind' \in [Pid -> {"none", "demo", "user"}] /\ built' \in [Pid -> BOOLEAN]
    BY <2>2, <2>3, <2>5, TickType
  <2>7. n \in Context /\ (n # None => n \in Pid)
    BY <1>0, <2>4, NextReadyIsReady
  <2>8. st' \in [Pid -> State]
    <3>1. n \in Pid => SwitchedTo(s, n) \in [Pid -> State]
      BY <2>6, SwitchedToMeans
    <3> QED BY <2>5, <2>6, <2>7, <3>1
  <2>9. cut' \in BOOLEAN
    BY <2>5 DEF TypeOK, TickHarms
  <2> QED BY <1>0, <2>5, <2>6, <2>7, <2>8, <2>9 DEF TypeOK, State
<1> QED BY <1>1, <1>2, <1>3, <1>4, <1>6, <1>7, <1>8, <1>9, <1>10, <1>11, <1>12, <1>13 DEF Next

-----------------------------------------------------------------------------
\* Every step that does no harm keeps the invariant.
LEMMA StutterKeeps ==
  ASSUME Sound, UNCHANGED vars
  PROVE  Sound'
BY DEF Sound, StacksHeld, CpuIsCurrent, CallsAgree, MarkedWaits, Alive, vars

LEMMA MarkKeeps ==
  ASSUME TypeOK, Sound, ~cut', Mark
  PROVE  Sound'
<1> USE ShellIsNoPid
<1>1. PICK n \in Context : n = at[cpu].p
  BY DEF TypeOK
<1>2. /\ at[cpu].step = "chosen" /\ UNCHANGED <<kind, built, cur, cpu, idle, respawn>>
      /\ st' = IF n = None THEN st ELSE SwitchedTo(st, n)
      /\ cpu \in Context /\ cur = cpu /\ idle = Shell /\ st \in [Pid -> State]
      /\ cpu = Shell => n \in Pid /\ Alive(n)
      /\ cpu \in Pid => /\ st[cpu] \in {"running", "exited"}
                        /\ n \in Pid => st[n] = "ready"
      /\ n = None /\ cpu \in Pid /\ st[cpu] # "exited" =>
           kind[cpu] = "demo" /\ Alive(cpu) /\ \A q \in Pid : st[q] # "ready"
  BY <1>1 DEF Mark, StaleChoice, Sound, CallsAgree, TypeOK, State, Context
<1>3. /\ at'[cpu] = [step |-> "marked", p |-> n]
      /\ \A x \in Context \ {cpu} : at'[x] = at[x]
  <2>1. at' = [at EXCEPT ![cpu].step = "marked"] /\ "marked" \in Step
    BY DEF Mark, Step
  <2> QED BY <1>1, <1>2, <2>1, StepType
<1>4. /\ n \in Pid => st'[n] = "running"
      /\ \A p \in Pid \ {n} : \/ st'[p] = st[p]
                              \/ st[p] = "running" /\ st'[p] = "ready" /\ p = cur /\ n \in Pid
      /\ \A p \in Pid : Alive(p)' => Alive(p)
  <2>1. CASE n = None
    BY <1>2, <2>1 DEF Alive
  <2>2. CASE n \in Pid
    <3>1. st' = [p \in Pid |-> IF p = n THEN "running"
                              ELSE IF p = cur /\ st[p] = "running" THEN "ready" ELSE st[p]]
      BY <1>2, <2>2 DEF SwitchedTo
    <3>2. Alive(n)
      BY <1>2, <2>2 DEF Alive, Context
    <3> QED BY <2>2, <3>1, <3>2 DEF Alive
  <2> QED BY <2>1, <2>2 DEF Context
<1>5. StacksHeld'
  <2>1. \A q \in Pid : Alive(q) => built[q]
    BY <1>2, AllHeld
  <2> QED BY <1>2, <1>4, <2>1 DEF StacksHeld, Sound
<1>6. CpuIsCurrent'
  BY <1>2, <1>3 DEF CpuIsCurrent, Running
<1>7. CallsAgree'
  <2>1. \A x \in Context \ {cpu} :
          \/ at'[x] = Running
          \/ x = Shell /\ at'[x].step \in {"chosen", "marked", "found"} /\ at'[x].p \in Pid
    BY <1>3 DEF Sound, CallsAgree
  <2>2. cpu \in Pid => st'[cpu] # "unused"
    BY <1>2, <1>4 DEF Context
  <2>3. n = None /\ cpu \in Pid /\ st'[cpu] # "exited" =>
           kind[cpu] = "demo" /\ Alive(cpu)' /\ \A q \in Pid : st'[q] # "ready"
    BY <1>2 DEF Alive
  <2> QED BY <1>2, <1>3, <1>4, <2>1, <2>2, <2>3 DEF CallsAgree
<1>8. MarkedWaits'
  <2> SUFFICES ASSUME at'[Shell].step = "marked", cpu # Shell
               PROVE  LET p == at'[Shell].p
                      IN  st'[p] = "running" /\ p # cpu /\ p # at'[cpu].p
    BY <1>2 DEF MarkedWaits
  <2>1. PICK m : m = at[Shell].p
    OBVIOUS
  <2>2. at'[Shell] = at[Shell] /\ at[Shell].step = "marked"
    BY <1>3 DEF Context
  <2>3. st[m] = "running" /\ m # cpu /\ m # n
    BY <1>1, <2>1, <2>2 DEF Sound, MarkedWaits
  <2>4. m \in Pid
    BY <2>1, <2>2 DEF Sound, CallsAgree, Running, Context
  <2>5. st'[m] = "running"
    BY <1>2, <1>4, <2>3, <2>4
  <2> QED BY <1>3, <2>1, <2>2, <2>3, <2>5
<1> QED BY <1>5, <1>6, <1>7, <1>8 DEF Sound

LEMMA CommitKeeps ==
  ASSUME TypeOK, Sound, ~cut', Commit
  PROVE  Sound'
<1> USE ShellIsNoPid
<1>1. PICK n \in Context : n = at[cpu].p
  BY DEF TypeOK
<1>2. /\ at[cpu].step = "marked" /\ UNCHANGED <<st, kind, built, cpu, idle, respawn>>
      /\ cur' = n /\ cpu \in Context /\ idle = Shell
      /\ cpu = Shell => n \in Pid
      /\ cpu \in Pid => st[cpu] # "unused"
      /\ n = None /\ cpu \in Pid /\ st[cpu] # "exited" =>
           kind[cpu] = "demo" /\ Alive(cpu) /\ \A q \in Pid : st[q] # "ready"
      /\ n \in Pid => st[n] = "running"
  BY <1>1 DEF Commit, Sound, CallsAgree, TypeOK
<1>3. /\ at'[cpu] = [step |-> "switch", p |-> n]
      /\ \A x \in Context \ {cpu} : at'[x] = at[x]
  <2>1. at' = [at EXCEPT ![cpu].step = "switch"] /\ "switch" \in Step
    BY DEF Commit, Step
  <2> QED BY <1>1, <1>2, <2>1, StepType
<1>5. StacksHeld'
  <2>1. \A q \in Pid : Alive(q) => built[q]
    BY <1>2, AllHeld
  <2> QED BY <1>2, <2>1 DEF StacksHeld, Sound, Alive
<1>6. CpuIsCurrent'
  BY <1>2, <1>3 DEF CpuIsCurrent, Running
<1>7. CallsAgree'
  <2>1. \A x \in Context \ {cpu} :
          \/ at'[x] = Running
          \/ x = Shell /\ at'[x].step \in {"chosen", "marked", "found"} /\ at'[x].p \in Pid
    BY <1>3 DEF Sound, CallsAgree
  <2> QED BY <1>2, <1>3, <2>1 DEF CallsAgree, Alive
<1>8. MarkedWaits'
  BY <1>1, <1>2, <1>3 DEF MarkedWaits, Sound, Context
<1> QED BY <1>5, <1>6, <1>7, <1>8 DEF Sound, Commit

LEMMA SwitchKeeps ==
  ASSUME TypeOK, Sound, ~cut', Switch
  PROVE  Sound'
<1> USE ShellIsNoPid
<1>1. PICK n \in Context : n = at[cpu].p
  BY DEF TypeOK
<1>2. /\ at[cpu].step = "switch" /\ UNCHANGED <<st, kind, built, cur, respawn>>
      /\ cur = n /\ cpu \in Context /\ idle = Shell /\ idle' = Shell /\ cpu' = n
      /\ n \in Pid => st[n] = "running"
      /\ cpu = Shell => n \in Pid
  BY <1>1 DEF Switch, Sound, CallsAgree, TypeOK, Context
<1>3. /\ at'[cpu] = Running
      /\ \A x \in Context \ {cpu} : at'[x] = at[x]
  BY <1>2 DEF Switch, TypeOK
<1>4. \A x \in Context :
        \/ at'[x] = Running
        \/ x = Shell /\ at'[x].step \in {"chosen", "marked", "found"} /\ at'[x].p \in Pid
  BY <1>3 DEF Sound, CallsAgree
<1>5. StacksHeld'
  <2>1. \A q \in Pid : Alive(q) => built[q]
    BY <1>2, AllHeld
  <2> QED BY <1>2, <2>1 DEF StacksHeld, Alive
<1>6. CpuIsCurrent'
  BY <1>2 DEF CpuIsCurrent
<1>7. MarkedWaits'
  <2> SUFFICES ASSUME at'[Shell].step = "marked", n # Shell
               PROVE  LET p == at'[Shell].p
                      IN  st[p] = "running" /\ p # n /\ p # at'[n].p
    BY <1>2 DEF MarkedWaits
  <2>1. cpu # Shell /\ at'[Shell] = at[Shell]
    BY <1>2, <1>3 DEF Running, Context
  <2>2. at'[n] = Running
    BY <1>4, <1>2
  <2>3. at[Shell].p \in Pid
    BY <2>1, <1>4 DEF Running, Context
  <2>4. st[at[Shell].p] = "running" /\ at[Shell].p # n
    BY <1>1, <2>1 DEF Sound, MarkedWaits
  <2> QED BY <2>1, <2>2, <2>3, <2>4 DEF Running
<1>8. CallsAgree'
  <2>1. CASE n \in Pid
    <3>1. at'[n] = Running /\ Running.step = "run" /\ Running.p = None
      BY <1>4, <2>1 DEF Running
    <3> QED BY <1>2, <1>4, <2>1, <3>1 DEF CallsAgree
  <2>2. CASE n = Shell
    <3>1. cpu # Shell /\ at'[Shell] = at[Shell]
      BY <1>2, <1>3, <2>2
    <3>2. at[Shell].step = "marked" => st[at[Shell].p] = "running"
      BY <3>1 DEF Sound, MarkedWaits
    <3>3. \/ at'[Shell].step = "run" /\ at'[Shell].p = None
          \/ at'[Shell].step \in {"chosen", "marked", "found"} /\ at'[Shell].p \in Pid
      BY <1>4, <2>2 DEF Running
    <3> QED BY <1>2, <1>4, <2>2, <3>1, <3>2, <3>3 DEF CallsAgree
  <2> QED BY <2>1, <2>2 DEF Context
<1> QED BY <1>5, <1>6, <1>7, <1>8 DEF Sound

\* What holds where the context on the CPU is in no call.
LEMMA WhenRunning ==
  ASSUME TypeOK, Sound, at[cpu] = Running
  PROVE  /\ cur = cpu /\ idle = Shell /\ cpu \in Context /\ Running.step = "run" /\ Running.p = None
         /\ cpu \in Pid => st[cpu] = "running"
         /\ \A x \in Pid : at[x] = Running
         /\ \/ at[Shell] = Running
            \/ at[Shell].step \in {"chosen", "marked", "found"} /\ at[Shell].p \in Pid
         /\ \A q \in Pid : Alive(q) => built[q]
<1>1. at[cpu].step = "run" /\ Running.p = None
  BY DEF Running
<1>2. \A q \in Pid : Alive(q) => built[q]
  BY <1>1, AllHeld
<1> QED BY <1>1, <1>2, ShellIsNoPid DEF Sound, CpuIsCurrent, CallsAgree, TypeOK, Running, Context

\* Choosing changes nothing but where the caller is.
LEMMA ChooseKeeps ==
  ASSUME TypeOK, Sound, ~cut', NEW s \in [Pid -> State], at[cpu] = Running, Choose(s), st' = s,
         \A p \in Pid \ {cpu} : s[p] = st[p],
         cpu \in Pid => s[cpu] = "exited" \/ (s[cpu] = "running" /\ kind[cpu] = "demo"),
         UNCHANGED <<kind, built, cur, cpu, idle, respawn>>
  PROVE  Sound'
<1> USE ShellIsNoPid
<1>1. PICK n : n = NextReady(s)
  OBVIOUS
<1>2. /\ cur = cpu /\ idle = Shell /\ cpu \in Context
      /\ \/ n = None /\ \A q \in Pid : s[q] # "ready"
         \/ n \in Pid /\ s[n] = "ready"
      /\ \A q \in Pid : Alive(q) => built[q]
      /\ cpu \in Pid => st[cpu] = "running" /\ built[cpu]
  BY <1>1, WhenRunning, NextReadyIsReady DEF Alive
<1>3. n \in Context
  BY <1>2 DEF Context
<1>4. \A q \in Pid : Alive(q)' => Alive(q)
  BY <1>2 DEF Alive
<1>5. CASE n = None /\ cur = None
  <2>1. at' = at /\ st' = st
    <3>1. cpu \notin Pid
      BY <1>2, <1>5
    <3>2. at' = at
      BY <1>1, <1>5 DEF Choose
    <3>3. s = st
      <4>1. \A q \in Pid : s[q] = st[q]
        BY <3>1
      <4>2. st \in [Pid -> State]
        BY DEF TypeOK, State
      <4>3. s = [q \in Pid |-> s[q]] /\ st = [q \in Pid |-> st[q]]
        BY <4>2
      <4> QED BY <4>1, <4>3
    <3> QED BY <3>2, <3>3
  <2> QED BY <2>1 DEF Sound, StacksHeld, CpuIsCurrent, CallsAgree, MarkedWaits, Alive
<1>6. CASE ~(n = None /\ cur = None)
  <2>1. /\ at'[cpu] = [step |-> "chosen", p |-> n]
        /\ \A x \in Context \ {cpu} : at'[x] = at[x]
    BY <1>1, <1>2, <1>6 DEF Choose, TypeOK
  <2>2. StacksHeld'
    BY <1>2, <1>4 DEF StacksHeld
  <2>3. CpuIsCurrent'
    BY <2>1 DEF CpuIsCurrent, Running
  <2>4. MarkedWaits'
    <3> SUFFICES ASSUME at'[Shell].step = "marked", cpu # Shell
                 PROVE  LET p == at'[Shell].p
                        IN  s[p] = "running" /\ p # cpu /\ p # at'[cpu].p
      BY DEF MarkedWaits
    <3>1. at'[Shell] = at[Shell] /\ at[Shell].step = "marked"
      BY <2>1 DEF Context
    <3>2. PICK m \in Pid : m = at[Shell].p
      BY <3>1, WhenRunning
    <3>3. st[m] = "running" /\ m # cpu
      BY <3>1, <3>2 DEF Sound, MarkedWaits
    <3> QED BY <1>2, <2>1, <3>1, <3>2, <3>3
  <2>5. CallsAgree'
    <3>1. \A x \in Context \ {cpu} :
            \/ at'[x] = Running
            \/ x = Shell /\ at'[x].step \in {"chosen", "marked", "found"} /\ at'[x].p \in Pid
      BY <2>1 DEF Sound, CallsAgree
    <3>2. cpu = Shell => n \in Pid
      BY <1>2, <1>6
    <3>3. n = None /\ cpu \in Pid /\ s[cpu] # "exited" =>
             kind[cpu] = "demo" /\ Alive(cpu)' /\ \A q \in Pid : s[q] # "ready"
      BY <1>2 DEF Alive
    <3>4. cpu \in Pid => s[cpu] \in {"running", "exited"}
      OBVIOUS
    <3> QED BY <1>2, <2>1, <3>1, <3>2, <3>3, <3>4 DEF CallsAgree
  <2> QED BY <2>2, <2>3, <2>4, <2>5 DEF Sound
<1> QED BY <1>5, <1>6

LEMMA YieldKeeps ==
  ASSUME TypeOK, Sound, ~cut', NEW x \in Context, Yield(x)
  PROVE  Sound'
<1>1. /\ at[cpu] = Running /\ Choose(st) /\ (cpu \in Pid => kind[cpu] = "demo")
      /\ UNCHANGED <<st, kind, built, cur, cpu, idle, respawn>>
  BY DEF Yield, Executes
<1>2. st \in [Pid -> State] /\ (cpu \in Pid => st[cpu] = "running")
  BY <1>1, WhenRunning DEF TypeOK, State
<1> QED BY <1>1, <1>2, ChooseKeeps

LEMMA ExitKeeps ==
  ASSUME TypeOK, Sound, ~cut', NEW p \in Pid, Exit(p)
  PROVE  Sound'
<1>1. /\ at[cpu] = Running /\ cpu = p /\ Choose(st') /\ st' = [st EXCEPT ![p] = "exited"]
      /\ UNCHANGED <<kind, built, cur, cpu, idle, respawn>>
  BY DEF Exit, Executes
<1>2. st' \in [Pid -> State] /\ st'[p] = "exited" /\ \A q \in Pid \ {p} : st'[q] = st[q]
  BY <1>1 DEF TypeOK, State
<1> QED BY <1>1, <1>2, ChooseKeeps

LEMMA ForkKeeps ==
  ASSUME TypeOK, Sound, ~cut', NEW p \in Pid, NEW c \in Pid,
         NEW result \in {"ready", "unused", "exited"}, Fork(p, c, result)
  PROVE  Sound'
<1> USE ShellIsNoPid
<1>1. /\ cpu = p /\ at[p] = Running /\ st[p] = "running" /\ ~Alive(c)
      /\ st' = [st EXCEPT ![c] = result]
      /\ built' = [built EXCEPT ![c] = (result = "ready")]
      /\ UNCHANGED <<cur, cpu, at, idle, respawn>>
  BY DEF Fork, Executes, IsLowest, FreeSlots
<1>2. /\ cur = p /\ c # p /\ idle = Shell /\ \A q \in Pid : Alive(q) => built[q]
      /\ \A q \in Pid : q # c => st'[q] = st[q] /\ built'[q] = built[q]
      /\ st'[c] = result /\ built'[c] = (result = "ready")
  BY <1>1, WhenRunning DEF Alive, TypeOK
<1>3. StacksHeld'
  BY <1>1, <1>2 DEF StacksHeld, Alive
<1>4. CpuIsCurrent'
  BY <1>1, <1>2 DEF CpuIsCurrent
<1>5. CallsAgree'
  <2>1. at[p].step = "run"
    BY <1>1 DEF Running
  <2> QED BY <1>1, <1>2, <2>1 DEF CallsAgree, Sound
<1>6. MarkedWaits'
  <2> SUFFICES ASSUME at[Shell].step = "marked"
               PROVE  LET m == at[Shell].p IN st'[m] = "running" /\ m # p /\ m # at[p].p
    BY <1>1 DEF MarkedWaits
  <2>1. PICK m \in Pid : m = at[Shell].p
    BY <1>1, WhenRunning
  <2>2. st[m] = "running" /\ m # p /\ m # at[p].p
    BY <1>1, <2>1 DEF Sound, MarkedWaits
  <2> QED BY <1>1, <1>2, <2>1, <2>2 DEF Alive
<1> QED BY <1>3, <1>4, <1>5, <1>6 DEF Sound

\* The shell's own steps, between which only a tick can come.
LEMMA ShellKeeps ==
  ASSUME TypeOK, Sound, ~cut', cpu = Shell, UNCHANGED <<cur, cpu, idle>>,
         at[Shell].step # "switch",
         NEW c \in [step : {"run", "found", "create", "kill"}, p : Context],
         at' = [at EXCEPT ![Shell] = c],
         IF c.step = "run" THEN c = Running ELSE c.p \in Pid,
         c.step = "create" => st'[c.p] = "ready", c.step = "kill" => st'[c.p] = "exited",
         \A q \in Pid : Alive(q)' => built'[q] \/ c = [step |-> "create", p |-> q]
  PROVE  Sound'
<1> USE ShellIsNoPid
<1>1. /\ cur = Shell /\ idle = Shell /\ Shell \in Context
      /\ \A x \in Context \ {Shell} : at[x] = Running
  BY DEF Sound, CallsAgree, Context
<1>2. at'[Shell] = c /\ \A x \in Context \ {Shell} : at'[x] = Running
  BY <1>1 DEF TypeOK
<1>3. Running.p = None
  BY DEF Running
<1>4. StacksHeld' /\ CpuIsCurrent' /\ MarkedWaits'
  BY <1>1, <1>2 DEF StacksHeld, CpuIsCurrent, MarkedWaits
<1>5. CallsAgree'
  BY <1>1, <1>2, <1>3 DEF CallsAgree
<1> QED BY <1>4, <1>5 DEF Sound

LEMMA ShellFindKeeps ==
  ASSUME TypeOK, Sound, ~cut', NEW p \in Pid, ShellFind(p)
  PROVE  Sound'
<1>1. cpu = Shell /\ at[cpu] = Running /\ at[Shell].step # "switch"
  BY DEF ShellFind, Executes, Running
<1>2. \A q \in Pid : Alive(q) => built[q]
  BY <1>1, WhenRunning
<1>3. [step |-> "found", p |-> p] \in [step : {"run", "found", "create", "kill"}, p : Context]
  BY DEF Context
<1> QED BY <1>1, <1>2, <1>3, ShellKeeps DEF ShellFind, Alive

LEMMA ShellTakeKeeps ==
  ASSUME TypeOK, Sound, ~cut', ShellTake
  PROVE  Sound'
<1> USE ShellIsNoPid
<1>1. cpu = Shell /\ at[Shell].step = "found" /\ Shell \in Context
  BY DEF ShellTake, Context
<1>2. PICK p \in Pid : p = at[Shell].p
  BY <1>1 DEF Sound, CallsAgree
<1>3. PICK c : c = [step |-> "create", p |-> p]
  OBVIOUS
<1>4. at' = [at EXCEPT ![Shell] = c]
  <2>1. PICK a : a = at[Shell]
    OBVIOUS
  <2>2. a \in [step : Step, p : Context]
    BY <1>1, <2>1 DEF TypeOK, Step
  <2>3. [a EXCEPT !.step = "create"] = c
    BY <1>2, <1>3, <2>1, <2>2
  <2> QED BY <2>1, <2>3 DEF ShellTake
<1>5. c \in [step : {"run", "found", "create", "kill"}, p : Context] /\ c.step = "create" /\ c.p = p
  BY <1>3 DEF Context
<1>6. st' = [st EXCEPT ![p] = "ready"] /\ built' = [built EXCEPT ![p] = FALSE]
  BY <1>2 DEF ShellTake
<1>7. \A q \in Pid : Alive(q) => built[q]
  BY <1>1, AllHeld
<1>8. \A q \in Pid : Alive(q)' => built'[q] \/ c = [step |-> "create", p |-> q]
  BY <1>3, <1>6, <1>7 DEF Alive, TypeOK
<1>9. st'[p] = "ready"
  BY <1>6 DEF TypeOK
<1>10. UNCHANGED <<cur, cpu, idle>> /\ at[Shell].step # "switch"
  BY <1>1 DEF ShellTake
<1> QED BY <1>1, <1>4, <1>5, <1>8, <1>9, <1>10, ShellKeeps

LEMMA ShellBuildKeeps ==
  ASSUME TypeOK, Sound, ~cut', NEW k \in {"demo", "user"},
         NEW result \in {"ready", "unused", "exited"}, ShellBuild(k, result)
  PROVE  Sound'
<1> USE ShellIsNoPid
<1>1. cpu = Shell /\ at[Shell].step = "create"
  BY DEF ShellBuild
<1>2. PICK p \in Pid : p = at[Shell].p
  BY <1>1 DEF Sound, CallsAgree
<1>3. /\ st' = IF result = "ready" THEN st ELSE [st EXCEPT ![p] = result]
      /\ built' = [built EXCEPT ![p] = (result = "ready")]
      /\ at' = [at EXCEPT ![Shell] = Running]
      /\ UNCHANGED <<cur, cpu, idle>>
  BY <1>2 DEF ShellBuild
<1>4. \A q \in Pid \ {p} : Alive(q) => built[q]
  <2> SUFFICES ASSUME NEW q \in Pid, q # p PROVE Alive(q) => built[q]
    OBVIOUS
  <2>1. at[Shell] # [step |-> "create", p |-> q]
    <3> SUFFICES ASSUME at[Shell] = [step |-> "create", p |-> q] PROVE FALSE
      OBVIOUS
    <3>1. at[Shell].p = q
      OBVIOUS
    <3> QED BY <1>2, <3>1
  <2> QED BY <2>1 DEF Sound, StacksHeld
<1>5. \A q \in Pid : Alive(q)' => built'[q]
  <2>1. \A q \in Pid \ {p} : st'[q] = st[q] /\ built'[q] = built[q]
    BY <1>3 DEF TypeOK
  <2>2. result # "ready" => st'[p] = result
    BY <1>3 DEF TypeOK
  <2>3. built'[p] = (result = "ready")
    BY <1>3 DEF TypeOK
  <2> QED BY <1>4, <2>1, <2>2, <2>3 DEF Alive
<1>6. Running \in [step : {"run", "found", "create", "kill"}, p : Context] /\ Running.step = "run"
  BY DEF Running, Context
<1> QED BY <1>1, <1>3, <1>5, <1>6, ShellKeeps

LEMMA KillKeeps ==
  ASSUME TypeOK, Sound, ~cut', NEW p \in Pid, Kill(p)
  PROVE  Sound'
<1>1. cpu = Shell /\ at[cpu] = Running /\ at[Shell].step # "switch"
  BY DEF Kill, Executes, Running
<1>2. PICK c : c = [step |-> "kill", p |-> p]
  OBVIOUS
<1>3. /\ at' = [at EXCEPT ![Shell] = c] /\ st' = [st EXCEPT ![p] = "exited"]
      /\ UNCHANGED <<built, cur, cpu, idle>>
  BY <1>2 DEF Kill
<1>4. c \in [step : {"run", "found", "create", "kill"}, p : Context] /\ c.step = "kill" /\ c.p = p
  BY <1>2 DEF Context
<1>5. st'[p] = "exited" /\ \A q \in Pid : Alive(q)' => built'[q]
  BY <1>1, <1>3, WhenRunning DEF Alive, TypeOK
<1> QED BY <1>1, <1>3, <1>4, <1>5, ShellKeeps

LEMMA ShellFreeKeeps ==
  ASSUME TypeOK, Sound, ~cut', ShellFree
  PROVE  Sound'
<1> USE ShellIsNoPid
<1>1. cpu = Shell /\ at[Shell].step = "kill"
  BY DEF ShellFree
<1>2. PICK p \in Pid : p = at[Shell].p /\ st[p] = "exited"
  BY <1>1 DEF Sound, CallsAgree
<1>3. /\ at' = [at EXCEPT ![Shell] = Running] /\ built' = [built EXCEPT ![p] = FALSE]
      /\ UNCHANGED <<st, cur, cpu, idle>>
  BY <1>2 DEF ShellFree
<1>4. \A q \in Pid : Alive(q) => built[q]
  BY <1>1, AllHeld
<1>5. \A q \in Pid : Alive(q)' => built'[q]
  BY <1>2, <1>3, <1>4 DEF Alive, TypeOK
<1>6. Running \in [step : {"run", "found", "create", "kill"}, p : Context] /\ Running.step = "run"
  BY DEF Running, Context
<1> QED BY <1>1, <1>3, <1>5, <1>6, ShellKeeps

LEMMA SetAutorespawnKeeps ==
  ASSUME TypeOK, Sound, ~cut', SetAutorespawn
  PROVE  Sound'
BY DEF Sound, SetAutorespawn, StacksHeld, CpuIsCurrent, CallsAgree, MarkedWaits, Alive

\* A tick that switches from the shell, between two calls or in the middle of one
\* that can stand it: the process chosen is READY, so it is not what the shell
\* has marked.
LEMMA TickKeeps ==
  ASSUME TypeOK, Sound, ~cut', NEW user \in BOOLEAN, NEW ok \in BOOLEAN, Tick(user, ok)
  PROVE  Sound'
<1> USE ShellIsNoPid
<1>1. PICK new \in SUBSET Pid : new = {p \in FreeSlots : DemoDue /\ IsLowest(p, FreeSlots)}
  BY DEF FreeSlots
<1>2. PICK s :
        s = [p \in Pid |-> IF p \notin new THEN st[p] ELSE IF ok THEN "ready" ELSE "unused"]
  OBVIOUS
<1>3. PICK n : n = NextReady(s)
  OBVIOUS
<1>4. /\ user => cpu \in Pid /\ at[cpu] = Running
      /\ kind' = [p \in Pid |-> IF p \notin new THEN kind[p] ELSE IF ok THEN "demo" ELSE "none"]
      /\ built' = [p \in Pid |-> IF p \in new THEN ok ELSE built[p] /\ p \notin Reaped]
      /\ at' = at /\ ~TickHarms
      /\ \/ /\ cur = None \/ user
            /\ st' = IF n = None THEN s ELSE SwitchedTo(s, n)
            /\ cur' = n
            /\ cpu' = IF n # None THEN n ELSE IF cur = None THEN cpu ELSE idle
            /\ idle' = IF cur = None /\ n # None THEN cpu ELSE idle
         \/ ~(cur = None \/ user) /\ st' = s /\ UNCHANGED <<cur, cpu, idle>>
  BY <1>1, <1>2, <1>3 DEF Tick, Executes
<1>5. /\ s \in [Pid -> State] /\ cur \in Context /\ cpu \in Context /\ st \in [Pid -> State]
      /\ idle = Shell
  BY <1>1, <1>2, <1>4, TickType DEF TypeOK, State, Sound, CallsAgree
<1>6. \/ n = None /\ \A q \in Pid : s[q] # "ready"
      \/ n \in Pid /\ s[n] = "ready"
  BY <1>3, <1>5, NextReadyIsReady
<1>7. at[cpu].step \notin {"create", "kill"} /\ (cpu \in Pid => cpu \notin new)
  <2>1. cpu \in Pid /\ cpu \in new => st[cpu] = "exited"
    BY <1>1, <1>5 DEF FreeSlots, Alive, Sound, CallsAgree, State
  <2> QED BY <1>1, <1>4, <2>1 DEF TickHarms
<1>8. \A q \in Pid : s[q] \in {"ready", "running"} => built'[q]
  <2> SUFFICES ASSUME NEW q \in Pid, s[q] \in {"ready", "running"} PROVE built'[q]
    OBVIOUS
  <2>1. CASE q \in new
    BY <1>2, <1>4, <2>1
  <2>2. CASE q \notin new
    <3>1. Alive(q)
      BY <1>2, <2>2 DEF Alive
    <3>2. built[q] /\ q \notin Reaped
      BY <1>7, <3>1, AllHeld DEF Alive, Reaped
    <3> QED BY <1>4, <2>2, <3>2
  <2> QED BY <2>1, <2>2
<1>9. \A q \in Pid : Alive(q) => q \notin new /\ s[q] = st[q]
  BY <1>1, <1>2 DEF FreeSlots
<1>10. cpu \in Pid => s[cpu] = st[cpu] /\ st[cpu] # "unused"
  BY <1>2, <1>7 DEF Sound, CallsAgree
<1>11. cpu \in Pid => built'[cpu]
  <2> SUFFICES ASSUME cpu \in Pid PROVE built'[cpu]
    OBVIOUS
  <2>1. built[cpu]
    BY DEF Sound, StacksHeld
  <2>2. cpu \notin Reaped
    <3>1. CASE Alive(cpu)
      BY <3>1 DEF Reaped, Alive
    <3>2. CASE ~Alive(cpu)
      <4>1. at[cpu].step # "switch"
        BY <1>4, <1>5, <1>10, <3>2 DEF TickHarms, Alive, State
      <4>2. cur = cpu
        BY <4>1 DEF Sound, CallsAgree
      <4> QED BY <4>2 DEF Reaped
    <3> QED BY <3>1, <3>2
  <2> QED BY <1>4, <1>7, <2>1, <2>2
\* The marked process waits on.
<1>12. ASSUME at[Shell].step = "marked"
       PROVE  at[Shell].p \in Pid /\ s[at[Shell].p] = "running"
  <2>1. at[Shell].p \in Pid /\ st[at[Shell].p] = "running"
    BY <1>5, <1>12 DEF Sound, CallsAgree, MarkedWaits, Running, Context
  <2> QED BY <1>9, <2>1 DEF Alive
<1>13. CASE n \in Pid /\ (cur = None \/ user)
  \* A switch, from the shell or from user mode.
  <2>1. cur = cpu /\ (cpu = Shell \/ at[cpu] = Running)
    <3>1. CASE user
      BY <1>4, <3>1, WhenRunning
    <3>2. CASE cur = None /\ at[cpu].step # "switch"
      BY <1>5, <3>2 DEF Sound, CallsAgree
    <3>3. CASE cur = None /\ at[cpu].step = "switch"
      <4>1. cpu \in Pid /\ at[cpu].p = None
        BY <1>5, <3>3 DEF Sound, CallsAgree, Context
      <4>2. st[cpu] # "exited"
        BY <1>4, <3>3, <4>1 DEF TickHarms
      <4>3. kind[cpu] = "demo" /\ Alive(cpu) /\ \A q \in Pid : st[q] # "ready"
        BY <3>3, <4>1, <4>2 DEF Sound, CallsAgree
      <4>4. new = {}
        BY <1>1, <4>1, <4>3 DEF DemoDue
      <4> QED BY <1>2, <1>6, <1>13, <4>3, <4>4
    <3> QED BY <1>13, <3>1, <3>2, <3>3
  <2>2. /\ st' = SwitchedTo(s, n) /\ cur' = n /\ cpu' = n /\ idle' = Shell /\ s[n] = "ready"
    BY <1>4, <1>5, <1>6, <1>13, <2>1
  <2>3. /\ st'[n] = "running"
        /\ \A q \in Pid \ {n} : st'[q] = s[q] \/ (s[q] = "running" /\ st'[q] = "ready" /\ q = cur)
    BY <1>5, <1>13, <2>2 DEF SwitchedTo
  <2>4. /\ \A x \in Pid : at[x] = Running
        /\ \/ at[Shell] = Running
           \/ at[Shell].step \in {"chosen", "marked", "found"} /\ at[Shell].p \in Pid
    <3>1. CASE at[cpu] = Running
      BY <3>1, WhenRunning
    <3>2. CASE cpu = Shell /\ at[cpu] # Running
      <4>1. \A x \in Pid : at[x] = Running
        BY <3>2 DEF Sound, CallsAgree, Context
      <4>2. at[Shell].step # "switch" /\ at[Shell].step # "run"
        BY <1>5, <2>1, <3>2 DEF Sound, CallsAgree, TypeOK, Running, Context
      <4>3. at[Shell].step \in {"chosen", "marked", "found"}
        BY <1>5, <1>7, <3>2, <4>2 DEF TypeOK, Context
      <4> QED BY <3>2, <4>1, <4>2, <4>3 DEF Sound, CallsAgree
    <3> QED BY <2>1, <3>1, <3>2
  <2>5. StacksHeld'
    BY <1>8, <1>13, <2>2, <2>3 DEF StacksHeld, Alive
  <2>6. CpuIsCurrent'
    BY <2>2, <2>3 DEF CpuIsCurrent
  <2>7. CallsAgree'
    <3>1. at'[cpu'] = Running /\ Running.step = "run" /\ Running.p = None
      BY <1>4, <1>13, <2>2, <2>4 DEF Running
    <3> QED BY <1>4, <1>13, <2>2, <2>3, <2>4, <3>1 DEF CallsAgree, Context
  <2>8. MarkedWaits'
    <3> SUFFICES ASSUME at[Shell].step = "marked"
                 PROVE  LET m == at[Shell].p IN st'[m] = "running" /\ m # n /\ m # at[n].p
      BY <1>4, <2>2 DEF MarkedWaits
    <3>1. PICK m \in Pid : m = at[Shell].p /\ s[m] = "running"
      BY <1>12
    <3>2. m # cur
      BY <1>5, <2>1, <3>1 DEF Sound, MarkedWaits, Context
    <3>3. m # n /\ st'[m] = "running"
      BY <1>13, <2>2, <2>3, <3>1, <3>2
    <3>4. at[n].p = None
      BY <1>13, <2>4 DEF Running
    <3> QED BY <3>1, <3>3, <3>4
  <2> QED BY <2>5, <2>6, <2>7, <2>8 DEF Sound
<1>14. CASE n = None /\ user /\ cur # None
  \* From user mode to the shell.
  <2>1. cur = cpu /\ at[cpu] = Running /\ cpu \in Pid
    BY <1>4, <1>14, WhenRunning
  <2>2. st' = s /\ cur' = None /\ cpu' = Shell /\ idle' = Shell
    BY <1>4, <1>5, <1>14
  <2>3. /\ \A x \in Pid : at[x] = Running
        /\ \/ at[Shell] = Running
           \/ at[Shell].step \in {"chosen", "marked", "found"} /\ at[Shell].p \in Pid
    BY <2>1, WhenRunning
  <2>4. StacksHeld' /\ CpuIsCurrent' /\ MarkedWaits'
    BY <1>8, <2>2 DEF StacksHeld, CpuIsCurrent, MarkedWaits, Alive
  <2>5. CallsAgree'
    BY <1>4, <1>12, <2>2, <2>3 DEF CallsAgree, Context, Running
  <2> QED BY <2>4, <2>5 DEF Sound
<1>15. CASE ~(n \in Pid /\ (cur = None \/ user)) /\ ~(n = None /\ user /\ cur # None)
  \* The context on the CPU goes on.
  <2>1. st' = s /\ UNCHANGED <<cur, cpu, idle>>
    BY <1>4, <1>5, <1>6, <1>15
  <2>2. StacksHeld'
    BY <1>8, <1>11, <2>1 DEF StacksHeld, Alive
  <2>3. CpuIsCurrent'
    BY <1>4, <1>10, <2>1 DEF CpuIsCurrent, Sound
  <2>4. MarkedWaits'
    BY <1>4, <1>12, <2>1 DEF MarkedWaits, Sound
  <2>5. CallsAgree'
    <3>1. \A q \in Pid : Alive(q) => s[q] = st[q]
      BY <1>9
    <3>2. ASSUME at[cpu].step # "run", at[cpu].p = None, cpu \in Pid, st[cpu] # "exited"
          PROVE  kind'[cpu] = "demo" /\ Alive(cpu)' /\ \A q \in Pid : s[q] # "ready"
      <4>1. kind[cpu] = "demo" /\ Alive(cpu) /\ \A q \in Pid : st[q] # "ready"
        BY <3>2 DEF Sound, CallsAgree
      <4>2. new = {}
        BY <1>1, <3>2, <4>1 DEF DemoDue
      <4> QED BY <1>2, <1>4, <2>1, <3>2, <4>1, <4>2 DEF Alive
    <3>3. at[cpu].step = "chosen" /\ cpu \in Pid /\ at[cpu].p \in Pid => s[at[cpu].p] = "ready"
      BY <3>1 DEF Sound, CallsAgree, Alive
    <3>4. at[cpu].step \in {"marked", "switch"} /\ at[cpu].p \in Pid => s[at[cpu].p] = "running"
      BY <3>1 DEF Sound, CallsAgree, Alive
    <3> QED BY <1>4, <1>7, <1>10, <2>1, <3>2, <3>3, <3>4 DEF Sound, CallsAgree
  <2> QED BY <2>2, <2>3, <2>4, <2>5 DEF Sound
<1> QED BY <1>6, <1>13, <1>14, <1>15

-----------------------------------------------------------------------------
\* IInv is inductive: where a tick has done harm only the types are claimed.
THEOREM InvariantHolds == Spec => []IInv
<1>1. IInv /\ [Next]_vars => IInv'
  <2> SUFFICES ASSUME IInv, [Next]_vars PROVE IInv'
    OBVIOUS
  <2>1. TypeOK /\ TypeOK'
    BY TypeKeeps DEF IInv
  <2>2. SUFFICES ASSUME ~cut' PROVE Sound'
    BY <2>1 DEF IInv, Sound
  <2>3. ~cut
    <3>1. CASE UNCHANGED vars
      BY <2>2, <3>1 DEF vars
    <3>2. CASE Next
      BY <2>2, <3>2 DEF Next, Mark, Commit, Switch, Yield, Exit, ShellFind, ShellTake, ShellBuild,
        Kill, ShellFree, Fork, SetAutorespawn, Tick
    <3> QED BY <3>1, <3>2
  <2>4. Sound
    BY <2>3 DEF IInv, Sound
  <2>5. CASE UNCHANGED vars
    BY <2>4, <2>5, StutterKeeps
  <2>6. CASE Mark \/ Commit \/ Switch
    BY <2>1, <2>2, <2>4, <2>6, MarkKeeps, CommitKeeps, SwitchKeeps
  <2>7. CASE \E x \in Context : Yield(x)
    BY <2>1, <2>2, <2>4, <2>7, YieldKeeps
  <2>8. CASE \E p \in Pid : Exit(p) \/ ShellFind(p) \/ Kill(p)
    BY <2>1, <2>2, <2>4, <2>8, ExitKeeps, ShellFindKeeps, KillKeeps
  <2>9. CASE ShellTake \/ ShellFree \/ SetAutorespawn
    BY <2>1, <2>2, <2>4, <2>9, ShellTakeKeeps, ShellFreeKeeps, SetAutorespawnKeeps
  <2>10. CASE \E p, c \in Pid, r \in {"ready", "unused", "exited"} : Fork(p, c, r)
    BY <2>1, <2>2, <2>4, <2>10, ForkKeeps
  <2>11. CASE \E k \in {"demo", "user"}, r \in {"ready", "unused", "exited"} : ShellBuild(k, r)
    BY <2>1, <2>2, <2>4, <2>11, ShellBuildKeeps
  <2>12. CASE \E user, ok \in BOOLEAN : Tick(user, ok)
    BY <2>1, <2>2, <2>4, <2>12, TickKeeps
  <2> QED BY <2>5, <2>6, <2>7, <2>8, <2>9, <2>10, <2>11, <2>12 DEF Next
<1> QED BY <1>1, InitIInv, PTL DEF Spec

\* The tables keep their types.
THEOREM TypeCorrect == Spec => []TypeOK
<1>1. IInv => TypeOK
  BY DEF IInv
<1> QED BY <1>1, InvariantHolds, PTL

\* However processes are created, killed, reaped and their slots used again, and
\* wherever ticks come but where TickHarms and StaleChoice say, the CPU is on a
\* stack that is held, and what may run has one.
THEOREM StacksStayHeld == Spec => []StacksHeld
<1>1. IInv => StacksHeld
  BY DEF IInv, StacksHeld
<1> QED BY <1>1, InvariantHolds, PTL

\* current_process names the context the CPU is on, outside schedule, unless a
\* tick came where TickHarms and StaleChoice say.
THEOREM CurrentIsRight == Spec => []CpuIsCurrent
<1>1. IInv => CpuIsCurrent
  BY DEF IInv, CpuIsCurrent
<1> QED BY <1>1, InvariantHolds, PTL

=============================================================================
