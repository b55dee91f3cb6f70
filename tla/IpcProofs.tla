------------------------------ MODULE IpcProofs ------------------------------
(***************************************************************************)
(* Theorems about Ipc for every size of the process table, every number of *)
(* processes, every naming and every set of messages.                      *)
(***************************************************************************)
EXTENDS Ipc, SequenceTheorems, TLAPS

Inv == TypeOK /\ OnlyCurrentRuns

\* Slots, processes and names.
LEMMA SlotFacts ==
  /\ Procs \subseteq Slots
  /\ 0 \in Procs
  /\ NoProc \notin Slots
  /\ \A s \in Slots : s \in Int /\ 0 <= s /\ s < MAX_PROS
BY IpcAssumption DEF Slots, Procs, NoProc

\* A name is that of one process, and find_name_process() finds it.
LEMMA NameFacts ==
  /\ 0 \notin Names
  /\ \A p \in Procs : Name[p] \in Names /\ find_name_process(Name[p]) = p
  /\ \A n \in Names : find_name_process(n) \in Procs
  /\ \A n \in Names : Name[find_name_process(n)] = n
<1>1. \A p \in Procs : Name[p] \in Names /\ Name[p] # 0
  BY IpcAssumption DEF Names
<1>2. ASSUME NEW p \in Procs
      PROVE  find_name_process(Name[p]) = p
  BY IpcAssumption DEF find_name_process
<1> QED
  BY <1>1, <1>2 DEF Names

\* Sequences of at most two messages.
LEMMA Short ==
  ASSUME NEW a, NEW b
  PROVE  /\ <<>> \o <<>> = <<>> /\ <<a>> \o <<>> = <<a>> /\ <<>> \o <<b>> = <<b>>
         /\ <<a>> \o <<b>> = <<a, b>>
         /\ Append(<<>>, b) = <<b>> /\ Append(<<a>>, b) = <<a, b>>
         /\ Head(<<a>>) = a /\ Tail(<<a>>) = <<>>
         /\ Head(<<a, b>>) = a /\ Tail(<<a, b>>) = <<b>>
         /\ Len(<<>>) = 0 /\ Len(<<a>>) = 1
         /\ <<a>> # <<>> /\ <<a, b>> # <<>>
<1> DEFINE S == {a, b}
           p == <<a>> \o <<b>>
           q == <<a, b>>
           r == Append(<<a>>, b)
<1>1. p = q /\ r = q
  <2>1. p \in Seq(S) /\ q \in Seq(S) /\ r \in Seq(S)
    OBVIOUS
  <2>2. Len(p) = 2 /\ Len(q) = 2 /\ Len(r) = 2
    OBVIOUS
  <2>3. p[1] = a /\ p[2] = b /\ q[1] = a /\ q[2] = b /\ r[1] = a /\ r[2] = b
    OBVIOUS
  <2>4. \A i \in 1 .. 2 : p[i] = q[i] /\ r[i] = q[i]
    BY <2>3
  <2> HIDE DEF p, q, r
  <2> QED
    BY <2>1, <2>2, <2>4, SeqEqual
<1>2. /\ <<>> \o <<>> = <<>> /\ <<a>> \o <<>> = <<a>> /\ <<>> \o <<b>> = <<b>>
      /\ Append(<<>>, b) = <<b>>
  OBVIOUS
<1>3. /\ Head(<<a>>) = a /\ Tail(<<a>>) = <<>>
      /\ Head(<<a, b>>) = a /\ Tail(<<a, b>>) = <<b>>
      /\ Len(<<>>) = 0 /\ Len(<<a>>) = 1
      /\ <<a>> # <<>> /\ <<a, b>> # <<>>
  OBVIOUS
<1> QED
  BY <1>1, <1>2, <1>3

\* What a handler may make of the table before it yields.
Table(st) ==
  /\ st \in [Slots -> States]
  /\ \A s \in Slots : st[s] = "RUN" => s = current
  /\ \A s \in Slots : st[s] = "UNUSED" <=> s \notin Procs

\* yield() leaves one process RUN, a born one, in a table of the same slots.
LEMMA YieldKeeps ==
  ASSUME NEW st, Inv, current \in Procs, Table(st), yield(st)
  PROVE  /\ state' \in [Slots -> States]
         /\ current' \in Procs
         /\ idx' \in Slots
         /\ OnlyCurrentRuns'
<1>1. PICK n \in Slots :
        /\ sheduller(st, n)
        /\ current' = n
        /\ state' = [st EXCEPT
             ![current] = IF is_wait_msg'[current] = 1 THEN "SLEEP" ELSE "RUNABBLE",
             ![n] = "RUN"]
  BY DEF yield
<1>2. n \in Procs /\ idx' = n
  <2>1. CASE n = current /\ idx' = idx
    BY <2>1 DEF Inv, OnlyCurrentRuns
  <2>2. CASE st[n] = "RUNABBLE" /\ idx' = n
    BY <2>2, <1>1 DEF Table
  <2> QED
    BY <2>1, <2>2, <1>1 DEF sheduller
<1>3. current \in Slots
  BY SlotFacts
<1>4. state' \in [Slots -> States]
  BY <1>1, <1>3 DEF Table, States
<1>5. \A s \in Slots :
        state'[s] = IF s = n THEN "RUN"
                    ELSE IF s = current
                    THEN IF is_wait_msg'[current] = 1 THEN "SLEEP" ELSE "RUNABBLE"
                    ELSE st[s]
  BY <1>1, <1>3 DEF Table
<1> QED
  BY <1>1, <1>2, <1>3, <1>4, <1>5 DEF Table, OnlyCurrentRuns

\* So does the end of usertrap(), whether the handler put the caller to
\* sleep or not.
LEMMA AfterCallKeeps ==
  ASSUME NEW st, Inv, current \in Procs, Table(st), after_call(st)
  PROVE  /\ state' \in [Slots -> States]
         /\ current' \in Procs
         /\ idx' \in Slots
         /\ timer' \in BOOLEAN
         /\ OnlyCurrentRuns'
<1>1. CASE st[current] = "SLEEP" /\ timer' = TRUE /\ yield(st)
  BY <1>1, YieldKeeps
<1>2. CASE st[current] # "SLEEP" /\ state' = st /\ UNCHANGED <<current, idx, timer>>
  BY <1>2, SlotFacts DEF Table, Inv, TypeOK, OnlyCurrentRuns, States
<1> QED
  BY <1>1, <1>2 DEF after_call

LEMMA InitInv == Init => Inv
<1> SUFFICES ASSUME Init PROVE Inv
  OBVIOUS
<1>1. TypeOK
  <2>1. state \in [Slots -> States] /\ idx \in Slots /\ current \in Procs \cup {NoProc}
    BY SlotFacts DEF Init, States
  <2>2. que \in [Procs -> [Slots -> Names \cup {0}]]
    BY DEF Init
  <2>3. trapframe \in [Procs -> Regs]
    BY DEF Init, Regs, Stale
  <2> QED
    BY <2>1, <2>2, <2>3 DEF Init, TypeOK, Traps
<1>2. OnlyCurrentRuns
  BY SlotFacts DEF Init, OnlyCurrentRuns
<1> QED
  BY <1>1, <1>2 DEF Inv

\* The table with some states of processes changed to SLEEP or RUNABBLE.
LEMMA TableChange ==
  ASSUME Inv, current \in Procs, NEW p \in Procs, NEW q \in Procs,
         NEW a \in {"SLEEP", "RUNABBLE"}, NEW b \in {"SLEEP", "RUNABBLE"}
  PROVE  /\ Table(state)
         /\ Table([state EXCEPT ![p] = a])
         /\ Table([state EXCEPT ![p] = a, ![q] = b])
BY SlotFacts DEF Inv, TypeOK, OnlyCurrentRuns, Table, States

\* uservec writes the trapframe and the trap of the current process only.
LEMMA SaveKeeps ==
  ASSUME TypeOK, NEW t \in Traps, NEW regs \in Regs, uservec(t, regs)
  PROVE  /\ current \in Procs
         /\ trapframe' \in [Procs -> Regs]
         /\ trap' \in [Procs -> Traps]
BY DEF uservec, UserMode, TypeOK

LEMMA StaleType == Stale \in Regs
BY DEF Stale, Regs

\* Every step keeps the invariant, action by action.
LEMMA StepInv == Inv /\ [Next]_vars => Inv'
<1> SUFFICES ASSUME Inv, [Next]_vars PROVE Inv'
  OBVIOUS
<1> USE DEF Inv
<1>1. CASE main_yield
  <2>1. PICK n \in Slots :
          /\ sheduller(state, n)
          /\ current' = n
          /\ state' = [state EXCEPT ![n] = "RUN"]
    BY <1>1 DEF main_yield
  <2>2. n \in Procs /\ idx' = n
    BY <1>1, <2>1, SlotFacts DEF main_yield, sheduller, OnlyCurrentRuns
  <2>3. TypeOK'
    BY <1>1, <2>1, <2>2 DEF main_yield, TypeOK, States
  <2>4. OnlyCurrentRuns'
    BY <1>1, <2>1, <2>2, SlotFacts DEF main_yield, TypeOK, OnlyCurrentRuns
  <2> QED
    BY <2>3, <2>4
<1>2. CASE prepare_uret \/ usertrap_return
  <2>1. TypeOK'
    BY <1>2 DEF prepare_uret, usertrap_return, TypeOK, Traps
  <2>2. OnlyCurrentRuns'
    BY <1>2 DEF prepare_uret, usertrap_return, OnlyCurrentRuns
  <2> QED
    BY <2>1, <2>2
<1>3. CASE timer_interrupt
  <2>1. current \in Procs /\ yield(state) /\ timer' = TRUE
        /\ UNCHANGED <<is_wait_msg, que, panic>>
    BY <1>3 DEF timer_interrupt, uservec, UserMode
  <2>2. Table(state)
    BY <2>1, TableChange
  <2>3. trapframe' \in [Procs -> Regs] /\ trap' \in [Procs -> Traps]
    BY <1>3 DEF timer_interrupt, uservec, TypeOK, Regs, Stale, Traps
  <2>4. /\ state' \in [Slots -> States] /\ current' \in Procs
        /\ idx' \in Slots /\ OnlyCurrentRuns'
    BY <2>1, <2>2, YieldKeeps
  <2> QED
    BY <2>1, <2>3, <2>4 DEF TypeOK
<1>4. ASSUME NEW n \in Names, NEW b \in Body, send(n, b)
      PROVE  Inv'
  <2> DEFINE dst == find_name_process(n)
  <2>0. dst \in Procs /\ current \in Procs
    BY <1>4, NameFacts DEF send, send_direct, send_queue, send_overflow, uservec, UserMode
  <2> HIDE DEF dst
  <2>1. CASE send_direct(dst, b)
    <3>1. trapframe' \in [Procs -> Regs] /\ trap' \in [Procs -> Traps]
      BY <2>0, <2>1, NameFacts DEF send_direct, TypeOK, Regs, Traps
    <3>2. is_wait_msg' \in [Procs -> {0, 1, JUNK}] /\ UNCHANGED <<que, panic>>
      BY <2>0, <2>1 DEF send_direct, TypeOK
    <3>3. Table([state EXCEPT ![current] = "SLEEP", ![dst] = "RUNABBLE"])
      BY <2>0, TableChange
    <3>4. /\ state' \in [Slots -> States] /\ current' \in Procs
          /\ idx' \in Slots /\ timer' \in BOOLEAN /\ OnlyCurrentRuns'
      BY <2>0, <2>1, <3>3, AfterCallKeeps DEF send_direct
    <3> QED
      BY <3>1, <3>2, <3>4 DEF TypeOK
  <2>2. CASE send_queue(dst, b)
    <3>1. trapframe' \in [Procs -> Regs] /\ trap' \in [Procs -> Traps]
      BY <2>0, <2>2 DEF send_queue, uservec, TypeOK, Regs, Traps
    <3>2. is_wait_msg' \in [Procs -> {0, 1, JUNK}] /\ UNCHANGED panic
      BY <2>0, <2>2 DEF send_queue, TypeOK
    <3>3. que' \in [Procs -> [Slots -> Names \cup {0}]]
      <4>1. PICK i \in Slots : que' = [que EXCEPT ![dst][i] = Name[current]]
        BY <2>2 DEF send_queue
      <4>2. Name[current] \in Names
        BY <2>0, NameFacts
      <4> QED
        BY <2>0, <4>1, <4>2 DEF TypeOK
    <3>4. Table([state EXCEPT ![current] = "SLEEP"])
      BY <2>0, TableChange
    <3>5. /\ state' \in [Slots -> States] /\ current' \in Procs
          /\ idx' \in Slots /\ timer' \in BOOLEAN /\ OnlyCurrentRuns'
      BY <2>0, <2>2, <3>4, AfterCallKeeps DEF send_queue
    <3> QED
      BY <3>1, <3>2, <3>3, <3>5 DEF TypeOK
  <2>3. CASE send_overflow(dst, b)
    <3>1. TypeOK'
      BY <2>0, <2>3 DEF send_overflow, uservec, TypeOK, Regs, Traps
    <3>2. OnlyCurrentRuns'
      BY <2>3 DEF send_overflow, OnlyCurrentRuns
    <3> QED
      BY <3>1, <3>2
  <2> QED
    BY <1>4, <2>1, <2>2, <2>3 DEF send, dst
<1>5. CASE recv_queued
  <2>0. PICK i \in Slots :
          /\ que[current][i] # 0
          /\ trap' = [trap EXCEPT ![current] = "recv"]
          /\ que' = [que EXCEPT ![current][i] = 0]
          /\ trapframe' = [trapframe EXCEPT ![current] =
               [a3 |-> que[current][i],
                body |-> IF find_name_process(que[current][i]) = current THEN NoBody
                         ELSE trapframe[find_name_process(que[current][i])].body]]
          /\ is_wait_msg' =
               [is_wait_msg EXCEPT ![find_name_process(que[current][i])] = 0]
          /\ UNCHANGED panic
          /\ after_call([state EXCEPT ![find_name_process(que[current][i])] = "RUNABBLE"])
    BY <1>5 DEF recv_queued, FirstUsed
  <2> DEFINE src == find_name_process(que[current][i])
  <2>1. current \in Procs
    BY <1>5 DEF recv_queued, UserMode
  <2>2. que[current][i] \in Names /\ src \in Procs
    <3>1. que[current] \in [Slots -> Names \cup {0}]
      BY <2>1 DEF TypeOK
    <3>2. que[current][i] \in Names
      BY <2>0, <3>1
    <3> QED
      BY <3>2, NameFacts
  <2> HIDE DEF src
  <2>3. trapframe' \in [Procs -> Regs] /\ trap' \in [Procs -> Traps]
    BY <2>0, <2>1, <2>2 DEF TypeOK, Regs, Traps, src
  <2>4. /\ is_wait_msg' \in [Procs -> {0, 1, JUNK}] /\ UNCHANGED panic
        /\ que' \in [Procs -> [Slots -> Names \cup {0}]]
    BY <2>0, <2>1, <2>2 DEF TypeOK, src
  <2>5. Table([state EXCEPT ![src] = "RUNABBLE"])
    BY <2>1, <2>2, TableChange
  <2>6. /\ state' \in [Slots -> States] /\ current' \in Procs
        /\ idx' \in Slots /\ timer' \in BOOLEAN /\ OnlyCurrentRuns'
    BY <2>0, <2>1, <2>5, AfterCallKeeps DEF src
  <2> QED
    BY <2>3, <2>4, <2>6 DEF TypeOK
<1>6. CASE recv_empty
  <2>1. current \in Procs /\ after_call([state EXCEPT ![current] = "SLEEP"])
    BY <1>6 DEF recv_empty, uservec, UserMode
  <2>2. trapframe' \in [Procs -> Regs] /\ trap' \in [Procs -> Traps]
    BY <1>6 DEF recv_empty, uservec, TypeOK, Regs, Stale, Traps
  <2>3. is_wait_msg' \in [Procs -> {0, 1, JUNK}] /\ UNCHANGED <<que, panic>>
    BY <1>6 DEF recv_empty, TypeOK
  <2>4. Table([state EXCEPT ![current] = "SLEEP"])
    BY <2>1, TableChange
  <2>5. /\ state' \in [Slots -> States] /\ current' \in Procs
        /\ idx' \in Slots /\ timer' \in BOOLEAN /\ OnlyCurrentRuns'
    BY <2>1, <2>4, AfterCallKeeps
  <2> QED
    BY <2>2, <2>3, <2>5 DEF TypeOK
<1>7. ASSUME NEW n \in Names, sleep_prc(n) \/ wakeup(n)
      PROVE  Inv'
  <2>1. PICK a \in {"SLEEP", "RUNABBLE"} :
          after_call([state EXCEPT ![find_name_process(n)] = a])
    BY <1>7 DEF sleep_prc, wakeup
  <2>2. current \in Procs /\ find_name_process(n) \in Procs
    BY <1>7, NameFacts DEF sleep_prc, wakeup, uservec, UserMode
  <2>3. trapframe' \in [Procs -> Regs] /\ trap' \in [Procs -> Traps]
    <3>1. PICK t \in Traps : uservec(t, Stale)
      BY <1>7 DEF sleep_prc, wakeup, Traps
    <3> QED
      BY <3>1, SaveKeeps, StaleType
  <2>4. Table([state EXCEPT ![find_name_process(n)] = a])
    BY <2>2, TableChange
  <2>5. /\ state' \in [Slots -> States] /\ current' \in Procs
        /\ idx' \in Slots /\ timer' \in BOOLEAN /\ OnlyCurrentRuns'
    BY <2>1, <2>2, <2>4, AfterCallKeeps
  <2> QED
    BY <1>7, <2>3, <2>5 DEF TypeOK, sleep_prc, wakeup
<1>8. ASSUME NEW f \in Fault, bad_trap(f)
      PROVE  Inv'
  <2>1. TypeOK'
    BY <1>8 DEF bad_trap, uservec, TypeOK, Regs, Stale, Traps
  <2>2. OnlyCurrentRuns'
    BY <1>8 DEF bad_trap, OnlyCurrentRuns
  <2> QED
    BY <2>1, <2>2
<1>9. CASE buffer_call
  <2>1. current \in Procs /\ after_call(state)
    BY <1>9 DEF buffer_call, uservec, UserMode
  <2>2. trapframe' \in [Procs -> Regs] /\ trap' \in [Procs -> Traps]
    BY <1>9, SaveKeeps, StaleType DEF buffer_call, Traps
  <2>3. Table(state)
    BY <2>1, TableChange
  <2>4. /\ state' \in [Slots -> States] /\ current' \in Procs
        /\ idx' \in Slots /\ timer' \in BOOLEAN /\ OnlyCurrentRuns'
    BY <2>1, <2>3, AfterCallKeeps
  <2> QED
    BY <1>9, <2>2, <2>4 DEF TypeOK, buffer_call
<1>10. CASE UNCHANGED vars
  BY <1>10 DEF vars, TypeOK, OnlyCurrentRuns
<1> QED
  BY <1>1, <1>2, <1>3, <1>4, <1>5, <1>6, <1>7, <1>8, <1>9, <1>10
  DEF Next, KernelStep, MessageCall, StateCall, recv, spin

\* Whatever the programs do, every field of the process table, of the IPC
\* blocks and of the trapframes keeps its type.
THEOREM Typing == Spec => []TypeOK
<1>1. Spec => []Inv
  BY InitInv, StepInv, PTL DEF Spec
<1> QED
  BY <1>1, PTL DEF Inv

\* Whatever the programs do, the hart and the process table agree: only the
\* process `current` points to is RUN, and it is never one that sleeps.
THEOREM HartAndTableAgree == Spec => []OnlyCurrentRuns
<1>1. Spec => []Inv
  BY InitInv, StepInv, PTL DEF Spec
<1> QED
  BY <1>1, PTL DEF Inv

\* The remainder of a number below 2m.
LEMMA Wrap ==
  ASSUME NEW m \in Nat, m > 0, NEW a \in Nat, a < 2 * m
  PROVE  a % m = IF a < m THEN a ELSE a - m
BY SMT

\* sheduller() moves idx past processes that are not RUNABBLE only, so every
\* RUNABBLE one it does not choose is closer to idx than before.
LEMMA ShedullerAdvances ==
  ASSUME TypeOK, NEW st, NEW n \in Slots, n # current, sheduller(st, n),
         NEW s \in Slots, s # n, st[s] = "RUNABBLE"
  PROVE  Distance(s)' < Distance(s)
<1> DEFINE M == MAX_PROS
<1>1. M \in Nat /\ M > 0 /\ idx \in 0 .. (M - 1) /\ s \in 0 .. (M - 1)
  <2>1. MAX_PROS \in Nat /\ MAX_PROS > 0
    BY IpcAssumption
  <2> QED
    BY <2>1 DEF TypeOK, Slots
<1>2. PICK k \in 1 .. M :
        /\ n = (idx + k) % M
        /\ \A j \in 1 .. (k - 1) : st[(idx + j) % M] # "RUNABBLE"
        /\ idx' = n
  BY DEF sheduller
<1> DEFINE d == Distance(s)
<1>3. d = IF s > idx THEN s - idx - 1 ELSE s + M - idx - 1
  BY <1>1, Wrap DEF Distance
<1>4. (idx + (d + 1)) % M = s
  BY <1>1, <1>3, Wrap
<1>5. n = IF idx + k < M THEN idx + k ELSE idx + k - M
  BY <1>1, <1>2, Wrap
<1>6. d \in 0 .. (M - 1)
  BY <1>1, <1>3
<1>7. d + 1 \notin 1 .. k
  BY <1>2, <1>4, <1>6
<1>8. Distance(s)' = IF s > n THEN s - n - 1 ELSE s + M - n - 1
  <2>1. Distance(s)' = (s + M - n - 1) % M
    BY <1>2 DEF Distance
  <2>2. n \in 0 .. (M - 1)
    BY DEF Slots
  <2> QED
    BY <1>1, <2>1, <2>2, Wrap
<1> QED
  BY <1>1, <1>3, <1>5, <1>6, <1>7, <1>8

\* Where yield() switches, the table it is given differs from `state` at most
\* in processes the handler put to sleep or woke.
LEMMA YieldAdvances ==
  ASSUME Inv, current \in Procs, NEW st, Table(st), yield(st), current' # current,
         NEW s \in Slots, state'[s] = "RUNABBLE"
  PROVE  Distance(s)' < Distance(s)
<1>1. PICK n \in Slots :
        /\ sheduller(st, n)
        /\ current' = n
        /\ state' = [st EXCEPT
             ![current] = IF is_wait_msg'[current] = 1 THEN "SLEEP" ELSE "RUNABBLE",
             ![n] = "RUN"]
  BY DEF yield
<1>2. s # n
  BY <1>1 DEF Table
<1>3. CASE s # current
  <2>1. st[s] = "RUNABBLE"
    BY <1>1, <1>2, <1>3 DEF Table
  <2> QED
    BY <1>1, <1>2, <2>1, ShedullerAdvances DEF Inv
<1>4. CASE s = current
  <2> DEFINE M == MAX_PROS
  <2>0. MAX_PROS \in Nat /\ MAX_PROS > 0
    BY IpcAssumption
  <2>1. M \in Nat /\ M > 0 /\ idx = s /\ s \in 0 .. (M - 1) /\ n \in 0 .. (M - 1)
    BY <1>4, <2>0 DEF Slots, Inv, OnlyCurrentRuns
  <2>2. idx' = n
    BY <1>1 DEF sheduller
  <2>3. Distance(s) = M - 1
    BY <2>1, Wrap DEF Distance
  <2>4. Distance(s)' = (s + M - n - 1) % M
    BY <2>2 DEF Distance
  <2> QED
    BY <1>2, <2>1, <2>3, <2>4, Wrap
<1> QED
  BY <1>3, <1>4

\* The promise of one step, for every action of the kernel.
LEMMA StepAdvances ==
  ASSUME Inv, [Next]_vars, current' # current,
         NEW s \in Slots, state[s] = "RUNABBLE", state'[s] = "RUNABBLE"
  PROVE  Distance(s)' < Distance(s)
<1>1. CASE main_yield
  <2>1. PICK n \in Slots :
          /\ sheduller(state, n)
          /\ state' = [state EXCEPT ![n] = "RUN"]
    BY <1>1 DEF main_yield
  <2>2. n # current
    BY <1>1, SlotFacts DEF main_yield
  <2>3. s # n
    BY <2>1 DEF Inv, TypeOK
  <2> QED
    BY <2>1, <2>2, <2>3, ShedullerAdvances DEF Inv
<1>2. CASE timer_interrupt
  <2>1. current \in Procs /\ yield(state)
    BY <1>2 DEF timer_interrupt, uservec, UserMode
  <2> QED
    BY <2>1, TableChange, YieldAdvances
<1>3. ASSUME NEW st, current \in Procs, Table(st), after_call(st)
      PROVE  Distance(s)' < Distance(s)
  BY <1>3, YieldAdvances DEF after_call
<1>4. ASSUME NEW n \in Names, NEW b \in Body, send(n, b)
      PROVE  Distance(s)' < Distance(s)
  <2> DEFINE dst == find_name_process(n)
  <2>1. dst \in Procs /\ current \in Procs
    BY <1>4, NameFacts DEF send, send_direct, send_queue, send_overflow, uservec, UserMode
  <2>2. CASE send_direct(dst, b)
    <3>1. after_call([state EXCEPT ![current] = "SLEEP", ![dst] = "RUNABBLE"])
      BY <2>2 DEF send_direct
    <3>2. Table([state EXCEPT ![current] = "SLEEP", ![dst] = "RUNABBLE"])
      BY <2>1, TableChange
    <3> QED
      BY <1>3, <2>1, <3>1, <3>2
  <2>3. CASE send_queue(dst, b)
    <3>1. after_call([state EXCEPT ![current] = "SLEEP"])
      BY <2>3 DEF send_queue
    <3>2. Table([state EXCEPT ![current] = "SLEEP"])
      BY <2>1, TableChange
    <3> QED
      BY <1>3, <2>1, <3>1, <3>2
  <2>4. CASE send_overflow(dst, b)
    BY <2>4 DEF send_overflow
  <2> QED
    BY <1>4, <2>2, <2>3, <2>4 DEF send
<1>5. ASSUME NEW p \in Procs, NEW a \in {"SLEEP", "RUNABBLE"},
             current \in Procs, after_call([state EXCEPT ![p] = a])
      PROVE  Distance(s)' < Distance(s)
  <2>1. Table([state EXCEPT ![p] = a])
    BY <1>5, TableChange
  <2> QED
    BY <1>3, <1>5, <2>1
<1>6. CASE recv_queued
  <2>1. PICK i \in Slots :
          /\ que[current][i] # 0
          /\ after_call([state EXCEPT ![find_name_process(que[current][i])] = "RUNABBLE"])
    BY <1>6 DEF recv_queued, FirstUsed
  <2>2. current \in Procs
    BY <1>6 DEF recv_queued, UserMode
  <2>3. que[current] \in [Slots -> Names \cup {0}]
    BY <2>2 DEF Inv, TypeOK
  <2>4. find_name_process(que[current][i]) \in Procs
    BY <2>1, <2>3, NameFacts
  <2> QED
    BY <1>5, <2>1, <2>2, <2>4
<1>7. CASE recv_empty
  BY <1>5, <1>7 DEF recv_empty, uservec, UserMode
<1>8. ASSUME NEW n \in Names, sleep_prc(n) \/ wakeup(n)
      PROVE  Distance(s)' < Distance(s)
  BY <1>5, <1>8, NameFacts DEF sleep_prc, wakeup, uservec, UserMode
<1>9. CASE \/ prepare_uret \/ usertrap_return \/ spin \/ UNCHANGED vars
           \/ \E f \in Fault : bad_trap(f)
  BY <1>9 DEF prepare_uret, usertrap_return, spin, bad_trap, vars
<1>10. CASE buffer_call
  <2>1. current \in Procs /\ after_call(state)
    BY <1>10 DEF buffer_call, uservec, UserMode
  <2>2. Table(state)
    BY <2>1, TableChange
  <2> QED
    BY <1>3, <2>1, <2>2
<1> QED
  BY <1>1, <1>2, <1>4, <1>6, <1>7, <1>8, <1>9, <1>10
  DEF Next, KernelStep, MessageCall, StateCall, recv

\* The wait of a ready process is bounded: each switch of the hart brings it
\* closer to its turn, whatever the programs call meanwhile.
THEOREM BoundedBypass == Spec => EverySwitchAdvances
<1>1. Inv /\ [Next]_vars =>
        [current' # current =>
           \A s \in Slots : state[s] = "RUNABBLE" /\ state'[s] = "RUNABBLE"
                              => Distance(s)' < Distance(s)]_vars
  BY StepAdvances
<1> QED
  BY InitInv, StepInv, <1>1, PTL DEF Spec, EverySwitchAdvances

\* Who sleeps once the hart has gone on slept before, or had the hart.
LEMMA AfterCallSleeps ==
  ASSUME Inv, current \in Procs, NEW st, Table(st), after_call(st),
         NEW p \in Procs, state'[p] = "SLEEP"
  PROVE  st[p] = "SLEEP"
<1>1. p \in Slots /\ current \in Slots
  BY SlotFacts
<1>2. CASE st[current] # "SLEEP" /\ state' = st
  BY <1>2
<1>3. CASE st[current] = "SLEEP" /\ yield(st)
  <2>1. PICK n \in Slots :
          state' = [st EXCEPT
            ![current] = IF is_wait_msg'[current] = 1 THEN "SLEEP" ELSE "RUNABBLE",
            ![n] = "RUN"]
    BY <1>3 DEF yield
  <2>2. p = current \/ state'[p] = st[p] \/ state'[p] = "RUN"
    BY <1>1, <2>1 DEF Table
  <2> QED
    BY <1>3, <2>2
<1> QED
  BY <1>2, <1>3 DEF after_call

\* A step makes nobody sleep in recv() past a sender, action by action.
LEMMA StepOverlooks ==
  ASSUME Inv, [Next]_vars, NEW p \in Procs,
         state'[p] = "SLEEP", trap'[p] = "recv", \E i \in Slots : que'[p][i] # 0
  PROVE  Overlooked(p) \/ trap'[current] = "sleep_prc"
<1>0. /\ state \in [Slots -> States]
      /\ trap \in [Procs -> Traps]
      /\ que \in [Procs -> [Slots -> Names \cup {0}]]
  BY DEF Inv, TypeOK
<1>1. /\ state'[p] = "SLEEP"
      /\ trap'[p] = "recv"
      /\ \E i \in Slots : que'[p][i] # 0
      /\ p \in Slots
  BY SlotFacts
<1>2. ASSUME current \in Procs, state[p] = "SLEEP", trap' = [trap EXCEPT ![current] = "recv"]
      PROVE  p # current
  BY <1>2 DEF Inv, OnlyCurrentRuns
<1>3. CASE main_yield
  BY <1>0, <1>1, <1>3 DEF main_yield, Overlooked
<1>4. CASE timer_interrupt
  <2>1. /\ current \in Procs
        /\ trap' = [trap EXCEPT ![current] = "timer"]
        /\ que' = que
        /\ yield(state)
    BY <1>4 DEF timer_interrupt, uservec, UserMode
  <2>2. p # current /\ trap[p] = "recv"
    BY <1>0, <1>1, <2>1
  <2>3. state[p] = "SLEEP"
    BY <1>0, <1>1, <2>1, <2>2, SlotFacts DEF yield
  <2> QED
    BY <1>1, <2>1, <2>2, <2>3 DEF Overlooked
<1>5. ASSUME NEW st, current \in Procs, Table(st), after_call(st), NEW t \in Traps, t # "recv",
             trap' = [trap EXCEPT ![current] = t], que'[p] = que[p],
             st[p] = "SLEEP" => p = current \/ state[p] = "SLEEP"
      PROVE  Overlooked(p)
  <2>1. p # current /\ trap[p] = "recv"
    BY <1>0, <1>1, <1>5
  <2>2. state[p] = "SLEEP"
    BY <1>1, <1>5, <2>1, AfterCallSleeps
  <2> QED
    BY <1>1, <1>5, <2>1, <2>2 DEF Overlooked
<1>6. ASSUME NEW n \in Names, NEW b \in Body, send(n, b)
      PROVE  Overlooked(p)
  <2> DEFINE dst == find_name_process(n)
  <2>1. /\ dst \in Procs /\ current \in Procs /\ dst \in Slots /\ current \in Slots
        /\ trap' = [trap EXCEPT ![current] = "send"] /\ "send" \in Traps
    BY <1>6, NameFacts, SlotFacts
    DEF send, send_direct, send_queue, send_overflow, uservec, UserMode, Traps
  <2>2. CASE send_direct(dst, b)
    <3> DEFINE st == [state EXCEPT ![current] = "SLEEP", ![dst] = "RUNABBLE"]
    <3>1. after_call(st) /\ que' = que
      BY <2>2 DEF send_direct
    <3>2. Table(st)
      BY <2>1, TableChange
    <3>3. st[p] = "SLEEP" => p = current \/ state[p] = "SLEEP"
      BY <1>0, <1>1, <2>1
    <3> HIDE DEF st
    <3> QED
      BY <1>5, <2>1, <3>1, <3>2, <3>3
  <2>3. CASE send_queue(dst, b)
    <3> DEFINE st == [state EXCEPT ![current] = "SLEEP"]
    <3>1. after_call(st) /\ state[dst] # "SLEEP"
      BY <2>3 DEF send_queue
    <3>2. Table(st)
      BY <2>1, TableChange
    <3>3. st[p] = "SLEEP" => p = current \/ state[p] = "SLEEP"
      BY <1>0, <1>1, <2>1
    <3>4. p # current
      BY <1>0, <1>1, <2>1
    <3>5. st[p] = "SLEEP"
      <4> HIDE DEF st
      <4> QED
        BY <1>1, <2>1, <3>1, <3>2, AfterCallSleeps
    <3>6. p # dst
      BY <3>1, <3>3, <3>4, <3>5
    <3>7. que'[p] = que[p]
      BY <1>0, <2>3, <3>6 DEF send_queue
    <3> HIDE DEF st
    <3> QED
      BY <1>5, <2>1, <3>1, <3>2, <3>3, <3>7
  <2>4. CASE send_overflow(dst, b)
    <3>1. state' = state /\ que' = que
      BY <2>4 DEF send_overflow
    <3>2. trap[p] = "recv"
      BY <1>0, <1>1, <2>1
    <3> QED
      BY <1>1, <3>1, <3>2 DEF Overlooked
  <2> QED
    BY <1>6, <2>2, <2>3, <2>4 DEF send
<1>7. CASE recv_queued
  <2>1. PICK i \in Slots :
          /\ que[current][i] # 0
          /\ trap' = [trap EXCEPT ![current] = "recv"]
          /\ que' = [que EXCEPT ![current][i] = 0]
          /\ after_call([state EXCEPT ![find_name_process(que[current][i])] = "RUNABBLE"])
    BY <1>7 DEF recv_queued, FirstUsed
  <2> DEFINE src == find_name_process(que[current][i])
             st == [state EXCEPT ![src] = "RUNABBLE"]
  <2>2. current \in Procs
    BY <1>7 DEF recv_queued, UserMode
  <2>3. que[current] \in [Slots -> Names \cup {0}]
    BY <1>0, <2>2
  <2>4. src \in Procs
    BY <2>1, <2>3, NameFacts
  <2>5. Table(st)
    BY <2>2, <2>4, TableChange
  <2>6. st[p] = "SLEEP"
    <3> HIDE DEF st
    <3> QED
      BY <1>1, <2>1, <2>2, <2>5, AfterCallSleeps DEF st
  <2>7. state[p] = "SLEEP"
    BY <1>0, <1>1, <2>4, <2>6, SlotFacts
  <2>8. p # current
    BY <1>2, <2>1, <2>2, <2>7
  <2> QED
    BY <1>0, <1>1, <2>1, <2>7, <2>8 DEF Overlooked
<1>8. CASE recv_empty
  <2> DEFINE st == [state EXCEPT ![current] = "SLEEP"]
  <2>1. /\ current \in Procs
        /\ trap' = [trap EXCEPT ![current] = "recv"]
        /\ Empty(que[current]) /\ que' = que
        /\ after_call(st)
    BY <1>8 DEF recv_empty, uservec, UserMode
  <2>2. p # current
    BY <1>1, <2>1 DEF Empty
  <2>3. Table(st)
    BY <2>1, TableChange
  <2>4. st[p] = "SLEEP"
    <3> HIDE DEF st
    <3> QED
      BY <1>1, <2>1, <2>3, AfterCallSleeps
  <2> QED
    BY <1>0, <1>1, <2>1, <2>2, <2>4, SlotFacts DEF Overlooked
<1>9. ASSUME NEW n \in Names, sleep_prc(n)
      PROVE  trap'[current] = "sleep_prc"
  BY <1>0, <1>9 DEF sleep_prc, uservec, UserMode
<1>10. ASSUME NEW n \in Names, wakeup(n)
       PROVE  Overlooked(p)
  <2> DEFINE dst == find_name_process(n)
             st == [state EXCEPT ![dst] = "RUNABBLE"]
  <2>1. /\ current \in Procs /\ dst \in Procs
        /\ trap' = [trap EXCEPT ![current] = "wakeup"]
        /\ que' = que
        /\ after_call(st)
    BY <1>10, NameFacts DEF wakeup, uservec, UserMode
  <2>2. Table(st)
    BY <2>1, TableChange
  <2>3. st[p] = "SLEEP" => state[p] = "SLEEP"
    BY <1>0, <1>1, <2>1, SlotFacts
  <2>4. "wakeup" \in Traps /\ "wakeup" # "recv"
    BY DEF Traps
  <2> HIDE DEF st
  <2> QED
    BY <1>5, <2>1, <2>2, <2>3, <2>4
<1>11. CASE buffer_call
  <2>1. /\ current \in Procs
        /\ trap' = [trap EXCEPT ![current] = "buf"]
        /\ que' = que
        /\ after_call(state)
    BY <1>11 DEF buffer_call, uservec, UserMode
  <2>2. Table(state)
    BY <2>1, TableChange
  <2>3. "buf" \in Traps /\ "buf" # "recv"
    BY DEF Traps
  <2> QED
    BY <1>5, <2>1, <2>2, <2>3
<1>12. CASE prepare_uret \/ usertrap_return \/ (\E f \in Fault : bad_trap(f))
  <2>1. /\ current \in Procs
        /\ \E t \in {"user", "bad"} : trap' = [trap EXCEPT ![current] = t]
        /\ state' = state /\ que' = que
    BY <1>12 DEF prepare_uret, usertrap_return, bad_trap, uservec, UserMode, Kernel
  <2>2. trap[p] = "recv"
    BY <1>0, <1>1, <2>1
  <2> QED
    BY <1>1, <2>1, <2>2 DEF Overlooked
<1>13. CASE spin \/ UNCHANGED vars
  BY <1>1, <1>13 DEF spin, vars, Overlooked
<1> QED
  BY <1>3, <1>4, <1>6, <1>7, <1>8, <1>9, <1>10, <1>11, <1>12, <1>13
  DEF Next, KernelStep, MessageCall, StateCall, recv

\* No wake-up is lost between recv() and send(): only sleep_prc() can make a
\* receiver sleep past a sender that is in its queue.
THEOREM WakeupsKept == Spec => NoLostWakeup
<1>1. Inv /\ [Next]_vars =>
        [\A p \in Procs :
           Overlooked(p)' => Overlooked(p) \/ trap'[current] = "sleep_prc"]_vars
  BY StepOverlooks DEF Overlooked
<1> QED
  BY InitInv, StepInv, <1>1, PTL DEF Spec, NoLostWakeup

==============================================================================
