--------------------------- MODULE ContextSwitch ----------------------------
(***************************************************************************)
(* The context switch of the Cortex-M3: rt_schedule names the thread that  *)
(* runs next and requests PendSV, the exception of the lowest priority,    *)
(* which saves and loads registers later.  Until it does, interrupt        *)
(* handlers, and a thread that called with interrupts disabled, may name   *)
(* other threads.  Which thread is named is left open here: Scheduler says *)
(* which.                                                                  *)
(***************************************************************************)
EXTENDS Naturals

CONSTANTS Thread, NoThread,   \* NoThread: the boot code, a null pointer
          Value,              \* what the registers of a thread may hold
          Start               \* what rt_hw_stack_init puts on a new stack

ASSUME ContextAssumption == NoThread \notin Thread /\ Start \in Value

VARIABLES current,   \* rt_current_thread
          flag,      \* rt_thread_switch_interrupt_flag
          from, to,  \* rt_interrupt_from_thread, rt_interrupt_to_thread
          pending,   \* PendSV is requested
          active,    \* PendSV has been entered and has not masked interrupts yet
          masked,    \* PRIMASK of the thread that has the processor
          cpu,       \* the thread that has the processor
          regs,      \* the registers
          stack,     \* the registers saved on each thread's stack
          state      \* what each thread has computed: what its registers
                     \* are to be whenever it runs
vars == <<current, flag, from, to, pending, active, masked, cpu, regs, stack, state>>

\* rt_system_scheduler_start with the first thread, and rt_hw_context_switch_to.
Init ==
    /\ current \in Thread
    /\ flag = 1 /\ from = NoThread /\ to = current
    /\ pending = TRUE /\ active = FALSE /\ masked = FALSE
    /\ cpu = NoThread
    /\ regs \in Value
    /\ stack = [t \in Thread |-> Start]
    /\ state = [t \in Thread |-> Start]

\* The thread on the processor executes: no request, or it has masked it.
Executes == cpu # NoThread /\ ~active /\ (~pending \/ masked)

compute ==
    /\ Executes
    /\ regs' \in Value
    /\ state' = [state EXCEPT ![cpu] = regs']
    /\ UNCHANGED <<current, flag, from, to, pending, active, masked, cpu, stack>>

rt_hw_interrupt_disable ==
    /\ Executes
    /\ masked' = TRUE
    /\ UNCHANGED <<current, flag, from, to, pending, active, cpu, regs, stack, state>>

rt_hw_interrupt_enable ==
    /\ Executes
    /\ masked' = FALSE
    /\ UNCHANGED <<current, flag, from, to, pending, active, cpu, regs, stack, state>>

\* A slip: a second request before PendSV is lost.
switch_once(t) ==
    IF flag = 1 THEN UNCHANGED <<flag, from, to, pending>>
    ELSE flag' = 1 /\ from' = current /\ to' = t /\ pending' = TRUE

rt_hw_context_switch(t) ==
    /\ IF flag = 1 THEN UNCHANGED <<flag, from>> ELSE flag' = 1 /\ from' = current
    /\ to' = t
    /\ pending' = TRUE

\* rt_schedule selects t, in the thread or in an interrupt handler.
rt_schedule(t) ==
    /\ Executes \/ ~masked
    /\ t # current
    /\ current' = t
    /\ rt_hw_context_switch(t)
    /\ UNCHANGED <<active, masked, cpu, regs, stack, state>>

\* The processor enters PendSV; handlers may still come before it masks them.
pendsv_enter ==
    /\ pending /\ ~masked /\ ~active
    /\ pending' = FALSE /\ active' = TRUE
    /\ UNCHANGED <<current, flag, from, to, masked, cpu, regs, stack, state>>

\* A slip: a request that a handler made after the entry is served again.
pendsv_always ==
    /\ active
    /\ active' = FALSE
    /\ flag' = 0
    /\ stack' = IF from = NoThread THEN stack ELSE [stack EXCEPT ![from] = regs]
    /\ cpu' = to /\ regs' = stack'[to]
    /\ UNCHANGED <<current, from, to, pending, masked, state>>

\* A slip: the flag is not cleared.
pendsv_flag_kept ==
    /\ active
    /\ active' = FALSE
    /\ stack' = IF from = NoThread THEN stack ELSE [stack EXCEPT ![from] = regs]
    /\ cpu' = to /\ regs' = stack'[to]
    /\ UNCHANGED <<current, flag, from, to, pending, masked, state>>

PendSV_Handler ==
    /\ active
    /\ active' = FALSE
    /\ flag' = 0
    /\ IF flag = 0 THEN UNCHANGED <<cpu, regs, stack>>
       ELSE /\ stack' = IF from = NoThread THEN stack ELSE [stack EXCEPT ![from] = regs]
            /\ cpu' = to /\ regs' = stack'[to]
    /\ UNCHANGED <<current, from, to, pending, masked, state>>

Next ==
    \/ compute \/ rt_hw_interrupt_disable \/ rt_hw_interrupt_enable
    \/ \E t \in Thread : rt_schedule(t)
    \/ pendsv_enter \/ PendSV_Handler

Spec == Init /\ [][Next]_vars

\* Masked sections end and handlers leave time for PendSV.
FairSpec ==
    /\ Spec
    /\ WF_vars(pendsv_enter) /\ WF_vars(PendSV_Handler)
    /\ WF_vars(masked /\ rt_hw_interrupt_enable)

-----------------------------------------------------------------------------
(* Properties *)

TypeOK ==
    /\ current \in Thread /\ flag \in {0, 1}
    /\ from \in Thread \cup {NoThread} /\ to \in Thread
    /\ pending \in BOOLEAN /\ active \in BOOLEAN /\ masked \in BOOLEAN
    /\ cpu \in Thread \cup {NoThread} /\ regs \in Value
    /\ stack \in [Thread -> Value] /\ state \in [Thread -> Value]

\* Every thread goes on with the registers it had, however many switches
\* were requested between two runs of PendSV: the thread on the processor
\* has its registers and every other one has them on its stack.
ContextKept ==
    \A t \in Thread : IF t = cpu THEN regs = state[t] ELSE stack[t] = state[t]

\* Once no switch is pending, the processor is with the thread rt_schedule
\* selected last.
CurrentHasProcessor == ~pending /\ ~active => cpu = current

\* The bookkeeping the two rest on: while the flag is set PendSV is on its
\* way, it saves the thread on the processor and loads the one selected last.
RequestSound ==
    /\ flag = 1 => (pending \/ active) /\ from = cpu /\ to = current
    /\ flag = 0 => cpu = current
    /\ active => ~masked

\* A requested switch is done, whoever asks for others meanwhile.
SwitchHappens == flag = 1 ~> flag = 0

=============================================================================
