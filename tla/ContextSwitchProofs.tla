------------------------ MODULE ContextSwitchProofs -------------------------
(***************************************************************************)
(* Every thread keeps its registers and the processor ends up with the     *)
(* thread rt_schedule selected last, for any set of threads and values.    *)
(***************************************************************************)
EXTENDS ContextSwitch, TLAPS

\* RequestSound says which registers PendSV saves and loads, ContextKept
\* needs it, and both need the types.
IInv == TypeOK /\ RequestSound /\ ContextKept

\* The state rt_hw_context_switch_to leaves, before the first PendSV.
LEMMA InitIInv == Init => IInv
  <1> SUFFICES ASSUME Init PROVE IInv
    OBVIOUS
  <1>1. TypeOK
    BY ContextAssumption DEF Init, TypeOK
  <1>2. RequestSound
    BY DEF Init, RequestSound
  <1>3. ContextKept
    BY ContextAssumption DEF Init, ContextKept
  <1>4. QED
    BY <1>1, <1>2, <1>3 DEF IInv

\* A request of rt_schedule, the first one or another one before PendSV.
LEMMA RequestStep ==
  ASSUME IInv, NEW t \in Thread, rt_schedule(t)
  PROVE  IInv'
  <1>1. TypeOK'
    BY DEF IInv, TypeOK, rt_schedule, rt_hw_context_switch
  <1>2. RequestSound'
    BY DEF IInv, TypeOK, RequestSound, rt_schedule, rt_hw_context_switch
  <1>3. ContextKept'
    BY DEF IInv, ContextKept, rt_schedule
  <1>4. QED
    BY <1>1, <1>2, <1>3 DEF IInv

\* PendSV itself: it saves the thread on the processor, or nobody at boot,
\* and loads what the other one has saved.
LEMMA PendSVStep ==
  ASSUME IInv, PendSV_Handler
  PROVE  IInv'
  <1> USE ContextAssumption
  <1>1. CASE flag = 0
    <2>1. TypeOK'
      BY <1>1 DEF IInv, TypeOK, PendSV_Handler
    <2>2. RequestSound'
      BY <1>1 DEF IInv, RequestSound, PendSV_Handler
    <2>3. ContextKept'
      BY <1>1 DEF IInv, ContextKept, PendSV_Handler
    <2>4. QED
      BY <2>1, <2>2, <2>3 DEF IInv
  <1>2. CASE flag = 1
    <2>1. /\ from = cpu /\ cpu' = to /\ to = current /\ flag' = 0
          /\ UNCHANGED <<current, from, to, pending, masked, state>> /\ active' = FALSE
          /\ stack' = IF from = NoThread THEN stack ELSE [stack EXCEPT ![from] = regs]
          /\ regs' = stack'[to]
      BY <1>2 DEF IInv, RequestSound, PendSV_Handler
    <2>2. TypeOK'
      BY <2>1 DEF IInv, TypeOK
    <2>3. RequestSound'
      BY <2>1, <2>2 DEF RequestSound
    <2>4. \A t \in Thread : stack'[t] = state[t]
      BY <2>1 DEF IInv, TypeOK, ContextKept
    <2>5. ContextKept'
      BY <2>1, <2>2, <2>4 DEF ContextKept, TypeOK
    <2>6. QED
      BY <2>2, <2>3, <2>5 DEF IInv
  <1>3. QED
    BY <1>1, <1>2 DEF IInv, TypeOK

\* The other steps: the thread computes and masks, PendSV is entered.
LEMMA NextStep ==
  ASSUME IInv, [Next]_vars
  PROVE  IInv'
  <1>1. CASE compute
    BY <1>1, ContextAssumption
    DEF compute, Executes, IInv, TypeOK, RequestSound, ContextKept
  <1>2. CASE rt_hw_interrupt_disable
    BY <1>2 DEF rt_hw_interrupt_disable, Executes, IInv, TypeOK, RequestSound, ContextKept
  <1>3. CASE rt_hw_interrupt_enable
    BY <1>3 DEF rt_hw_interrupt_enable, Executes, IInv, TypeOK, RequestSound, ContextKept
  <1>4. CASE \E t \in Thread : rt_schedule(t)
    BY <1>4, RequestStep
  <1>5. CASE pendsv_enter
    BY <1>5 DEF pendsv_enter, IInv, TypeOK, RequestSound, ContextKept
  <1>6. CASE PendSV_Handler
    BY <1>6, PendSVStep
  <1>7. CASE UNCHANGED vars
    BY <1>7 DEF vars, IInv, TypeOK, RequestSound, ContextKept
  <1>8. QED
    BY <1>1, <1>2, <1>3, <1>4, <1>5, <1>6, <1>7 DEF Next

\* The invariant of rt_hw_context_switch and PendSV_Handler.
THEOREM Inductive == Spec => []IInv
  BY InitIInv, NextStep, PTL DEF Spec

\* However many switches thread code and handlers request before PendSV runs,
\* every thread goes on with its own registers.
THEOREM ContextsKept == Spec => []ContextKept
  <1>1. IInv => ContextKept
    BY DEF IInv
  <1>2. QED
    BY <1>1, Inductive, PTL

\* When PendSV is neither requested nor active the processor is with
\* rt_current_thread.
THEOREM ProcessorFollows == Spec => []CurrentHasProcessor
  <1>1. IInv => CurrentHasProcessor
    BY DEF IInv, TypeOK, RequestSound, CurrentHasProcessor
  <1>2. QED
    BY <1>1, Inductive, PTL

=============================================================================
