---------------------------- MODULE SerialDevice ----------------------------
(***************************************************************************)
(* A serial device from the pins to the shell: the UART, its driver        *)
(* (usart.c), the serial layer (serial.c), the device layer (device.c),    *)
(* the shell that reads it and an application thread that writes to it.    *)
(*                                                                         *)
(* The two threads preempt each other anywhere outside a section with      *)
(* interrupts disabled; none of them runs while the interrupt handler is   *)
(* active or an enabled interrupt is pending.  The UART goes on meanwhile. *)
(* The semaphore and the completion are the ones Semaphore and Completion  *)
(* implement.                                                              *)
(***************************************************************************)
EXTENDS Integers, Sequences, FiniteSets

CONSTANTS Char,       \* what may be typed: "cr", "lf", "nul" and others
          bufsz,      \* config.bufsz, RT_SERIAL_RB_BUFSZ
          AppModes,   \* the open flags the application may choose from
          Polite,     \* no opener takes away a mode that is in use or still sending
          Exclusive,  \* opens and closes do not overlap
          QuietClose, \* nothing is typed while the last close takes place
          MaxTyped,   \* bound: characters typed
          MaxWritten  \* bound: bytes written

VARIABLES uart,   \* the registers
          dev,    \* struct rt_serial_device
          isr,    \* how far the interrupt handler is
          pc,     \* how far a thread is
          sem,    \* shell->rx_sem
          local,  \* a thread's local variables
          env     \* what happened so far

vars == <<uart, dev, isr, pc, sem, local, env>>

Thread == {"shell", "app"}
NoRing == [size |-> 0]
Nothing == "nul"

Init ==
  /\ uart = [rdr |-> Nothing, rbne |-> FALSE, orerr |-> FALSE, rbneie |-> FALSE,
             irq |-> TRUE, shift |-> 0, tdr |-> 0, tc |-> TRUE, tcie |-> FALSE]
  /\ dev = [ref |-> 1, open_flag |-> {"OPEN"}, rx_indicate |-> FALSE,
            serial_rx |-> NoRing, serial_tx |-> "none"]      \* the console
  /\ isr = "off" /\ sem = 0
  /\ pc = [t \in Thread |-> "away"]
  /\ local = [t \in Thread |-> [ref |-> 0, oflag |-> {}]]
  /\ env = [typed |-> 0, written |-> 0, sent |-> <<>>, opens |-> 1,
            console |-> TRUE, untold |-> FALSE]

Pending == uart.irq /\ \/ uart.rbneie /\ (uart.rbne \/ uart.orerr)
                       \/ uart.tcie /\ uart.tc
ThreadRuns == isr = "off" /\ ~Pending

Goto(t, l) == pc' = [pc EXCEPT ![t] = l]

(***************************************************************************)
(* The receive ring.                                                       *)
(***************************************************************************)
NewRing == [size |-> bufsz, buffer |-> [i \in 0 .. bufsz - 1 |-> Nothing],
            put_index |-> 0, get_index |-> 0]
Step(i) == IF i + 1 >= bufsz THEN 0 ELSE i + 1

\* A slip: the reader's index stays where it is when the ring fills up.
store_over(r, c) ==
  [r EXCEPT !.buffer[r.put_index] = c, !.put_index = Step(@)]

Store(r, c) ==
  [r EXCEPT !.buffer[r.put_index] = c, !.put_index = Step(@),
            !.get_index = IF Step(r.put_index) = @ THEN Step(@) ELSE @]

RingLength(r) ==
  IF r.size = 0 THEN 0
  ELSE IF r.put_index >= r.get_index THEN r.put_index - r.get_index
  ELSE bufsz - (r.get_index - r.put_index)

Content(r) == [i \in 1 .. RingLength(r) |-> r.buffer[(r.get_index + i - 1) % bufsz]]

(***************************************************************************)
(* The UART.  A character that finds the data register full is lost and    *)
(* leaves the overrun flag.  A byte written goes to the shift register     *)
(* when that is idle; the transmission is complete when both are empty.    *)
(***************************************************************************)
type(c) ==
  /\ env.typed < MaxTyped
  /\ ~(QuietClose /\ \E t \in Thread : pc[t] = "clr_int_rx")
  /\ env' = [env EXCEPT !.typed = @ + 1]
  /\ uart' = IF uart.rbne THEN [uart EXCEPT !.orerr = TRUE]
             ELSE [uart EXCEPT !.rbne = TRUE,
                               !.rdr = c]
  /\ UNCHANGED <<dev, isr, pc, sem, local>>

shift_out ==
  /\ uart.shift # 0
  /\ uart' = [uart EXCEPT !.shift = uart.tdr, !.tdr = 0, !.tc = uart.tdr = 0]
  /\ env' = [env EXCEPT !.sent = Append(@, uart.shift)]
  /\ UNCHANGED <<dev, isr, pc, sem, local>>

Transmit(u, b) ==
  IF u.shift = 0 THEN [u EXCEPT !.shift = b, !.tc = FALSE]
  ELSE [u EXCEPT !.tdr = b, !.tc = FALSE]

\* stm32_getc, when there is something to get
Received(u) == [u EXCEPT !.rdr = Nothing, !.rbne = FALSE, !.orerr = FALSE]

(***************************************************************************)
(* uart_isr, in the steps the UART can change in between: the loop of      *)
(* rt_hw_serial_isr takes one character at a time; clearing the RBNE flag  *)
(* forgets a character that came after the last look; the flag cleared for *)
(* USART_INT_TC is another one, so TC stays.                               *)
(***************************************************************************)
isr_enter ==
  /\ isr = "off" /\ Pending
  /\ isr' = IF uart.rbneie /\ uart.rbne THEN "rx" ELSE "tc"
  /\ UNCHANGED <<uart, dev, pc, sem, local, env>>

\* untold: a character came without a call of rx_indicate of its own
isr_rx ==
  /\ isr \in {"rx", "more"} /\ dev.serial_rx # NoRing
  /\ \/ /\ uart.rbne
        /\ dev' = [dev EXCEPT !.serial_rx = Store(@, uart.rdr)]
        /\ uart' = Received(uart)
        /\ isr' = "more"
        /\ env' = [env EXCEPT !.untold = @ \/ isr = "more" \/ ~dev.rx_indicate]
        /\ UNCHANGED sem
     \/ /\ ~uart.rbne
        /\ sem' = sem + (IF dev.rx_indicate THEN 1 ELSE 0)   \* finsh_rx_ind
        /\ isr' = "clear"
        /\ UNCHANGED <<uart, dev, env>>
  /\ UNCHANGED <<pc, local>>

isr_clear ==
  /\ isr = "clear" /\ isr' = "tc"
  /\ uart' = [uart EXCEPT !.rdr = Nothing, !.rbne = FALSE]
  /\ UNCHANGED <<dev, pc, sem, local, env>>

isr_tc ==
  /\ isr = "tc" /\ isr' = "orerr"
  /\ IF uart.tc /\ uart.tcie
     THEN /\ dev' = IF "INT_TX" \in dev.open_flag
                    THEN [dev EXCEPT !.serial_tx = "done"] ELSE dev
          /\ uart' = [uart EXCEPT !.rbneie = FALSE]
     ELSE UNCHANGED <<dev, uart>>
  /\ UNCHANGED <<pc, sem, local, env>>

isr_orerr ==
  /\ isr = "orerr" /\ isr' = "off"
  /\ uart' = IF uart.orerr /\ uart.rbneie /\ uart.rbne THEN Received(uart) ELSE uart
  /\ UNCHANGED <<dev, pc, sem, local, env>>

Handler == isr_enter \/ isr_rx \/ isr_clear \/ isr_tc \/ isr_orerr

(***************************************************************************)
(* rt_device_open and rt_serial_open.  The count is loaded and stored      *)
(* separately.                                                             *)
(***************************************************************************)
Opening == {"opened", "count_up"}
Closing == {"count_down", "free_rx", "clr_int_rx", "free_tx"}
Modes == dev.open_flag \cap {"INT_RX", "INT_TX"}
MayManage(t) == Exclusive => \A u \in Thread \ {t} : pc[u] \notin Opening \cup Closing

SetInt(u) == [u EXCEPT !.irq = TRUE, !.rbneie = TRUE]
\* A slip: the transmit interrupt is disabled.
clear_transmit(u) == [u EXCEPT !.tcie = FALSE]

ClrInt(u) == [u EXCEPT !.irq = FALSE, !.rbneie = FALSE]

rt_device_open(t, oflag) ==
  /\ ThreadRuns /\ pc[t] = "away" /\ MayManage(t)
  /\ Polite => /\ Modes \subseteq oflag
               /\ "INT_TX" \in oflag \/ uart.tdr = 0
  /\ LET fresh == dev.serial_rx = NoRing /\ "INT_RX" \in oflag
     IN /\ dev' = [dev EXCEPT !.open_flag = oflag,
                              !.serial_rx = IF fresh THEN NewRing ELSE @]
        /\ uart' = IF fresh THEN SetInt(uart) ELSE uart
  /\ local' = [local EXCEPT ![t].oflag = oflag]
  /\ Goto(t, "opened")
  /\ UNCHANGED <<isr, sem, env>>

opened(t) ==
  /\ ThreadRuns /\ pc[t] = "opened"
  /\ LET oflag == local[t].oflag
         fresh == dev.serial_tx = "none" /\ "INT_TX" \in oflag
     IN /\ dev' = [dev EXCEPT !.open_flag = oflag \cup {"OPEN"},
                              !.serial_tx = IF fresh THEN "undone" ELSE @]
        /\ uart' = IF fresh THEN SetInt(uart) ELSE uart
  /\ local' = [local EXCEPT ![t] = [ref |-> dev.ref, oflag |-> {}]]
  /\ Goto(t, "count_up")
  /\ UNCHANGED <<isr, sem, env>>

count_up(t) ==
  /\ ThreadRuns /\ pc[t] = "count_up"
  /\ dev' = [dev EXCEPT !.ref = local[t].ref + 1]
  /\ local' = [local EXCEPT ![t].ref = 0]
  /\ env' = [env EXCEPT !.opens = @ + 1]
  /\ Goto(t, IF t = "shell" THEN "attach" ELSE "open")
  /\ UNCHANGED <<uart, isr, sem>>

(***************************************************************************)
(* rt_device_close and rt_serial_close.                                    *)
(***************************************************************************)
Left(t) == IF t = "shell" THEN "left" ELSE "away"

rt_device_close(t) ==
  /\ IF dev.ref = 0 THEN Goto(t, Left(t)) /\ UNCHANGED local
     ELSE /\ local' = [local EXCEPT ![t].ref = dev.ref]
          /\ Goto(t, "count_down")
  /\ env' = [env EXCEPT !.opens = @ - 1]
  /\ UNCHANGED <<uart, dev, isr, sem>>

count_down(t) ==
  /\ ThreadRuns /\ pc[t] = "count_down"
  /\ dev' = [dev EXCEPT !.ref = local[t].ref - 1]
  /\ local' = [local EXCEPT ![t].ref = 0]
  /\ Goto(t, IF local[t].ref - 1 # 0 THEN Left(t) ELSE "free_rx")
  /\ UNCHANGED <<uart, isr, sem, env>>

free_rx(t) ==
  /\ ThreadRuns /\ pc[t] = "free_rx"
  /\ \/ /\ "INT_RX" \in dev.open_flag
        /\ dev' = [dev EXCEPT !.serial_rx = NoRing, !.open_flag = @ \ {"INT_RX"}]
        /\ Goto(t, "clr_int_rx")
     \/ /\ "INT_RX" \notin dev.open_flag
        /\ Goto(t, "free_tx") /\ UNCHANGED dev
  /\ UNCHANGED <<uart, isr, sem, local, env>>

clr_int(t) ==
  /\ ThreadRuns /\ pc[t] = "clr_int_rx"
  /\ uart' = ClrInt(uart)
  /\ Goto(t, "free_tx")
  /\ UNCHANGED <<dev, isr, sem, local, env>>

free_tx(t) ==
  /\ ThreadRuns /\ pc[t] = "free_tx"
  /\ \/ /\ "INT_TX" \in dev.open_flag
        /\ uart' = ClrInt(uart)
        /\ dev' = [dev EXCEPT !.serial_tx = "none", !.open_flag = {}]
     \/ /\ "INT_TX" \notin dev.open_flag
        /\ dev' = [dev EXCEPT !.open_flag = {}] /\ UNCHANGED uart
  /\ Goto(t, Left(t))
  /\ UNCHANGED <<isr, sem, local, env>>

Manage(t) == \/ opened(t) \/ count_up(t)
             \/ count_down(t) \/ free_rx(t) \/ clr_int(t) \/ free_tx(t)

(***************************************************************************)
(* rt_device_read of one character: from the ring, or by polling.          *)
(***************************************************************************)
Readable == dev.ref # 0 /\ IF "INT_RX" \in dev.open_flag
                           THEN RingLength(dev.serial_rx) > 0 ELSE uart.rbne
NextChar == IF "INT_RX" \in dev.open_flag
            THEN dev.serial_rx.buffer[dev.serial_rx.get_index] ELSE uart.rdr
Consume ==
  IF "INT_RX" \in dev.open_flag
  THEN dev' = [dev EXCEPT !.serial_rx.get_index = Step(@)] /\ UNCHANGED uart
  ELSE uart' = Received(uart) /\ UNCHANGED dev

(***************************************************************************)
(* finsh_thread_entry: wait for a token, then read until there is nothing  *)
(* more or a line ends.  A command may move the shell to another device,   *)
(* and back later (finsh_set_device).                                      *)
(***************************************************************************)
Key(c) == IF c \in {"cr", "lf"} THEN Goto("shell", "take") \/ Goto("shell", "leave")
          ELSE Goto("shell", "read")

\* A slip: all tokens are taken at once.
take_all ==
  /\ ThreadRuns /\ pc["shell"] = "take" /\ sem > 0
  /\ sem' = 0 /\ Goto("shell", "read")
  /\ UNCHANGED <<uart, dev, isr, local, env>>

shell_take ==
  /\ ThreadRuns /\ pc["shell"] = "take" /\ sem > 0
  /\ sem' = sem - 1 /\ Goto("shell", "read")
  /\ UNCHANGED <<uart, dev, isr, local, env>>

shell_read ==
  /\ ThreadRuns /\ pc["shell"] = "read"
  /\ \/ /\ ~Readable /\ Goto("shell", "take")
        /\ UNCHANGED <<uart, dev>>
     \/ /\ Readable /\ Consume
        /\ IF NextChar = "cr" THEN Goto("shell", "next") ELSE Key(NextChar)
  /\ UNCHANGED <<isr, sem, local, env>>

shell_next ==
  /\ ThreadRuns /\ pc["shell"] = "next"
  /\ \/ /\ ~Readable /\ Key("cr")
        /\ UNCHANGED <<uart, dev>>
     \/ /\ Readable /\ Consume
        /\ Key(IF NextChar = "nul" THEN "cr" ELSE NextChar)
  /\ UNCHANGED <<isr, sem, local, env>>

shell_attach ==
  /\ ThreadRuns /\ pc["shell"] = "attach"
  /\ dev' = [dev EXCEPT !.rx_indicate = TRUE]
  /\ Goto("shell", "take")
  /\ UNCHANGED <<uart, isr, sem, local, env>>

shell_leave == /\ ThreadRuns /\ pc["shell"] = "leave" /\ MayManage("shell")
               /\ rt_device_close("shell")

shell_left ==
  /\ ThreadRuns /\ pc["shell"] = "left"
  /\ dev' = [dev EXCEPT !.rx_indicate = FALSE]
  /\ Goto("shell", "away")
  /\ UNCHANGED <<uart, isr, sem, local, env>>

Shell == \/ rt_device_open("shell", {"INT_RX"}) \/ shell_attach
         \/ shell_take \/ shell_read \/ shell_next \/ shell_leave \/ shell_left


stm32_putc ==
  /\ ThreadRuns /\ pc["app"] = "open" /\ env.written < MaxWritten
  /\ \/ /\ "INT_TX" \in dev.open_flag /\ uart.tdr # 0
        /\ uart' = [uart EXCEPT !.tcie = TRUE]
        /\ Goto("app", "wait") /\ UNCHANGED env
     \/ /\ "INT_TX" \in dev.open_flag /\ uart.tdr = 0
        /\ uart' = [Transmit(uart, env.written + 1) EXCEPT !.tcie = TRUE]
        /\ env' = [env EXCEPT !.written = @ + 1]
        /\ UNCHANGED pc
     \/ /\ "INT_TX" \notin dev.open_flag
        /\ uart' = Transmit(uart, env.written + 1)
        /\ env' = [env EXCEPT !.written = @ + 1]
        /\ Goto("app", "poll")
  /\ UNCHANGED <<dev, isr, sem, local>>

\* by interrupt, rt_completion_wait
tx_done ==
  /\ ThreadRuns /\ pc["app"] \in {"poll", "wait"}
  /\ IF pc["app"] = "poll" THEN uart.tc /\ UNCHANGED dev
     ELSE dev.serial_tx = "done" /\ dev' = [dev EXCEPT !.serial_tx = "undone"]
  /\ Goto("app", "open")
  /\ UNCHANGED <<uart, isr, sem, local, env>>

app_close == /\ ThreadRuns /\ pc["app"] = "open" /\ MayManage("app")
             /\ rt_device_close("app")

rt_console_set_device ==
  /\ ThreadRuns /\ pc["app"] = "away" /\ env.console /\ MayManage("app")
  /\ local' = [local EXCEPT !["app"].ref = dev.ref]
  /\ env' = [env EXCEPT !.opens = @ - 1, !.console = FALSE]
  /\ Goto("app", "count_down")
  /\ UNCHANGED <<uart, dev, isr, sem>>

App == \/ \E f \in AppModes : rt_device_open("app", f)
       \/ stm32_putc \/ tx_done \/ app_close
       \/ rt_console_set_device

Next == \/ \E c \in Char : type(c)
        \/ shift_out
        \/ Handler \/ Shell \/ App
        \/ \E t \in Thread : Manage(t)

Spec == Init /\ [][Next]_vars

(***************************************************************************)
(* The processor executes the handler and the UART sends what it was given.*)
(***************************************************************************)
FairSpec == Spec /\ WF_vars(Handler) /\ WF_vars(shift_out)

(***************************************************************************)
(* Properties.                                                             *)
(***************************************************************************)
(***************************************************************************)
(* The ring of _serial_int_rx and rt_hw_serial_isr, with its two indices,  *)
(* holds the last bufsz - 1 characters received and not yet read, in the   *)
(* order in which they came, however the interrupt handler, the reader and *)
(* those who open and close the device interleave.                         *)
(***************************************************************************)
Abstract == INSTANCE LossyFifo WITH Capacity <- bufsz - 1,
                                    queue <- Content(dev.serial_rx),
                                    exists <- dev.serial_rx # NoRing
KeepsNewest == Abstract!Init /\ [][Abstract!Next]_<<dev.serial_rx>>

(***************************************************************************)
(* Neither the interrupt handler nor a reader meets a device without its   *)
(* ring: the assertions RT_ASSERT(rx_fifo != RT_NULL) of rt_hw_serial_isr  *)
(* and _serial_int_rx.                                                     *)
(***************************************************************************)
RingInUse ==
  dev.serial_rx = NoRing =>
    /\ isr \notin {"rx", "more"}
    /\ ~(pc["shell"] \in {"read", "next"} /\ dev.ref # 0 /\ "INT_RX" \in dev.open_flag)

(***************************************************************************)
(* The shell does not sit in rt_sem_take while there is something to read, *)
(* as long as every character had its own call of finsh_rx_ind.            *)
(***************************************************************************)
InputWaits == /\ ThreadRuns /\ pc["shell"] = "take" /\ sem = 0
              /\ RingLength(dev.serial_rx) > 0
InputNoticed == InputWaits => env.untold

\* the same without the proviso
InputAlwaysNoticed == ~InputWaits

(***************************************************************************)
(* Every byte written goes out once and in order, by polling and by        *)
(* interrupt, whatever opens and closes happen meanwhile.                  *)
(***************************************************************************)
InTransit == SelectSeq(<<uart.shift, uart.tdr>>, LAMBDA b : b # 0)

(***************************************************************************)
(* The reference count is the number of those who have the device open     *)
(* ("don't let bad things happen silently" in rt_device_open).             *)
(***************************************************************************)
RefsCounted ==
  (\A t \in Thread : pc[t] \notin Opening \cup Closing) => dev.ref = env.opens

(***************************************************************************)
(* The handler clears the interrupts it was called for (the comments       *)
(* "clear interrupt" in uart_isr), so that the threads go on running.      *)
(***************************************************************************)
ThreadsGoOn == []<>ThreadRuns
=============================================================================
