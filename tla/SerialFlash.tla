---------------------------- MODULE SerialFlash -----------------------------
(***************************************************************************)
(* The serial flash driver (sfud.c, spi_flash_sfud.c) over the SPI bus     *)
(* (spi_core.c, rt_gd32f20x_spi.c), with threads that read, erase and      *)
(* write, and a chip that goes on by itself with an erase or a program     *)
(* that it has been given, whatever becomes of the processor.              *)
(*                                                                         *)
(* A transaction takes the bus lock, selects the chip, sends the command   *)
(* and, in a second step, deselects the chip, which then acts on what it   *)
(* has heard, and releases the lock.  It cannot fail: the only error of    *)
(* rt_spi_transfer is a data width the controller does not have.           *)
(***************************************************************************)
EXTENDS Naturals, Sequences, FiniteSets, FiniteSetsExt

CONSTANTS Thread,
          None,        \* no thread
          Capacity,    \* chip.capacity
          PageSize,    \* write_gran: the chip wraps around within a page
          Erasers,     \* sizes of the chip's erase commands
          Ranges,      \* <<address, size>> that callers use
          RetryTimes,  \* retry.times
          Duties       \* what callers and the board see to; see below

VARIABLES chip,        \* memory, operation in progress, write-enable latch
          up,          \* whether the probe has registered the device
          lock, bus,   \* who holds the flash's mutex, and the bus's
          th           \* what each thread is doing

vars == <<chip, up, lock, bus, th>>

Addr == 0 .. Capacity - 1
Erased == <<>>
Bad == <<0>>
NoOp == [area |-> {}]
Busy == chip.op # NoOp

Idle == [op |-> "none", at |-> "idle", a |-> 0, n |-> 0, off |-> 0, gran |-> 0,
         retry |-> 0, ok |-> TRUE, req |-> <<0, 0>>, more |-> FALSE, fresh |-> FALSE,
         buf |-> <<>>]

Init == /\ chip = [mem |-> [x \in Addr |-> Erased], op |-> NoOp, wel |-> FALSE]
        /\ up = "no" /\ lock = None /\ bus = None
        /\ th = [t \in Thread |-> Idle]

Bytes(r) == r[1] .. r[1] + r[2] - 1
Granule(x, g) == (x \div g) * g .. (x \div g) * g + g - 1
Cover(r) == UNION {Granule(x, Min(Erasers)) : x \in Bytes(r)}
Touches(t) == IF th[t] = Idle THEN {} ELSE Cover(th[t].req)

(***************************************************************************)
(* Duties.  Apart: callers that work at the same time keep to granules of  *)
(* their own.  Settled: the chip is done with what has timed out before    *)
(* the next call gets the lock.  Calm: the processor is not reset while    *)
(* the chip works, unless the chip loses its power too.                    *)
(***************************************************************************)
Apart(r) == "apart" \in Duties => \A t \in Thread : Touches(t) \cap Cover(r) = {}
Settled == "settled" \in Duties => ~Busy
Calm == "calm" \in Duties => ~Busy

At(t, l) == th[t].at = l
Goto(t, l) == th' = [th EXCEPT ![t].at = l]

(***************************************************************************)
(* sfud_read, sfud_write, sfud_erase, sfud_erase_write.                    *)
(***************************************************************************)
Start(op, r) ==
  [Idle EXCEPT !.op = op, !.at = "lock", !.a = r[1], !.n = r[2], !.req = r]

WholeChip(r) == r = <<0, Capacity>>
EraseOp(r) == IF WholeChip(r) THEN "chip_erase" ELSE "erase"

Call(t, r) ==
  /\ up = "yes" /\ th[t] = Idle /\ Apart(r)
  /\ \/ \E op \in {"read", "write"} : th' = [th EXCEPT ![t] = Start(op, r)]
     \/ \E more \in BOOLEAN :
          th' = [th EXCEPT ![t] = [Start(EraseOp(r), r) EXCEPT !.more = more]]
  /\ UNCHANGED <<chip, up, lock, bus>>

Lock(t) == /\ At(t, "lock") /\ lock = None /\ Settled
           /\ lock' = t
           /\ th' = [th EXCEPT ![t].at = IF th[t].op = "read" THEN "poll" ELSE "wren",
                               ![t].retry = RetryTimes,
                               ![t].fresh = @ \/ \A x \in Bytes(th[t].req) : chip.mem[x] = Erased]
           /\ UNCHANGED <<chip, up, bus>>

(***************************************************************************)
(* The first half of a transaction: rt_spi_transfer, rt_spi_send_then_recv *)
(***************************************************************************)
Transactions == {"jedec", "wren", "wrensr", "cmd", "poll", "read", "wrdi", "wrdisr"}

Select(t) == /\ th[t].at \in Transactions /\ bus = None
             /\ bus' = t /\ UNCHANGED <<chip, up, lock, th>>

(***************************************************************************)
(* The second half, for the command that `at` names.  A busy chip only     *)
(* answers to the reading of its status.                                   *)
(***************************************************************************)
Deselect(t) == bus = t /\ bus' = None
Latch(wel) == chip' = IF ~Busy THEN [chip EXCEPT !.wel = wel] ELSE chip

\* set_write_enabled(flash, true)
write_enable(t) == /\ At(t, "wren") /\ Deselect(t)
                   /\ Latch(TRUE) /\ Goto(t, "wrensr")
                   /\ UNCHANGED <<up, lock>>

enable_checked(t) ==
  /\ At(t, "wrensr") /\ Deselect(t)
  /\ th' = [th EXCEPT ![t].at = IF chip.wel THEN "cmd" ELSE "wrdi", ![t].ok = chip.wel]
  /\ UNCHANGED <<chip, up, lock>>

(***************************************************************************)
(* sfud_sfdp_get_suitable_eraser: the largest command that is aligned and  *)
(* not too large.                                                          *)
(***************************************************************************)

sfud_sfdp_get_suitable_eraser(a, n) ==
  LET fits == {s \in Erasers : n >= s /\ a % s = 0}
  IN IF fits = {} THEN Min(Erasers) ELSE Max(fits)

\* page256_or_1_byte_write: up to the end of the page
\* A slip: a full page from wherever the range begins.
page_unaligned(a, n) == Min({n, PageSize})

data_size(a, n) == Min({n, PageSize - (a % PageSize)})

EraseArea(area) == [area |-> area, data |-> [x \in area |-> Erased]]

\* page program: the address wraps around, and a bit can only be cleared
Program(t, a, k, off) ==
  LET at(i) == (a \div PageSize) * PageSize + ((a + i) % PageSize)
      area == {at(i) : i \in 0 .. k - 1}
  IN [area |-> area,
      data |-> [x \in area |-> IF chip.mem[x] # Erased THEN Bad
                               ELSE <<t, off + CHOOSE i \in 0 .. k - 1 : at(i) = x>>]]

Begins(op) == chip' = IF ~Busy /\ chip.wel THEN [chip EXCEPT !.op = op] ELSE chip

command(t) ==
  LET c == th[t]
      g == sfud_sfdp_get_suitable_eraser(c.a, c.n)
      k == data_size(c.a, c.n)
  IN /\ At(t, "cmd") /\ Deselect(t)
     /\ CASE c.op = "erase" ->
               /\ Begins(EraseArea(Granule(c.a, g)))
               /\ th' = [th EXCEPT ![t].gran = g, ![t].at = "poll", ![t].retry = RetryTimes]
          [] c.op = "chip_erase" ->
               /\ Begins(EraseArea(Addr))
               /\ th' = [th EXCEPT ![t].at = "poll", ![t].retry = RetryTimes]
          [] c.op = "write" ->
               /\ Begins(Program(t, c.a, k, c.off))
               /\ th' = [th EXCEPT ![t].a = c.a + k, ![t].n = c.n - k, ![t].off = c.off + k,
                                   ![t].at = "poll", ![t].retry = RetryTimes]
          [] c.op = "probe" ->
               /\ Latch(FALSE)
               /\ th' = [th EXCEPT ![t].n = c.n - 1, ![t].at = "poll", ![t].retry = RetryTimes]
     /\ UNCHANGED <<up, lock>>

(***************************************************************************)
(* wait_busy, and what comes next when it ends: the rest of the range, or  *)
(* the way out.                                                            *)
(***************************************************************************)
\* A slip: the first status ends the waiting.
never_waits(t) == TRUE

Ready(t) == ~Busy

Rest(c) ==
  LET part == c.gran - (c.a % c.gran)
  IN CASE c.op = "read" -> [c EXCEPT !.at = "read"]
       [] c.op = "chip_erase" -> [c EXCEPT !.at = "wrdi"]
       [] c.op = "write" -> [c EXCEPT !.at = IF c.n > 0 THEN "wren" ELSE "wrdi"]
       [] c.op = "probe" -> [c EXCEPT !.at = IF c.n > 0 THEN "cmd" ELSE "probed"]
       [] c.op = "erase" -> IF c.n > part
                            THEN [c EXCEPT !.at = "wren", !.a = @ + part, !.n = @ - part]
                            ELSE [c EXCEPT !.at = "wrdi"]

TimedOut(c) ==
  CASE c.op = "read" -> [c EXCEPT !.at = "unlock", !.ok = FALSE]
    [] c.op = "probe" -> [c EXCEPT !.at = IF c.n > 0 THEN "cmd" ELSE "probed", !.ok = c.n > 0]
    [] OTHER -> [c EXCEPT !.at = "wrdi", !.ok = FALSE]

wait_busy(t) ==
  /\ At(t, "poll") /\ Deselect(t)
  /\ th' = [th EXCEPT ![t] = IF Ready(t) THEN Rest(@)
                             ELSE IF @.retry = 0 THEN TimedOut(@)
                             ELSE [@ EXCEPT !.retry = @ - 1]]
  /\ UNCHANGED <<chip, up, lock>>

read_data(t) ==
  /\ At(t, "read") /\ Deselect(t)
  /\ th' = [th EXCEPT ![t].at = "unlock",
                      ![t].buf = [i \in 1 .. th[t].n |->
                                    IF Busy THEN Bad ELSE chip.mem[th[t].a + i - 1]]]
  /\ UNCHANGED <<chip, up, lock>>

\* set_write_enabled(flash, false); what the status says is not used
write_disable(t) == /\ At(t, "wrdi") /\ Deselect(t)
                    /\ Latch(FALSE) /\ Goto(t, "wrdisr")
                    /\ UNCHANGED <<up, lock>>

disable_checked(t) == /\ At(t, "wrdisr") /\ Deselect(t)
                      /\ Goto(t, "unlock") /\ UNCHANGED <<chip, up, lock>>

\* sfud_erase_write goes on with the write, under the lock once more
unlock(t) ==
  /\ At(t, "unlock") /\ lock' = None
  /\ th' = [th EXCEPT ![t] =
              IF @.more /\ @.ok THEN [Start("write", @.req) EXCEPT !.fresh = TRUE]
              ELSE [@ EXCEPT !.at = "done"]]
  /\ UNCHANGED <<chip, up, bus>>

Return(t) == At(t, "done") /\ th' = [th EXCEPT ![t] = Idle] /\ UNCHANGED <<chip, up, lock, bus>>

(***************************************************************************)
(* Start-up: rt_sfud_flash_probe reads the chip's identification, without  *)
(* waiting, and resets the chip (two commands).  A chip that is not        *)
(* recognised is not registered.                                           *)
(***************************************************************************)
probe(t) == /\ up = "no" /\ \A u \in Thread : th[u] = Idle
            /\ th' = [th EXCEPT ![t] = [Idle EXCEPT !.op = "probe", !.at = "jedec", !.n = 2]]
            /\ UNCHANGED <<chip, up, lock, bus>>

read_jedec_id(t) == /\ At(t, "jedec") /\ Deselect(t)
                    /\ th' = [th EXCEPT ![t].at = IF Busy THEN "probed" ELSE "cmd",
                                        ![t].ok = ~Busy]
                    /\ UNCHANGED <<chip, up, lock>>

probed(t) == /\ At(t, "probed") /\ th' = [th EXCEPT ![t] = Idle]
             /\ up' = IF th[t].ok THEN "yes" ELSE "failed"
             /\ UNCHANGED <<chip, lock, bus>>

(***************************************************************************)
(* The chip finishes; the processor is reset, alone or with the chip.      *)
(***************************************************************************)
Override(f, g) == [x \in DOMAIN f |-> IF x \in DOMAIN g THEN g[x] ELSE f[x]]

Finish == /\ Busy
          /\ chip' = [mem |-> Override(chip.mem, chip.op.data), op |-> NoOp, wel |-> FALSE]
          /\ UNCHANGED <<up, lock, bus, th>>

Interrupted == [x \in chip.op.area |-> Bad]

Reset == /\ \/ Calm /\ UNCHANGED chip
            \/ chip' = [mem |-> Override(chip.mem, Interrupted), op |-> NoOp, wel |-> FALSE]
         /\ up' = "no" /\ lock' = None /\ bus' = None
         /\ th' = [t \in Thread |-> Idle]

Step(t) == \/ Lock(t) \/ Select(t) \/ write_enable(t) \/ enable_checked(t) \/ command(t)
           \/ wait_busy(t) \/ read_data(t) \/ write_disable(t) \/ disable_checked(t)
           \/ unlock(t) \/ Return(t) \/ probe(t) \/ read_jedec_id(t) \/ probed(t)

Next == \/ \E t \in Thread : Step(t) \/ \E r \in Ranges : Call(t, r)
        \/ Finish \/ Reset

Spec == Init /\ [][Next]_vars

(***************************************************************************)
(* A call that returns success has done what it was asked for: the range   *)
(* holds the data (when it was erased before), or is erased up to the ends *)
(* of its granules, or is what the reader was given.                       *)
(***************************************************************************)
Done(t, c) ==
  CASE c.op = "write" -> c.fresh => \A i \in 0 .. c.req[2] - 1 : chip.mem[c.req[1] + i] = <<t, i>>
    [] c.op = "read" -> \A i \in 1 .. c.req[2] : c.buf[i] = chip.mem[c.req[1] + i - 1]
    [] OTHER -> \A x \in Cover(c.req) : chip.mem[x] = Erased

StoredOnSuccess == \A t \in Thread : At(t, "done") /\ th[t].ok => Done(t, th[t])

(***************************************************************************)
(* What the chip is given to do stays within the request: a program within *)
(* the bytes of the range, an erase within the granules they are in,       *)
(* whichever erase commands and page boundaries the loops meet.            *)
(***************************************************************************)
StaysInRange ==
  \A t \in Thread : At(t, "poll") /\ th[t].op \in {"write", "erase"} =>
    chip.op.area \subseteq (IF th[t].op = "write" THEN Bytes(th[t].req) ELSE Cover(th[t].req))

(***************************************************************************)
(* The probe at start-up recognises the chip.                              *)
(***************************************************************************)
FlashFound == up # "failed"
=============================================================================
