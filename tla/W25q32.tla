-------------------------------- MODULE W25q32 --------------------------------
(***************************************************************************)
(* The file operations of device_drivers/w25q32_drv: driver_open,          *)
(* driver_llseek, driver_read and driver_write, called by several threads, *)
(* with the loop that waits for the chip, the splitting of a write into    *)
(* pages, and a bus that may fail.                                         *)
(*                                                                         *)
(* There is no lock: threads interleave at every transfer.  As in 11, the  *)
(* VFS (external) copies the position when a call starts and stores it     *)
(* back when the call succeeds.                                            *)
(*                                                                         *)
(* The bytes in the flash are not modelled, because what reaches the chip  *)
(* is not defined by the code: driver_write reads the four bytes of its    *)
(* command from the address that the command word happens to be (a fault,  *)
(* or whatever lies there), and driver_read sends its command word in the  *)
(* byte order of the processor.  Either may be any instruction.            *)
(***************************************************************************)
EXTENDS Integers, FiniteSets

CONSTANTS
  Threads,
  Files,      \* open files
  Counts,     \* counts a caller asks for
  Offsets,    \* offsets a caller gives to lseek
  PAGE,       \* W25Q32_PAGE_SIZE
  WINDOW,     \* 0x0FFF + 1, the addresses a command can name
  TOTAL       \* W25Q32_TOTAL_MEM

ASSUME W25q32Assumption ==
  /\ Counts \subseteq Nat /\ Offsets \subseteq Int
  /\ PAGE \in Nat \ {0} /\ WINDOW \in Nat \ {0} /\ TOTAL \in Nat
  /\ 2 * WINDOW <= TOTAL

VARIABLES
  f_pos,      \* filp->f_pos of every file
  pc, call,   \* where each thread is, and the locals of its call
  buffers,    \* threads whose rxbuff or txbuff is allocated
  bus,        \* "up" or "down": whether transfers succeed
  chip,       \* [busy, wel, down]: the chip is programming; writing is enabled;
              \* it is powered down
  raced,      \* history: threads whose chip another one has used since they
              \* found it ready
  sought      \* history: files on which an lseek has succeeded

vars == <<f_pos, pc, call, buffers, bus, chip, raced, sought>>

(***************************************************************************)
(* A call.  pos is the VFS's local position, asked and count the number of *)
(* bytes before and after clipping, left (tmp_count) and index (tmp_index) *)
(* how much of a write is unsent and where in txbuff the next piece        *)
(* starts, offset its place within the page, addr tmp_addr, pieces the     *)
(* number of pieces sent, wren whether the chip got WRITE_EN for this one. *)
(***************************************************************************)
Calls == [op : {"read", "write", "llseek"}, file : Files, pos : Int, asked : Int,
          count : Int, left : Int, index : Int, offset : Int, addr : Int,
          pieces : Nat, wren : BOOLEAN, err : {"OK", "ENOMEM", "EFAULT", "EINVAL"}]

\* A position that is used as it is.
WindowWide(p) == p

\* pos & 0x0FFF
Window(p) == p % WINDOW

\* The number of bytes up to, but not including, the last one.
Clip(p, n) == IF n + p >= TOTAL THEN TOTAL - p - 1 ELSE n

NewCall(o, f, p, n) ==
  [op |-> o, file |-> f, pos |-> p, asked |-> n, count |-> Clip(p, n), left |-> Clip(p, n),
   index |-> 0, offset |-> Window(p) % PAGE, addr |-> Window(p), pieces |-> 0,
   wren |-> FALSE, err |-> "OK"]

Init ==
  /\ f_pos = [f \in Files |-> 0]
  /\ pc = [t \in Threads |-> "idle"]
  /\ call \in [Threads -> {NewCall("read", f, 0, 0) : f \in Files}]
  /\ buffers = {} /\ raced = {} /\ sought = {}
  /\ bus = "up"
  /\ chip = [busy |-> FALSE, wel |-> FALSE, down |-> FALSE]

Goto(t, s) == pc' = [pc EXCEPT ![t] = s]

\* The call of t is over and its locals are gone.
Forget(t) == call' = [call EXCEPT ![t] = NewCall("read", @.file, 0, 0)]

\* A transfer or a copy of t failed.
Fault(t) ==
  /\ call' = [call EXCEPT ![t] = [NewCall(@.op, @.file, 0, 0) EXCEPT !.err = "EFAULT"]]
  /\ Goto(t, "ret")

\* The threads that wait to use the chip, when t uses it.
Raced(t) == (raced \ {t}) \cup {s \in Threads \ {t} : pc[s] \in {"wren", "send"}}

-----------------------------------------------------------------------------
(* Files and positions.                                                    *)

\* A file is released, when no call is in it, and opened anew.
driver_open(f) ==
  /\ \A t \in Threads : pc[t] # "idle" => call[t].file # f
  /\ f_pos' = [f_pos EXCEPT ![f] = 0]
  /\ sought' = sought \ {f}
  /\ UNCHANGED <<pc, call, buffers, bus, chip, raced>>

SeekTarget(f, offset, whence) ==
  CASE whence = "SEEK_SET" -> offset
    [] whence = "SEEK_CUR" -> f_pos[f] + offset
    [] whence = "SEEK_END" -> TOTAL - 1 + offset

\* Without the check against the end of the flash.
SeekRefusedBelow(temp) == temp < 0

SeekRefused(temp) == temp > TOTAL - 1 \/ temp < 0

\* One step computes and checks the target, one stores it.
driver_llseek(t, f, offset, whence) ==
  LET temp == SeekTarget(f, offset, whence)
      new  == NewCall("llseek", f, temp, 0)
  IN
  /\ pc[t] = "idle"
  /\ \/ /\ SeekRefused(temp)
        /\ call' = [call EXCEPT ![t] = [new EXCEPT !.err = "EINVAL"]]
        /\ Goto(t, "ret")
     \/ /\ ~SeekRefused(temp)
        /\ call' = [call EXCEPT ![t] = new]
        /\ Goto(t, "seek")
  /\ UNCHANGED <<f_pos, buffers, bus, chip, raced, sought>>

driver_llseek_set(t) ==
  /\ pc[t] = "seek"
  /\ f_pos' = [f_pos EXCEPT ![call[t].file] = call[t].pos]
  /\ sought' = sought \cup {call[t].file}
  /\ Goto(t, "ret")
  /\ UNCHANGED <<call, buffers, bus, chip, raced>>

vfs_return(t) ==
  /\ pc[t] = "ret"
  /\ f_pos' = IF call[t].op # "llseek" /\ call[t].err = "OK"
              THEN [f_pos EXCEPT ![call[t].file] = call[t].pos] ELSE f_pos
  /\ buffers' = buffers \ {t}
  /\ Goto(t, "idle")
  /\ Forget(t)
  /\ UNCHANGED <<bus, chip, raced, sought>>

-----------------------------------------------------------------------------
(* driver_read.                                                            *)

\* Up to the wait: clip, allocate.
driver_read(t, f, n) ==
  LET new == NewCall("read", f, f_pos[f], n) IN
  /\ pc[t] = "idle"
  /\ \/ /\ call' = [call EXCEPT ![t] = [new EXCEPT !.err = "ENOMEM"]]
        /\ Goto(t, "ret")
        /\ buffers' = buffers
     \/ /\ call' = [call EXCEPT ![t] = new]
        /\ Goto(t, "busy")
        /\ buffers' = buffers \cup {t}
  /\ UNCHANGED <<f_pos, bus, chip, raced, sought>>

Chips == [busy : BOOLEAN, wel : BOOLEAN, down : BOOLEAN]

\* What the chip may do with an instruction that is not known.  A busy chip
\* ignores it, and one that is powered down all but RELEASE_POWER_DOWN_HPM;
\* POWER_DOWN is one that a chip may get.
Instruction ==
  chip' \in IF chip.busy \/ chip.down THEN {chip, [chip EXCEPT !.down = FALSE]}
           ELSE {c \in Chips : c.busy => ~c.down}

\* A read function that frees nothing.
read_transfer_leaky(t) ==
  /\ pc[t] = "xfer"
  /\ \/ bus = "down" /\ Fault(t) /\ UNCHANGED <<buffers, chip, raced>>
     \/ /\ bus = "up" /\ Instruction
        /\ raced' = Raced(t)
        /\ \/ Fault(t) /\ buffers' = buffers
           \/ /\ call' = [call EXCEPT ![t].pos = Window(@) + call[t].count]
              /\ Goto(t, "ret")
              /\ buffers' = buffers
  /\ UNCHANGED <<f_pos, bus, sought>>

\* The transfer and copy_to_user; both error returns keep the buffer.
read_transfer(t) ==
  /\ pc[t] = "xfer"
  /\ \/ bus = "down" /\ Fault(t) /\ UNCHANGED <<buffers, chip, raced>>
     \/ /\ bus = "up" /\ Instruction
        /\ raced' = Raced(t)
        /\ \/ Fault(t) /\ buffers' = buffers
           \/ /\ call' = [call EXCEPT ![t].pos = Window(@) + call[t].count]
              /\ Goto(t, "ret")
              /\ buffers' = buffers \ {t}
  /\ UNCHANGED <<f_pos, bus, sought>>

-----------------------------------------------------------------------------
(* w25q32_check_busy and driver_write.                                     *)

\* A loop that ends when its transfer fails.
w25q32_check_busy_once(t) ==
  /\ pc[t] = "busy"
  /\ bus = "up" => ~chip.busy
  /\ raced' = raced \ {t}
  /\ Goto(t, IF call[t].op = "read" THEN "xfer" ELSE "wren")
  /\ UNCHANGED <<f_pos, call, buffers, bus, chip, sought>>

\* A loop that looks at the write-enable bit.
w25q32_check_busy_wel(t) ==
  /\ pc[t] = "busy"
  /\ bus = "up" /\ ~chip.wel
  /\ raced' = raced \ {t}
  /\ Goto(t, IF call[t].op = "read" THEN "xfer" ELSE "wren")
  /\ UNCHANGED <<f_pos, call, buffers, bus, chip, sought>>

\* The loop ends when the chip answers that it is ready; a failed transfer
\* leaves busy at 1.  A chip that is powered down answers nothing: what is read
\* then may be either.
w25q32_check_busy(t) ==
  /\ pc[t] = "busy"
  /\ bus = "up" /\ ~chip.busy
  /\ raced' = raced \ {t}
  /\ Goto(t, IF call[t].op = "read" THEN "xfer" ELSE "wren")
  /\ UNCHANGED <<f_pos, call, buffers, bus, chip, sought>>

\* Up to the loop: clip, allocate, read the command bytes, copy_from_user.
driver_write(t, f, n) ==
  LET new == NewCall("write", f, f_pos[f], n) IN
  /\ pc[t] = "idle"
  /\ \/ /\ call' = [call EXCEPT ![t] = [new EXCEPT !.err = "ENOMEM"]]
        /\ Goto(t, "ret")
        /\ buffers' = buffers
     \/ /\ call' = [call EXCEPT ![t] = [new EXCEPT !.err = "EFAULT"]]
        /\ Goto(t, "ret")
        /\ buffers' = buffers \cup {t}
     \/ /\ \/ call' = [call EXCEPT ![t] = new] /\ Goto(t, "busy")
           \/ call' = call /\ Goto(t, "oops")
        /\ buffers' = buffers \cup {t}
  /\ UNCHANGED <<f_pos, bus, chip, raced, sought>>

\* w25q32_write_instruction(WRITE_EN), whose result is ignored.
write_enable(t) ==
  /\ pc[t] = "wren"
  /\ call' = [call EXCEPT ![t].wren = (bus = "up")]
  /\ chip' = IF bus = "up" /\ ~chip.busy /\ ~chip.down THEN [chip EXCEPT !.wel = TRUE] ELSE chip
  /\ Goto(t, "send")
  /\ UNCHANGED <<f_pos, buffers, bus, raced, sought>>

\* The rest does not fit the page.
Rolls(c) == c.offset + c.left > PAGE

Piece(c) == IF Rolls(c) THEN PAGE - c.offset ELSE c.left

\* The next piece starts where it would in a buffer without the first four bytes.
NextIndexLate(c) == Piece(c) + 4

\* The next piece starts where this one did.
NextIndexStays(c) == c.index

\* tmp_index = roll_count, which is the end of this piece only if it was the first.
NextIndex(c) == Piece(c)

Advanced(c) == [c EXCEPT !.addr = Window(c.addr + Piece(c)), !.left = @ - Piece(c),
                         !.index = IF Rolls(c) THEN NextIndex(c) ELSE @,
                         !.offset = IF Rolls(c) THEN 0 ELSE @,
                         !.pieces = @ + 1, !.wren = FALSE]

\* A piece that does not fit the page is followed by another one, whose command
\* bytes are read first; the last one by the end of driver_write.
send_piece(t) ==
  LET c == call[t] IN
  /\ pc[t] = "send"
  /\ \/ bus = "down" /\ Fault(t) /\ UNCHANGED <<buffers, chip, raced>>
     \/ /\ bus = "up" /\ Instruction
        /\ raced' = Raced(t)
        /\ \/ /\ Rolls(c)
              /\ \/ call' = [call EXCEPT ![t] = Advanced(c)] /\ Goto(t, "busy")
                 \/ Forget(t) /\ Goto(t, "oops")
              /\ buffers' = buffers
           \/ /\ ~Rolls(c)
              /\ call' = [call EXCEPT ![t] =
                   [Advanced(c) EXCEPT !.pos = Window(@) + Advanced(c).addr]]
              /\ Goto(t, "ret")
              /\ buffers' = buffers \ {t}
  /\ UNCHANGED <<f_pos, bus, sought>>

-----------------------------------------------------------------------------
(* The bus and the chip.                                                   *)

bus_changes ==
  /\ bus' = IF bus = "up" THEN "down" ELSE "up"
  /\ UNCHANGED <<f_pos, pc, call, buffers, chip, raced, sought>>

chip_ready ==
  /\ chip.busy
  /\ chip' = [busy |-> FALSE, wel |-> FALSE, down |-> FALSE]
  /\ UNCHANGED <<f_pos, pc, call, buffers, bus, raced, sought>>

-----------------------------------------------------------------------------
Proceed(t) ==
  \/ driver_llseek_set(t) \/ vfs_return(t) \/ read_transfer(t)
  \/ w25q32_check_busy(t) \/ write_enable(t) \/ send_piece(t)

Start(t) ==
  \E f \in Files :
    \/ \E n \in Counts : driver_read(t, f, n) \/ driver_write(t, f, n)
    \/ \E offset \in Offsets, whence \in {"SEEK_SET", "SEEK_CUR", "SEEK_END"} :
         driver_llseek(t, f, offset, whence)

Next ==
  \/ \E t \in Threads : Start(t) \/ Proceed(t)
  \/ \E f \in Files : driver_open(f)
  \/ bus_changes \/ chip_ready

Spec == Init /\ [][Next]_vars

(***************************************************************************)
(* Threads inside the kernel are scheduled, and the chip ends what it has  *)
(* begun.  Nothing is assumed of the bus.                                  *)
(***************************************************************************)
FairSpec == Spec /\ WF_vars(chip_ready) /\ \A t \in Threads : WF_vars(Proceed(t))

-----------------------------------------------------------------------------
(* Properties.                                                             *)

\* The type of the state; every position is that of a byte of the flash,
\* although it is computed from a masked and an unmasked address.
TypeOK ==
  /\ f_pos \in [Files -> 0 .. TOTAL - 1]
  /\ pc \in [Threads -> {"idle", "seek", "busy", "xfer", "wren", "send", "ret", "oops"}]
  /\ call \in [Threads -> Calls]
  /\ buffers \subseteq Threads /\ raced \subseteq Threads /\ sought \subseteq Files
  /\ bus \in {"up", "down"}
  /\ chip \in Chips

(***************************************************************************)
(* However a write is split, spi_write reads, and the command bytes of the *)
(* next piece are stored, only within the count+4 bytes of txbuff.         *)
(***************************************************************************)
PiecesInBuffer ==
  \A t \in Threads : pc[t] = "send" =>
    LET c == call[t] IN
    /\ c.index >= 0 /\ Piece(c) >= 0
    /\ c.index + Piece(c) + 4 <= c.count + 4
    /\ Rolls(c) => NextIndex(c) + 3 < c.count + 4

(***************************************************************************)
(* The first two pieces of a write send the caller's bytes in order, and   *)
(* the command bytes never overwrite one that is still to be sent; from    *)
(* the third piece on, bytes are sent again and the last ones are not.     *)
(***************************************************************************)
PiecesInOrder ==
  \A t \in Threads : pc[t] = "send" =>
    LET sent == call[t].count - call[t].left IN
    /\ call[t].pieces < 2 => call[t].index = sent
    /\ call[t].pieces >= 2 => call[t].index = PAGE /\ call[t].index < sent

(***************************************************************************)
(* A thread that found the chip ready and delivered WRITE_EN sends its     *)
(* piece to a chip that accepts it, unless another thread used the chip in *)
(* between or an earlier instruction has powered the chip down: only then  *)
(* can a write be reported and not happen.                                 *)
(***************************************************************************)
AcceptedUnlessRaced ==
  \A t \in Threads : pc[t] = "send" /\ call[t].wren /\ t \notin raced =>
    ~chip.busy /\ (chip.wel \/ chip.down)

(***************************************************************************)
(* A call that returns has freed its buffer, except when a transfer or a   *)
(* copy failed: those returns leak it.                                     *)
(***************************************************************************)
LeakOnlyOnFault ==
  \A t \in Threads : pc[t] = "ret" => (t \in buffers <=> call[t].err = "EFAULT")

(***************************************************************************)
(* On a file that was never positioned with lseek, a read of less than     *)
(* about half the flash is never clipped, so it never meets the end of the *)
(* file: each call maps the position back into the window, and a program   *)
(* that reads until the end does so for ever.                              *)
(***************************************************************************)
EndOnlyAfterSeek ==
  \A t \in Threads :
    /\ pc[t] = "ret" /\ call[t].op = "read" /\ call[t].err = "OK"
    /\ call[t].file \notin sought
    => call[t].count = call[t].asked

Working == \E t \in Threads : pc[t] \in {"seek", "busy", "xfer", "wren", "send"}

(***************************************************************************)
(* If the bus stops failing and the chip does not stay powered down, then  *)
(* whenever calls are in progress one of them returns, or all of them      *)
(* fault: threads that make the chip busy for each other do not all wait   *)
(* for ever.  While the bus fails, or the chip is down and its line is     *)
(* read as 1, they do.                                                     *)
(***************************************************************************)
SomeCallReturns ==
  <>[](bus = "up" /\ ~chip.down) =>
    (Working ~> ((\E t \in Threads : pc[t] = "ret") \/ ~Working))
=============================================================================
