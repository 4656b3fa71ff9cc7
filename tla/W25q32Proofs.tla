------------------------------ MODULE W25q32Proofs ------------------------------
(***************************************************************************)
(* Proofs about W25q32, for any number of threads and files, any counts    *)
(* and any sizes of the page, the window and the flash.                    *)
(*                                                                         *)
(* CallOK says what the locals of a call are while it works: how much of   *)
(* the buffer has been sent after none, one and more pieces.  It is        *)
(* inductive together with the types, which include the range of the       *)
(* positions.  Buffers, acceptance and the end of the file each have an    *)
(* inductive invariant of their own on top of it.                          *)
(***************************************************************************)
EXTENDS W25q32, TLAPS

Transfers == {"busy", "xfer", "wren", "send"}

\* After no piece, one piece and more: where the next piece starts in txbuff.
PiecesOK(c) ==
  /\ c.offset \in 0 .. PAGE - 1
  /\ c.left \in 0 .. c.count
  /\ c.pieces = 0 => c.left = c.count /\ c.index = 0
  /\ c.pieces = 1 => c.offset = 0 /\ c.index = c.count - c.left /\ c.index \in 1 .. PAGE
  /\ c.pieces >= 2 => c.offset = 0 /\ c.index = PAGE /\ PAGE < c.count - c.left

\* The locals of t's call.
CallOK(t) ==
  /\ pc[t] \in Transfers =>
       /\ call[t].op \in {"read", "write"} /\ call[t].err = "OK"
       /\ call[t].pos \in 0 .. TOTAL - 1 /\ call[t].asked \in Counts
       /\ call[t].count = Clip(call[t].pos, call[t].asked)
       /\ call[t].addr \in 0 .. WINDOW - 1
       /\ PiecesOK(call[t])
  /\ pc[t] = "xfer" => call[t].op = "read"
  /\ pc[t] \in {"wren", "send"} => call[t].op = "write"
  /\ pc[t] = "seek" => call[t].op = "llseek" /\ call[t].err = "OK"
  /\ pc[t] = "seek" => call[t].pos \in 0 .. TOTAL - 1
  /\ pc[t] = "ret" /\ call[t].op # "llseek" /\ call[t].err = "OK" =>
       call[t].pos \in 0 .. TOTAL - 1

CallInv == TypeOK /\ \A t \in Threads : CallOK(t)

-----------------------------------------------------------------------------
(* The operators.                                                          *)

\* The mask maps a position into the window and never upwards.
LEMMA WindowRange ==
  ASSUME NEW p \in Int
  PROVE  /\ Window(p) \in 0 .. WINDOW - 1
         /\ p >= 0 => Window(p) <= p
         /\ Window(p) % PAGE \in 0 .. PAGE - 1
<1>1. Window(p) \in 0 .. WINDOW - 1
  BY W25q32Assumption DEF Window
<1>2. p >= 0 => Window(p) <= p
  BY W25q32Assumption DEF Window
<1>3. Window(p) % PAGE \in 0 .. PAGE - 1
  BY <1>1, W25q32Assumption
<1>4. QED
  BY <1>1, <1>2, <1>3

\* A clipped transfer is not negative and ends before the last byte, or is as
\* long as the caller asked.
LEMMA ClipRange ==
  ASSUME NEW p \in 0 .. TOTAL - 1, NEW n \in Nat
  PROVE  Clip(p, n) \in Nat /\ Clip(p, n) + p < TOTAL
BY W25q32Assumption DEF Clip

\* What a new call consists of.
LEMMA NewCallFields ==
  ASSUME NEW o \in {"read", "write", "llseek"}, NEW f \in Files, NEW p \in Int, NEW n \in Int
  PROVE  LET c == NewCall(o, f, p, n) IN
         /\ c \in Calls
         /\ c.op = o /\ c.file = f /\ c.pos = p /\ c.asked = n /\ c.err = "OK"
         /\ c.count = Clip(p, n) /\ c.left = Clip(p, n) /\ c.index = 0 /\ c.pieces = 0
         /\ c.offset = Window(p) % PAGE /\ c.addr = Window(p) /\ c.wren = FALSE
<1>1. Clip(p, n) \in Int
  BY W25q32Assumption DEF Clip
<1>2. Window(p) \in Int /\ Window(p) % PAGE \in Int
  BY WindowRange
<1>3. QED
  BY <1>1, <1>2 DEF NewCall, Calls

\* A piece goes from what has been sent to the end of the page or of the data.
LEMMA PieceRange ==
  ASSUME NEW c \in Calls, PiecesOK(c), c.count \in Nat
  PROVE  /\ Piece(c) \in 0 .. c.left
         /\ Rolls(c) => Piece(c) \in 1 .. PAGE /\ Piece(c) < c.left
         /\ ~Rolls(c) => Piece(c) = c.left
BY W25q32Assumption DEF PiecesOK, Piece, Rolls, Calls

\* The bookkeeping after a piece that does not fit the page.
LEMMA AdvancedOK ==
  ASSUME NEW c \in Calls, PiecesOK(c), c.count \in Nat, c.addr \in 0 .. WINDOW - 1
  PROVE  /\ Advanced(c) \in Calls
         /\ Advanced(c).addr \in 0 .. WINDOW - 1
         /\ Advanced(c).op = c.op /\ Advanced(c).file = c.file /\ Advanced(c).pos = c.pos
         /\ Advanced(c).asked = c.asked /\ Advanced(c).count = c.count
         /\ Advanced(c).err = c.err
         /\ Rolls(c) => PiecesOK(Advanced(c))
<1>1. Piece(c) \in Int /\ NextIndex(c) \in Int
  BY PieceRange DEF Calls, NextIndex
<1>2. Window(c.addr + Piece(c)) \in 0 .. WINDOW - 1
  BY <1>1, WindowRange
<1>3. /\ Advanced(c) \in Calls
      /\ Advanced(c).addr \in 0 .. WINDOW - 1
      /\ Advanced(c).op = c.op /\ Advanced(c).file = c.file /\ Advanced(c).pos = c.pos
      /\ Advanced(c).asked = c.asked /\ Advanced(c).count = c.count
      /\ Advanced(c).err = c.err
  <2> DEFINE addr == Window(c.addr + Piece(c))
             left == c.left - Piece(c)
             index == IF Rolls(c) THEN NextIndex(c) ELSE c.index
             offset == IF Rolls(c) THEN 0 ELSE c.offset
  <2>1. /\ addr \in Int /\ left \in Int /\ index \in Int /\ offset \in Int
        /\ c.pieces + 1 \in Nat
    BY <1>1, <1>2 DEF Calls
  <2>2. Advanced(c) = [c EXCEPT !.addr = addr, !.left = left, !.index = index,
                         !.offset = offset, !.pieces = c.pieces + 1, !.wren = FALSE]
    BY DEF Advanced, Calls
  <2>3. Advanced(c).addr \in 0 .. WINDOW - 1
    BY <1>2, <2>2 DEF Calls
  <2> HIDE DEF addr, left, index, offset
  <2>4. Advanced(c) \in Calls
    <3> DEFINE c1 == [c EXCEPT !.addr = addr, !.left = left]
               c2 == [c1 EXCEPT !.index = index, !.offset = offset]
    <3>1. c1 \in Calls
      BY <2>1 DEF Calls
    <3> HIDE DEF c1
    <3>2. c2 \in Calls
      BY <2>1, <3>1 DEF Calls
    <3> HIDE DEF c2
    <3>3. [c2 EXCEPT !.pieces = c.pieces + 1, !.wren = FALSE] \in Calls
      BY <2>1, <3>2 DEF Calls
    <3>4. Advanced(c) = [c2 EXCEPT !.pieces = c.pieces + 1, !.wren = FALSE]
      BY <2>2 DEF c1, c2, Calls
    <3>5. QED
      BY <3>3, <3>4
  <2>5. /\ Advanced(c).op = c.op /\ Advanced(c).file = c.file /\ Advanced(c).pos = c.pos
        /\ Advanced(c).asked = c.asked /\ Advanced(c).count = c.count
        /\ Advanced(c).err = c.err
    BY <2>2 DEF Calls
  <2>6. QED
    BY <2>3, <2>4, <2>5
<1>4. ASSUME Rolls(c) PROVE PiecesOK(Advanced(c))
  <2>1. /\ Advanced(c).left = c.left - Piece(c) /\ Advanced(c).index = Piece(c)
        /\ Advanced(c).offset = 0 /\ Advanced(c).pieces = c.pieces + 1
    BY <1>4 DEF Advanced, Calls, NextIndex
  <2>2. Piece(c) = PAGE - c.offset /\ Piece(c) \in 1 .. PAGE /\ Piece(c) < c.left
    BY <1>4, PieceRange DEF Piece
  <2>3. QED
    BY <1>3, <2>1, <2>2, W25q32Assumption DEF PiecesOK, Calls
<1>5. QED
  BY <1>3, <1>4

-----------------------------------------------------------------------------
(* Types, positions and pieces.                                            *)

\* A step of t leaves the calls and buffers of the others alone.
LEMMA OthersKeep ==
  ASSUME TypeOK, NEW t \in Threads, Start(t) \/ Proceed(t)
  PROVE  \A s \in Threads \ {t} :
           pc'[s] = pc[s] /\ call'[s] = call[s] /\ (s \in buffers' <=> s \in buffers)
<1>1. ASSUME Start(t)
      PROVE  \A s \in Threads \ {t} :
               pc'[s] = pc[s] /\ call'[s] = call[s] /\ (s \in buffers' <=> s \in buffers)
  BY <1>1 DEF Start, driver_read, driver_write, driver_llseek, Goto, TypeOK
<1>2. ASSUME Proceed(t)
      PROVE  \A s \in Threads \ {t} :
               pc'[s] = pc[s] /\ call'[s] = call[s] /\ (s \in buffers' <=> s \in buffers)
  BY <1>2 DEF Proceed, driver_llseek_set, vfs_return, read_transfer, w25q32_check_busy,
     write_enable, send_piece, Goto, Forget, Fault, TypeOK
<1>3. QED
  BY <1>1, <1>2

\* The invariant of the calls depends on nothing but pc and call.
LEMMA CallOKFrame ==
  ASSUME NEW s \in Threads, CallOK(s), pc'[s] = pc[s], call'[s] = call[s]
  PROVE  CallOK(s)'
BY DEF CallOK, PiecesOK

\* So a step of t preserves it if it preserves the types and t's own part.
LEMMA CallInvStep ==
  ASSUME CallInv, NEW t \in Threads, Start(t) \/ Proceed(t), TypeOK', CallOK(t)'
  PROVE  CallInv'
<1>1. \A s \in Threads \ {t} : CallOK(s)'
  BY OthersKeep, CallOKFrame DEF CallInv
<1>2. QED
  BY <1>1 DEF CallInv

\* The call of t that a failure leaves.
LEMMA FaultOK ==
  ASSUME TypeOK, NEW t \in Threads, Fault(t)
  PROVE  /\ call' \in [Threads -> Calls] /\ pc' = [pc EXCEPT ![t] = "ret"]
         /\ call'[t].err = "EFAULT" /\ call'[t].op = call[t].op
         /\ CallOK(t)'
<1>1. call[t].op \in {"read", "write", "llseek"} /\ call[t].file \in Files /\ 0 \in Int
  BY DEF TypeOK, Calls
<1>2. NewCall(call[t].op, call[t].file, 0, 0) \in Calls
  BY <1>1, NewCallFields, Zenon
<1>3. NewCall(call[t].op, call[t].file, 0, 0).op = call[t].op
  BY DEF NewCall
<1> DEFINE new == [NewCall(call[t].op, call[t].file, 0, 0) EXCEPT !.err = "EFAULT"]
<1>4. new \in Calls /\ new.err = "EFAULT" /\ new.op = call[t].op
  BY <1>2, <1>3 DEF Calls
<1>5. call' = [call EXCEPT ![t] = new] /\ pc' = [pc EXCEPT ![t] = "ret"]
  BY DEF Fault, Goto
<1> HIDE DEF new
<1>6. call' \in [Threads -> Calls] /\ call'[t] = new /\ pc'[t] = "ret"
  BY <1>4, <1>5 DEF TypeOK
<1>7. CallOK(t)'
  BY <1>4, <1>6 DEF CallOK, Transfers
<1>8. QED
  BY <1>4, <1>5, <1>6, <1>7

\* The call of t when it is over.
LEMMA ForgetOK ==
  ASSUME TypeOK, NEW t \in Threads, Forget(t)
  PROVE  /\ call' \in [Threads -> Calls] /\ call'[t].file = call[t].file
         /\ call'[t].err = "OK"
<1>1. call[t].file \in Files /\ 0 \in Int
  BY DEF TypeOK, Calls
<1>2. NewCall("read", call[t].file, 0, 0) \in Calls
  BY <1>1, NewCallFields, Zenon
<1>3. /\ NewCall("read", call[t].file, 0, 0).file = call[t].file
      /\ NewCall("read", call[t].file, 0, 0).err = "OK"
  BY DEF NewCall
<1>4. QED
  BY <1>2, <1>3 DEF Forget, TypeOK

\* A transfer that begins within the flash begins with nothing sent.
LEMMA NewTransfer ==
  ASSUME NEW o \in {"read", "write"}, NEW f \in Files, NEW p \in 0 .. TOTAL - 1,
         NEW n \in Counts
  PROVE  LET c == NewCall(o, f, p, n) IN
         /\ c \in Calls
         /\ c.op = o /\ c.file = f /\ c.err = "OK" /\ c.pos = p /\ c.asked = n
         /\ c.count = Clip(p, n) /\ c.addr \in 0 .. WINDOW - 1 /\ PiecesOK(c)
<1>1. p \in Int /\ n \in Nat /\ n \in Int
  BY W25q32Assumption
<1>2. NewCall(o, f, p, n) \in Calls
  BY <1>1, NewCallFields, Zenon
<1>3. Clip(p, n) \in Nat
  BY <1>1, ClipRange
<1>4. Window(p) \in 0 .. WINDOW - 1 /\ Window(p) % PAGE \in 0 .. PAGE - 1
  BY <1>1, WindowRange
<1>5. QED
  BY <1>2, <1>3, <1>4 DEF NewCall, PiecesOK

\* The beginning of a read or a write.
LEMMA TransferStarts ==
  ASSUME CallInv, NEW t \in Threads, NEW f \in Files, NEW n \in Counts,
         driver_read(t, f, n) \/ driver_write(t, f, n)
  PROVE  TypeOK' /\ CallOK(t)'
<1>1. PICK o \in {"read", "write"} :
        LET new == NewCall(o, f, f_pos[f], n) IN
        \/ call' = [call EXCEPT ![t] = new] /\ pc' = [pc EXCEPT ![t] = "busy"]
        \/ \E e \in {"ENOMEM", "EFAULT"} :
             /\ call' = [call EXCEPT ![t] = [new EXCEPT !.err = e]]
             /\ pc' = [pc EXCEPT ![t] = "ret"]
        \/ call' = call /\ pc' = [pc EXCEPT ![t] = "oops"]
  BY DEF driver_read, driver_write, Goto
<1> DEFINE new == NewCall(o, f, f_pos[f], n)
<1>2. f_pos[f] \in 0 .. TOTAL - 1
  BY DEF CallInv, TypeOK
<1>3. /\ new \in Calls
      /\ new.op = o /\ new.file = f /\ new.err = "OK" /\ new.pos = f_pos[f] /\ new.asked = n
      /\ new.count = Clip(f_pos[f], n) /\ new.addr \in 0 .. WINDOW - 1 /\ PiecesOK(new)
  BY <1>2, NewTransfer
<1> HIDE DEF new
<1>4. /\ f_pos' = f_pos /\ bus' = bus /\ chip' = chip /\ raced' = raced /\ sought' = sought
      /\ buffers' \subseteq Threads
  BY DEF driver_read, driver_write, CallInv, TypeOK
<1>5. CASE call' = [call EXCEPT ![t] = new] /\ pc' = [pc EXCEPT ![t] = "busy"]
  <2>1. TypeOK'
    BY <1>3, <1>4, <1>5 DEF CallInv, TypeOK
  <2>2. call'[t] = new /\ pc'[t] = "busy"
    BY <1>5 DEF CallInv, TypeOK
  <2>3. CallOK(t)'
    BY <1>2, <1>3, <2>2 DEF CallOK, Transfers, PiecesOK
  <2>4. QED
    BY <2>1, <2>3
<1>6. ASSUME NEW e \in {"ENOMEM", "EFAULT"},
             call' = [call EXCEPT ![t] = [new EXCEPT !.err = e]],
             pc' = [pc EXCEPT ![t] = "ret"]
      PROVE  TypeOK' /\ CallOK(t)'
  <2>1. [new EXCEPT !.err = e] \in Calls /\ [new EXCEPT !.err = e].err = e
    BY <1>3 DEF Calls
  <2>2. TypeOK'
    BY <1>4, <1>6, <2>1 DEF CallInv, TypeOK
  <2>3. call'[t].err = e /\ pc'[t] = "ret"
    BY <1>6, <2>1 DEF CallInv, TypeOK
  <2>4. CallOK(t)'
    BY <2>3 DEF CallOK, Transfers
  <2>5. QED
    BY <2>2, <2>4
<1>7. CASE call' = call /\ pc' = [pc EXCEPT ![t] = "oops"]
  <2>1. TypeOK'
    BY <1>4, <1>7 DEF CallInv, TypeOK
  <2>2. pc'[t] = "oops"
    BY <1>7 DEF CallInv, TypeOK
  <2>3. CallOK(t)'
    BY <2>2 DEF CallOK, Transfers
  <2>4. QED
    BY <2>1, <2>3
<1>8. QED
  BY <1>1, <1>5, <1>6, <1>7 DEF new

\* lseek: only a target within the flash is stored.
LEMMA SeekStarts ==
  ASSUME CallInv, NEW t \in Threads, NEW f \in Files, NEW offset \in Offsets,
         NEW whence \in {"SEEK_SET", "SEEK_CUR", "SEEK_END"},
         driver_llseek(t, f, offset, whence)
  PROVE  TypeOK' /\ CallOK(t)'
<1> DEFINE temp == SeekTarget(f, offset, whence)
           new == NewCall("llseek", f, temp, 0)
<1>1. temp \in Int
  BY W25q32Assumption DEF SeekTarget, CallInv, TypeOK
<1>2. \/ /\ call' = [call EXCEPT ![t] = [new EXCEPT !.err = "EINVAL"]]
         /\ pc' = [pc EXCEPT ![t] = "ret"]
      \/ /\ call' = [call EXCEPT ![t] = new] /\ pc' = [pc EXCEPT ![t] = "seek"]
         /\ ~SeekRefused(temp)
  BY DEF driver_llseek, Goto
<1>3. UNCHANGED <<f_pos, buffers, bus, chip, raced, sought>>
  BY DEF driver_llseek
<1>4. 0 \in Int /\ "llseek" \in {"read", "write", "llseek"}
  OBVIOUS
<1> HIDE DEF temp
<1>5. new \in Calls
  BY <1>1, <1>4, NewCallFields, Zenon
<1>6. new.op = "llseek" /\ new.pos = temp /\ new.err = "OK"
  BY DEF NewCall
<1> HIDE DEF new
<1>7. [new EXCEPT !.err = "EINVAL"] \in Calls /\ [new EXCEPT !.err = "EINVAL"].err = "EINVAL"
  BY <1>5 DEF Calls
<1>8. TypeOK'
  BY <1>2, <1>3, <1>5, <1>7 DEF CallInv, TypeOK
<1>9. \/ call'[t] = [new EXCEPT !.err = "EINVAL"] /\ pc'[t] = "ret"
      \/ call'[t] = new /\ pc'[t] = "seek" /\ ~SeekRefused(temp)
  BY <1>2 DEF CallInv, TypeOK
<1>10. ~SeekRefused(temp) => temp \in 0 .. TOTAL - 1
  BY <1>1, W25q32Assumption DEF SeekRefused
<1>11. CallOK(t)'
  BY <1>6, <1>7, <1>9, <1>10 DEF CallOK, Transfers
<1>12. QED
  BY <1>8, <1>11

\* Storing the target of an lseek, and returning from a call.
LEMMA PositionSteps ==
  ASSUME CallInv, NEW t \in Threads, driver_llseek_set(t) \/ vfs_return(t)
  PROVE  TypeOK' /\ CallOK(t)'
<1>1. call[t].file \in Files
  BY DEF CallInv, TypeOK, Calls
<1>2. CASE driver_llseek_set(t)
  <2>1. call[t].pos \in 0 .. TOTAL - 1 /\ call[t].op = "llseek"
    BY <1>2 DEF driver_llseek_set, CallInv, CallOK
  <2>2. TypeOK'
    BY <1>1, <1>2, <2>1 DEF driver_llseek_set, Goto, CallInv, TypeOK
  <2>3. pc'[t] = "ret" /\ call'[t] = call[t]
    BY <1>2 DEF driver_llseek_set, Goto, CallInv, TypeOK
  <2>4. CallOK(t)'
    BY <2>1, <2>3 DEF CallOK, Transfers
  <2>5. QED
    BY <2>2, <2>4
<1>3. CASE vfs_return(t)
  <2>1. call[t].op # "llseek" /\ call[t].err = "OK" => call[t].pos \in 0 .. TOTAL - 1
    BY <1>3 DEF vfs_return, CallInv, CallOK
  <2>2. call' \in [Threads -> Calls]
    BY <1>3, ForgetOK DEF vfs_return, CallInv
  <2>3. f_pos' \in [Files -> 0 .. TOTAL - 1]
    BY <1>1, <1>3, <2>1 DEF vfs_return, CallInv, TypeOK
  <2>4. TypeOK'
    BY <1>3, <2>2, <2>3 DEF vfs_return, Goto, CallInv, TypeOK
  <2>5. pc'[t] = "idle"
    BY <1>3 DEF vfs_return, Goto, CallInv, TypeOK
  <2>6. CallOK(t)'
    BY <2>5 DEF CallOK, Transfers
  <2>7. QED
    BY <2>4, <2>6
<1>4. QED
  BY <1>2, <1>3

\* Waiting for the chip, and enabling writing.
LEMMA ChipSteps ==
  ASSUME CallInv, NEW t \in Threads, w25q32_check_busy(t) \/ write_enable(t)
  PROVE  TypeOK' /\ CallOK(t)'
<1>1. call[t] \in Calls
  BY DEF CallInv, TypeOK
<1>2. CASE w25q32_check_busy(t)
  <2>1. TypeOK'
    BY <1>2 DEF w25q32_check_busy, Goto, CallInv, TypeOK
  <2>2. /\ call'[t] = call[t] /\ pc[t] = "busy"
        /\ pc'[t] = IF call[t].op = "read" THEN "xfer" ELSE "wren"
    BY <1>2 DEF w25q32_check_busy, Goto, CallInv, TypeOK
  <2>3. CallOK(t)'
    BY <2>2 DEF CallInv, CallOK, Transfers, PiecesOK
  <2>4. QED
    BY <2>1, <2>3
<1>3. CASE write_enable(t)
  <2>1. /\ pc[t] = "wren" /\ pc' = [pc EXCEPT ![t] = "send"]
        /\ call' = [call EXCEPT ![t] = [call[t] EXCEPT !.wren = (bus = "up")]]
    BY <1>3 DEF write_enable, Goto, CallInv, TypeOK
  <2>2. [call[t] EXCEPT !.wren = (bus = "up")] \in Calls
    BY <1>1 DEF Calls
  <2>3. chip' \in Chips
    BY <1>3 DEF write_enable, CallInv, TypeOK, Chips
  <2>4. TypeOK'
    BY <1>3, <2>1, <2>2, <2>3 DEF write_enable, CallInv, TypeOK
  <2>5. pc'[t] = "send" /\ call'[t] = [call[t] EXCEPT !.wren = (bus = "up")]
    BY <2>1 DEF CallInv, TypeOK
  <2>6. CallOK(t)'
    BY <1>1, <2>1, <2>5 DEF CallInv, CallOK, Transfers, PiecesOK, Calls
  <2>7. QED
    BY <2>4, <2>6
<1>4. QED
  BY <1>2, <1>3

\* The transfer of a read: the new position is that of a byte of the flash.
LEMMA ReadStep ==
  ASSUME CallInv, NEW t \in Threads, read_transfer(t)
  PROVE  TypeOK' /\ CallOK(t)'
<1>1. call[t] \in Calls /\ CallOK(t) /\ pc[t] = "xfer"
  BY DEF CallInv, TypeOK, read_transfer
<1>2. /\ UNCHANGED <<f_pos, bus, sought>> /\ buffers' \subseteq Threads
      /\ raced' \subseteq Threads /\ chip' \in Chips
  BY DEF read_transfer, Instruction, Chips, Raced, CallInv, TypeOK
<1>3. CASE Fault(t)
  <2>1. /\ call' \in [Threads -> Calls] /\ pc' = [pc EXCEPT ![t] = "ret"]
        /\ CallOK(t)'
    BY <1>3, FaultOK DEF CallInv
  <2>2. QED
    BY <1>2, <2>1 DEF CallInv, TypeOK
<1>4. CASE /\ call' = [call EXCEPT ![t].pos = Window(@) + call[t].count]
           /\ Goto(t, "ret")
  <2> DEFINE new == [call[t] EXCEPT !.pos = Window(call[t].pos) + call[t].count]
  <2>1. /\ call[t].pos \in 0 .. TOTAL - 1 /\ call[t].asked \in Nat
        /\ call[t].count = Clip(call[t].pos, call[t].asked)
    BY <1>1, W25q32Assumption DEF CallOK, Transfers
  <2>2. call[t].count \in Nat /\ call[t].count + call[t].pos < TOTAL
    BY <2>1, ClipRange
  <2>3. Window(call[t].pos) \in 0 .. call[t].pos
    BY <2>1, WindowRange, W25q32Assumption
  <2>4. Window(call[t].pos) + call[t].count \in 0 .. TOTAL - 1
    BY <2>1, <2>2, <2>3, W25q32Assumption
  <2>5. new \in Calls /\ new.pos \in 0 .. TOTAL - 1
    BY <1>1, <2>4, W25q32Assumption DEF Calls
  <2>6. call' = [call EXCEPT ![t] = new] /\ pc' = [pc EXCEPT ![t] = "ret"]
    BY <1>4 DEF Goto, CallInv, TypeOK
  <2> HIDE DEF new
  <2>7. TypeOK'
    BY <1>2, <2>5, <2>6 DEF CallInv, TypeOK
  <2>8. call'[t] = new /\ pc'[t] = "ret"
    BY <2>6 DEF CallInv, TypeOK
  <2>9. CallOK(t)'
    BY <2>5, <2>8 DEF CallOK, Transfers
  <2>10. QED
    BY <2>7, <2>9
<1>5. QED
  BY <1>3, <1>4 DEF read_transfer

\* Sending a piece.
LEMMA SendStep ==
  ASSUME CallInv, NEW t \in Threads, send_piece(t)
  PROVE  TypeOK' /\ CallOK(t)'
<1> DEFINE c == call[t]
<1>1. c \in Calls /\ CallOK(t) /\ pc[t] = "send"
  BY DEF CallInv, TypeOK, send_piece
<1>2. /\ UNCHANGED <<f_pos, bus, sought>> /\ buffers' \subseteq Threads
      /\ raced' \subseteq Threads /\ chip' \in Chips
  BY DEF send_piece, Instruction, Chips, Raced, CallInv, TypeOK
<1>3. /\ c.op = "write" /\ c.err = "OK" /\ c.pos \in 0 .. TOTAL - 1 /\ c.asked \in Counts
      /\ c.count = Clip(c.pos, c.asked) /\ c.addr \in 0 .. WINDOW - 1 /\ PiecesOK(c)
  BY <1>1 DEF CallOK, Transfers
<1>4. c.count \in Nat
  BY <1>3, ClipRange, W25q32Assumption
<1>5. /\ Advanced(c) \in Calls
      /\ Advanced(c).addr \in 0 .. WINDOW - 1
      /\ Advanced(c).op = c.op /\ Advanced(c).pos = c.pos
      /\ Advanced(c).asked = c.asked /\ Advanced(c).count = c.count
      /\ Advanced(c).err = c.err
      /\ Rolls(c) => PiecesOK(Advanced(c))
  BY <1>1, <1>3, <1>4, AdvancedOK
<1>6. CASE Fault(t)
  <2>1. /\ call' \in [Threads -> Calls] /\ pc' = [pc EXCEPT ![t] = "ret"]
        /\ CallOK(t)'
    BY <1>6, FaultOK DEF CallInv
  <2>2. QED
    BY <1>2, <2>1 DEF CallInv, TypeOK
<1>7. CASE Rolls(c) /\ call' = [call EXCEPT ![t] = Advanced(c)] /\ Goto(t, "busy")
  <2>1. TypeOK'
    BY <1>2, <1>5, <1>7 DEF Goto, CallInv, TypeOK
  <2>2. call'[t] = Advanced(c) /\ pc'[t] = "busy"
    BY <1>7 DEF Goto, CallInv, TypeOK
  <2>3. CallOK(t)'
    BY <1>3, <1>5, <1>7, <2>2 DEF CallOK, Transfers, PiecesOK
  <2>4. QED
    BY <2>1, <2>3
<1>8. CASE Forget(t) /\ Goto(t, "oops")
  <2>1. call' \in [Threads -> Calls]
    BY <1>8, ForgetOK DEF CallInv
  <2>2. TypeOK' /\ pc'[t] = "oops"
    BY <1>2, <1>8, <2>1 DEF Goto, CallInv, TypeOK
  <2>3. CallOK(t)'
    BY <2>2 DEF CallOK, Transfers
  <2>4. QED
    BY <2>2, <2>3
<1>9. CASE /\ call' = [call EXCEPT ![t] =
                [Advanced(c) EXCEPT !.pos = Window(@) + Advanced(c).addr]]
           /\ Goto(t, "ret")
  <2> DEFINE new == [Advanced(c) EXCEPT !.pos = Window(c.pos) + Advanced(c).addr]
  <2>1. Window(c.pos) \in 0 .. WINDOW - 1
    BY <1>3, WindowRange, W25q32Assumption
  <2>2. Window(c.pos) + Advanced(c).addr \in 0 .. TOTAL - 1
    BY <1>5, <2>1, W25q32Assumption
  <2>3. new \in Calls /\ new.pos \in 0 .. TOTAL - 1
    BY <1>5, <2>2, W25q32Assumption DEF Calls
  <2>4. call' = [call EXCEPT ![t] = new] /\ pc' = [pc EXCEPT ![t] = "ret"]
    BY <1>5, <1>9 DEF Goto, Calls
  <2> HIDE DEF new
  <2>5. TypeOK' /\ call'[t] = new /\ pc'[t] = "ret"
    BY <1>2, <2>3, <2>4 DEF CallInv, TypeOK
  <2>6. CallOK(t)'
    BY <2>3, <2>5 DEF CallOK, Transfers
  <2>7. QED
    BY <2>5, <2>6
<1>10. QED
  BY <1>6, <1>7, <1>8, <1>9 DEF send_piece

\* Every step of a thread preserves the invariant.
LEMMA ThreadStep ==
  ASSUME CallInv, NEW t \in Threads, Start(t) \/ Proceed(t)
  PROVE  CallInv'
<1>1. TypeOK' /\ CallOK(t)'
  BY TransferStarts, SeekStarts, PositionSteps, ChipSteps, ReadStep, SendStep
     DEF Start, Proceed
<1>2. QED
  BY <1>1, CallInvStep

\* So does every other step.
LEMMA OtherStep ==
  ASSUME CallInv,
         (\E f \in Files : driver_open(f)) \/ bus_changes \/ chip_ready \/ UNCHANGED vars
  PROVE  CallInv' /\ pc' = pc /\ call' = call /\ buffers' = buffers
<1>1. pc' = pc /\ call' = call /\ buffers' = buffers
  BY DEF driver_open, bus_changes, chip_ready, vars
<1>2. f_pos' \in [Files -> 0 .. TOTAL - 1]
  BY W25q32Assumption DEF driver_open, bus_changes, chip_ready, vars, CallInv, TypeOK
<1>3. /\ chip' \in Chips /\ bus' \in {"up", "down"}
      /\ raced' = raced /\ sought' \subseteq Files
  <2>1. [busy |-> FALSE, wel |-> FALSE, down |-> FALSE] \in Chips
    BY DEF Chips
  <2>2. chip' \in {chip, [busy |-> FALSE, wel |-> FALSE, down |-> FALSE]}
    BY DEF driver_open, bus_changes, chip_ready, vars
  <2>3. chip \in Chips
    BY DEF CallInv, TypeOK
  <2>4. bus' \in {"up", "down"} /\ raced' = raced /\ sought' \subseteq Files
    BY DEF driver_open, bus_changes, chip_ready, vars, CallInv, TypeOK
  <2>5. QED
    BY <2>1, <2>2, <2>3, <2>4
<1>4. TypeOK'
  BY <1>1, <1>2, <1>3 DEF CallInv, TypeOK
<1>5. \A t \in Threads : CallOK(t)'
  BY <1>1, CallOKFrame DEF CallInv
<1>6. QED
  BY <1>1, <1>4, <1>5 DEF CallInv

\* The driver starts with no call and every position 0.
LEMMA CallInvInit == Init => CallInv
<1> SUFFICES ASSUME Init PROVE CallInv
  OBVIOUS
<1>1. "read" \in {"read", "write", "llseek"} /\ 0 \in Int
  OBVIOUS
<1>2. \A f \in Files : NewCall("read", f, 0, 0) \in Calls
  BY <1>1, NewCallFields, Zenon
<1>3. TypeOK
  BY <1>2, W25q32Assumption DEF Init, TypeOK, Chips
<1>4. \A t \in Threads : CallOK(t)
  BY DEF Init, CallOK, Transfers
<1>5. QED
  BY <1>3, <1>4 DEF CallInv

\* Every step preserves the invariant.
LEMMA CallInvNext == CallInv /\ [Next]_vars => CallInv'
BY ThreadStep, OtherStep DEF Next

\* The invariant of the calls holds throughout.
THEOREM CallInvHolds == Spec => []CallInv
BY CallInvInit, CallInvNext, PTL DEF Spec

\* The types are as declared: every position that driver_read, driver_write or
\* driver_llseek leaves is that of a byte of the flash.
THEOREM TypesCorrect == Spec => []TypeOK
<1>1. CallInv => TypeOK
  BY DEF CallInv
<1>2. QED
  BY <1>1, CallInvHolds, PTL

(***************************************************************************)
(* No piece, and no command of a next piece, reaches beyond txbuff,        *)
(* whatever the count, the position and the sizes.                         *)
(***************************************************************************)
THEOREM BufferCorrect == Spec => []PiecesInBuffer
<1>1. CallInv => PiecesInBuffer
  <2> SUFFICES ASSUME CallInv, NEW t \in Threads, pc[t] = "send"
               PROVE  LET c == call[t] IN
                      /\ c.index >= 0 /\ Piece(c) >= 0
                      /\ c.index + Piece(c) + 4 <= c.count + 4
                      /\ Rolls(c) => NextIndex(c) + 3 < c.count + 4
    BY DEF PiecesInBuffer
  <2> DEFINE c == call[t]
  <2>1. /\ c \in Calls /\ PiecesOK(c) /\ c.pos \in 0 .. TOTAL - 1
        /\ c.asked \in Counts /\ c.count = Clip(c.pos, c.asked)
    BY DEF CallInv, TypeOK, CallOK, Transfers
  <2>2. c.count \in Nat
    BY <2>1, ClipRange, W25q32Assumption
  <2>3. /\ Piece(c) \in 0 .. c.left
        /\ Rolls(c) => Piece(c) \in 1 .. PAGE /\ Piece(c) < c.left
    BY <2>1, <2>2, PieceRange
  <2>4. QED
    BY <2>1, <2>2, <2>3, W25q32Assumption DEF PiecesOK, NextIndex, Calls
<1>2. QED
  BY <1>1, CallInvHolds, PTL

(***************************************************************************)
(* The first two pieces send the bytes in order; from the third piece on   *)
(* tmp_index is the page size, and lies behind what has been sent.         *)
(***************************************************************************)
THEOREM OrderCorrect == Spec => []PiecesInOrder
<1>1. CallInv => PiecesInOrder
  <2> SUFFICES ASSUME CallInv, NEW t \in Threads, pc[t] = "send"
               PROVE  LET sent == call[t].count - call[t].left IN
                      /\ call[t].pieces < 2 => call[t].index = sent
                      /\ call[t].pieces >= 2 => call[t].index = PAGE /\ call[t].index < sent
    BY DEF PiecesInOrder
  <2>1. call[t] \in Calls /\ PiecesOK(call[t])
    BY DEF CallInv, TypeOK, CallOK, Transfers
  <2>2. QED
    BY <2>1, W25q32Assumption DEF PiecesOK, Calls
<1>2. QED
  BY <1>1, CallInvHolds, PTL

-----------------------------------------------------------------------------
(* The buffers.                                                            *)

\* Which calls have a buffer.
BufferOK(t) ==
  /\ pc[t] \in {"idle", "seek"} => t \notin buffers
  /\ pc[t] \in Transfers => t \in buffers
  /\ pc[t] = "ret" => (t \in buffers <=> call[t].err = "EFAULT")

BufferInv == \A t \in Threads : BufferOK(t)

\* A step of t preserves what BufferInv says of t.
LEMMA BufferStep ==
  ASSUME CallInv, BufferInv, NEW t \in Threads, Start(t) \/ Proceed(t)
  PROVE  BufferOK(t)'
<1>1. /\ BufferOK(t) /\ CallOK(t) /\ call[t] \in Calls /\ call \in [Threads -> Calls]
      /\ pc \in [Threads -> Transfers \cup {"idle", "seek", "ret", "oops"}] /\ TypeOK
  BY DEF BufferInv, CallInv, TypeOK, Transfers
<1>2. ASSUME NEW f \in Files, NEW n \in Counts, driver_read(t, f, n) \/ driver_write(t, f, n)
      PROVE  BufferOK(t)'
  <2> DEFINE rd == NewCall("read", f, f_pos[f], n)
             wr == NewCall("write", f, f_pos[f], n)
  <2>1. /\ [rd EXCEPT !.err = "ENOMEM"].err = "ENOMEM"
        /\ [wr EXCEPT !.err = "ENOMEM"].err = "ENOMEM"
        /\ [wr EXCEPT !.err = "EFAULT"].err = "EFAULT"
    BY DEF NewCall
  <2> HIDE DEF rd, wr
  <2>2. CASE driver_read(t, f, n)
    BY <1>1, <2>1, <2>2 DEF driver_read, Goto, BufferOK, Transfers, rd
  <2>3. CASE driver_write(t, f, n)
    BY <1>1, <2>1, <2>3 DEF driver_write, Goto, BufferOK, Transfers, wr
  <2>4. QED
    BY <1>2, <2>2, <2>3
<1>3. ASSUME NEW f \in Files, NEW offset \in Offsets,
             NEW whence \in {"SEEK_SET", "SEEK_CUR", "SEEK_END"},
             driver_llseek(t, f, offset, whence)
      PROVE  BufferOK(t)'
  <2> DEFINE new == NewCall("llseek", f, SeekTarget(f, offset, whence), 0)
  <2>1. [new EXCEPT !.err = "EINVAL"].err = "EINVAL"
    BY DEF NewCall
  <2> HIDE DEF new
  <2>2. QED
    BY <1>1, <1>3, <2>1 DEF driver_llseek, Goto, BufferOK, Transfers, new
<1>4. ASSUME Fault(t), buffers' = buffers, pc[t] \in Transfers PROVE BufferOK(t)'
  <2>1. call'[t].err = "EFAULT" /\ pc'[t] = "ret"
    BY <1>1, <1>4, FaultOK
  <2>2. QED
    BY <1>1, <1>4, <2>1 DEF BufferOK, Transfers
<1>5. CASE driver_llseek_set(t) \/ vfs_return(t) \/ w25q32_check_busy(t)
  BY <1>1, <1>5 DEF driver_llseek_set, vfs_return, w25q32_check_busy, Goto, BufferOK,
     Transfers, CallOK
<1>6. CASE write_enable(t)
  BY <1>1, <1>6 DEF write_enable, Goto, BufferOK, Transfers
<1>7. CASE read_transfer(t)
  <2>1. ASSUME call' = [call EXCEPT ![t].pos = Window(@) + call[t].count],
               Goto(t, "ret"), buffers' = buffers \ {t}
        PROVE  BufferOK(t)'
    <3>1. call'[t].err = call[t].err /\ pc'[t] = "ret"
      BY <1>1, <2>1 DEF Goto, Calls
    <3>2. call[t].err = "OK"
      BY <1>1, <1>7 DEF read_transfer, CallOK, Transfers
    <3>3. QED
      BY <2>1, <3>1, <3>2 DEF BufferOK, Transfers
  <2>2. QED
    BY <1>4, <1>7, <2>1 DEF read_transfer, Transfers
<1>8. CASE send_piece(t)
  <2> DEFINE c == call[t]
  <2>1. /\ c.op = "write" /\ c.err = "OK" /\ c.pos \in 0 .. TOTAL - 1 /\ c.asked \in Counts
        /\ c.count = Clip(c.pos, c.asked) /\ c.addr \in 0 .. WINDOW - 1 /\ PiecesOK(c)
    BY <1>1, <1>8 DEF send_piece, CallOK, Transfers
  <2>2. Advanced(c) \in Calls /\ Advanced(c).err = "OK"
    BY <1>1, <2>1, ClipRange, AdvancedOK, W25q32Assumption
  <2>3. CASE buffers' = buffers /\ (Goto(t, "busy") \/ Goto(t, "oops"))
    BY <1>1, <1>8, <2>3 DEF send_piece, Goto, BufferOK, Transfers
  <2>4. ASSUME call' = [call EXCEPT ![t] =
                 [Advanced(c) EXCEPT !.pos = Window(@) + Advanced(c).addr]],
               Goto(t, "ret"), buffers' = buffers \ {t}
        PROVE  BufferOK(t)'
    <3>1. call'[t].err = "OK" /\ pc'[t] = "ret"
      BY <1>1, <2>2, <2>4 DEF Goto, Calls
    <3>2. QED
      BY <2>4, <3>1 DEF BufferOK, Transfers
  <2>5. QED
    BY <1>4, <1>8, <2>3, <2>4 DEF send_piece, Transfers
<1>9. QED
  BY <1>2, <1>3, <1>5, <1>6, <1>7, <1>8 DEF Start, Proceed

\* Which calls have a buffer is as BufferInv says throughout.
LEMMA BufferInvNext == CallInv /\ BufferInv /\ [Next]_vars => BufferInv'
<1> SUFFICES ASSUME CallInv, BufferInv, [Next]_vars PROVE BufferInv'
  OBVIOUS
<1>1. ASSUME NEW t \in Threads, Start(t) \/ Proceed(t) PROVE BufferInv'
  <2>1. \A s \in Threads \ {t} : BufferOK(s)'
    BY <1>1, OthersKeep DEF CallInv, BufferInv, BufferOK
  <2>2. BufferOK(t)'
    BY <1>1, BufferStep
  <2>3. QED
    BY <2>1, <2>2 DEF BufferInv
<1>2. ASSUME pc' = pc, call' = call, buffers' = buffers PROVE BufferInv'
  BY <1>2 DEF BufferInv, BufferOK
<1>3. QED
  BY <1>1, <1>2, OtherStep DEF Next

\* Only the error returns after a failed transfer or copy leak a buffer.
THEOREM LeakOnlyOnFaultCorrect == Spec => []LeakOnlyOnFault
<1>1. Init => BufferInv
  BY DEF Init, BufferInv, BufferOK, Transfers
<1>2. BufferInv => LeakOnlyOnFault
  BY DEF BufferInv, BufferOK, LeakOnlyOnFault
<1>3. QED
  BY <1>1, <1>2, BufferInvNext, CallInvHolds, PTL DEF Spec

-----------------------------------------------------------------------------
(* Acceptance.                                                             *)

\* The chip of a thread that nobody has raced is ready, and after WRITE_EN enabled or
\* powered down.
AcceptOK(t) ==
  t \notin raced =>
    /\ pc[t] = "wren" => ~chip.busy
    /\ pc[t] = "send" /\ call[t].wren => ~chip.busy /\ (chip.wel \/ chip.down)

AcceptInv == \A t \in Threads : AcceptOK(t)

\* A thread that uses the chip puts all that wait to use it among the raced.
LEMMA UseRaces ==
  ASSUME TypeOK, NEW t \in Threads, raced' = Raced(t),
         \A s \in Threads \ {t} : pc'[s] = pc[s] /\ call'[s] = call[s],
         pc'[t] \notin {"wren", "send"}
  PROVE  AcceptInv'
BY DEF AcceptInv, AcceptOK, Raced

\* A step that leaves the chip alone, and t neither waiting nor sending.
LEMMA ChipKept ==
  ASSUME AcceptInv, NEW t \in Threads, raced' = raced, chip' = chip,
         \A s \in Threads \ {t} : pc'[s] = pc[s] /\ call'[s] = call[s],
         pc'[t] \notin {"wren", "send"}
  PROVE  AcceptInv'
BY DEF AcceptInv, AcceptOK

\* Every step preserves AcceptInv.
LEMMA AcceptInvNext == CallInv /\ AcceptInv /\ [Next]_vars => AcceptInv'
<1> SUFFICES ASSUME CallInv, AcceptInv, [Next]_vars PROVE AcceptInv'
  OBVIOUS
<1>1. ASSUME NEW t \in Threads, Start(t) \/ Proceed(t) PROVE AcceptInv'
  <2>1. \A s \in Threads \ {t} : pc'[s] = pc[s] /\ call'[s] = call[s]
    BY <1>1, OthersKeep DEF CallInv
  <2>2. CASE Start(t)
    <3>1. raced' = raced /\ chip' = chip /\ pc'[t] \notin {"wren", "send"}
      BY <2>2 DEF Start, driver_read, driver_write, driver_llseek, Goto, CallInv, TypeOK
    <3>2. QED
      BY <2>1, <3>1, ChipKept
  <2>3. CASE driver_llseek_set(t) \/ vfs_return(t)
    <3>1. raced' = raced /\ chip' = chip /\ pc'[t] \notin {"wren", "send"}
      BY <2>3 DEF driver_llseek_set, vfs_return, Goto, CallInv, TypeOK
    <3>2. QED
      BY <2>1, <3>1, ChipKept
  <2>4. CASE read_transfer(t)
    <3>1. /\ raced' = Raced(t) \/ (raced' = raced /\ chip' = chip)
          /\ pc'[t] = "ret"
      BY <2>4 DEF read_transfer, Goto, Fault, CallInv, TypeOK
    <3>2. QED
      BY <2>1, <3>1, ChipKept, UseRaces DEF CallInv
  <2>5. CASE send_piece(t)
    <3>1. /\ raced' = Raced(t) \/ (raced' = raced /\ chip' = chip)
          /\ pc'[t] \in {"ret", "busy", "oops"}
      BY <2>5 DEF send_piece, Goto, Fault, CallInv, TypeOK
    <3>2. QED
      BY <2>1, <3>1, ChipKept, UseRaces DEF CallInv
  <2>6. CASE w25q32_check_busy(t)
    <3>1. /\ raced' = raced \ {t} /\ chip' = chip /\ ~chip.busy
          /\ pc'[t] \in {"xfer", "wren"}
      BY <2>6 DEF w25q32_check_busy, Goto, CallInv, TypeOK
    <3>2. QED
      BY <2>1, <3>1 DEF AcceptInv, AcceptOK
  <2>7. CASE write_enable(t)
    <3>1. /\ pc[t] = "wren" /\ pc'[t] = "send" /\ raced' = raced
          /\ chip' = IF bus = "up" /\ ~chip.busy /\ ~chip.down THEN [chip EXCEPT !.wel = TRUE] ELSE chip
      BY <2>7 DEF write_enable, Goto, CallInv, TypeOK
    <3>2. call'[t].wren => bus = "up"
      BY <2>7 DEF write_enable, CallInv, TypeOK, Calls
    <3>3. /\ chip'.busy = chip.busy
          /\ chip'.down = chip.down
          /\ chip.wel => chip'.wel
          /\ bus = "up" /\ ~chip.busy => chip'.wel \/ chip'.down
      BY <3>1 DEF CallInv, TypeOK
    <3>4. AcceptOK(t)'
      BY <3>1, <3>2, <3>3 DEF AcceptInv, AcceptOK
    <3>5. \A s \in Threads \ {t} : AcceptOK(s)'
      BY <2>1, <3>1, <3>3 DEF AcceptInv, AcceptOK
    <3>6. QED
      BY <3>4, <3>5 DEF AcceptInv
  <2>8. QED
    BY <1>1, <2>2, <2>3, <2>4, <2>5, <2>6, <2>7 DEF Proceed
<1>2. CASE (\E f \in Files : driver_open(f)) \/ bus_changes \/ UNCHANGED vars
  <2>1. pc' = pc /\ call' = call /\ chip' = chip /\ raced' = raced
    BY <1>2 DEF driver_open, bus_changes, vars
  <2>2. QED
    BY <2>1 DEF AcceptInv, AcceptOK
<1>3. CASE chip_ready
  <2>1. pc' = pc /\ call' = call /\ raced' = raced /\ chip.busy
        /\ chip' = [busy |-> FALSE, wel |-> FALSE, down |-> FALSE]
    BY <1>3 DEF chip_ready
  <2>2. ~chip'.busy
    BY <2>1
  <2>3. QED
    BY <2>1, <2>2 DEF AcceptInv, AcceptOK
<1>4. QED
  BY <1>1, <1>2, <1>3 DEF Next

\* A piece that follows a delivered WRITE_EN is accepted unless the thread was raced.
THEOREM AcceptCorrect == Spec => []AcceptedUnlessRaced
<1>1. Init => AcceptInv
  BY DEF Init, AcceptInv, AcceptOK
<1>2. AcceptInv => AcceptedUnlessRaced
  BY DEF AcceptInv, AcceptOK, AcceptedUnlessRaced
<1>3. QED
  BY <1>1, <1>2, AcceptInvNext, CallInvHolds, PTL DEF Spec

-----------------------------------------------------------------------------
(* The end of the file.                                                    *)

\* Two counts and the window together do not exceed the flash.
SmallCounts == \A m, n \in Counts : WINDOW + m + n <= TOTAL /\ 2 * WINDOW + n <= TOTAL

\* No count is clipped at p.
Fits(p) == \A n \in Counts : n + p < TOTAL

\* The call of t, if its file was never positioned with lseek.
EndOK(t) ==
  call[t].file \notin sought =>
    /\ pc[t] \in Transfers => Fits(call[t].pos)
    /\ pc[t] = "ret" /\ call[t].op # "llseek" /\ call[t].err = "OK" => Fits(call[t].pos)
    /\ pc[t] = "ret" /\ call[t].op = "read" /\ call[t].err = "OK" =>
         call[t].count = call[t].asked

EndInv ==
  /\ \A f \in Files \ sought : Fits(f_pos[f])
  /\ \A t \in Threads : EndOK(t)

\* Where no count is clipped, a call transfers what it was asked for.
LEMMA FitsUnclipped ==
  ASSUME NEW p \in 0 .. TOTAL - 1, NEW n \in Counts, Fits(p)
  PROVE  Clip(p, n) = n
BY W25q32Assumption DEF Fits, Clip

\* The positions that reads and writes leave, and that of a new file, fit.
LEMMA NewPositionsFit ==
  ASSUME SmallCounts, NEW p \in Int, NEW a \in 0 .. WINDOW - 1
  PROVE  /\ Fits(0)
         /\ \A n \in Counts : Fits(Window(p) + n)
         /\ Fits(Window(p) + a)
<1>1. Window(p) \in 0 .. WINDOW - 1
  BY WindowRange
<1>2. QED
  BY <1>1, W25q32Assumption DEF SmallCounts, Fits

\* A step of t preserves its own part of EndInv.
LEMMA EndStep ==
  ASSUME SmallCounts, CallInv, EndInv, NEW t \in Threads, Start(t) \/ Proceed(t)
  PROVE  EndOK(t)'
<1>1. /\ EndOK(t) /\ CallOK(t) /\ call[t] \in Calls /\ call \in [Threads -> Calls]
      /\ pc \in [Threads -> Transfers \cup {"idle", "seek", "ret", "oops"}] /\ TypeOK
  BY DEF EndInv, CallInv, TypeOK, Transfers
<1>2. ASSUME NEW f \in Files, NEW n \in Counts, driver_read(t, f, n) \/ driver_write(t, f, n)
      PROVE  EndOK(t)'
  <2>1. PICK o \in {"read", "write"} :
          LET new == NewCall(o, f, f_pos[f], n) IN
          \/ call'[t] = new /\ pc'[t] = "busy"
          \/ \E e \in {"ENOMEM", "EFAULT"} :
               call'[t] = [new EXCEPT !.err = e] /\ pc'[t] = "ret"
          \/ pc'[t] = "oops"
    BY <1>1, <1>2 DEF driver_read, driver_write, Goto
  <2> DEFINE new == NewCall(o, f, f_pos[f], n)
  <2>2. new.file = f /\ new.pos = f_pos[f]
    BY DEF NewCall
  <2>3. \A e \in {"ENOMEM", "EFAULT"} : [new EXCEPT !.err = e].err = e
    BY DEF NewCall
  <2> HIDE DEF new
  <2>4. sought' = sought
    BY <1>2 DEF driver_read, driver_write
  <2>5. CASE call'[t] = new /\ pc'[t] = "busy"
    BY <2>2, <2>4, <2>5 DEF EndInv, EndOK, Fits, Transfers
  <2>6. ASSUME NEW e \in {"ENOMEM", "EFAULT"}, call'[t] = [new EXCEPT !.err = e], pc'[t] = "ret"
        PROVE  EndOK(t)'
    <3>1. call'[t].err # "OK"
      BY <2>3, <2>6
    <3>2. QED
      BY <2>6, <3>1 DEF EndOK, Transfers
  <2>7. CASE pc'[t] = "oops"
    BY <2>7 DEF EndOK, Transfers
  <2>8. QED
    BY <2>1, <2>5, <2>6, <2>7 DEF new
<1>3. ASSUME NEW f \in Files, NEW offset \in Offsets,
             NEW whence \in {"SEEK_SET", "SEEK_CUR", "SEEK_END"},
             driver_llseek(t, f, offset, whence)
      PROVE  EndOK(t)'
  <2> DEFINE new == NewCall("llseek", f, SeekTarget(f, offset, whence), 0)
  <2>1. [new EXCEPT !.err = "EINVAL"].err = "EINVAL"
    BY DEF NewCall
  <2> HIDE DEF new
  <2>2. \/ call'[t] = [new EXCEPT !.err = "EINVAL"] /\ pc'[t] = "ret"
        \/ pc'[t] = "seek"
    BY <1>1, <1>3 DEF driver_llseek, Goto, new
  <2>3. QED
    BY <2>1, <2>2 DEF EndOK, Transfers
<1>4. ASSUME Fault(t) PROVE EndOK(t)'
  <2>1. call'[t].err = "EFAULT" /\ pc'[t] = "ret"
    BY <1>1, <1>4, FaultOK
  <2>2. QED
    BY <2>1 DEF EndOK, Transfers
<1>5. CASE driver_llseek_set(t)
  BY <1>1, <1>5 DEF driver_llseek_set, Goto, EndOK, Transfers, CallOK
<1>6. CASE vfs_return(t)
  BY <1>1, <1>6 DEF vfs_return, Goto, EndOK, Transfers
<1>7. CASE w25q32_check_busy(t)
  BY <1>1, <1>7 DEF w25q32_check_busy, Goto, EndOK, Transfers
<1>8. CASE write_enable(t)
  <2>1. /\ call'[t].pos = call[t].pos /\ call'[t].file = call[t].file
        /\ pc[t] = "wren" /\ pc'[t] = "send" /\ sought' = sought
    BY <1>1, <1>8 DEF write_enable, Goto, Calls
  <2>2. QED
    BY <1>1, <2>1 DEF EndOK, Transfers, Fits
<1>9. CASE read_transfer(t)
  <2>1. ASSUME call' = [call EXCEPT ![t].pos = Window(@) + call[t].count], Goto(t, "ret")
        PROVE  EndOK(t)'
    <3>1. /\ pc[t] = "xfer" /\ call[t].pos \in 0 .. TOTAL - 1 /\ call[t].asked \in Counts
          /\ call[t].count = Clip(call[t].pos, call[t].asked)
      BY <1>1, <1>9 DEF read_transfer, CallOK, Transfers
    <3>2. /\ call'[t].file = call[t].file /\ call'[t].asked = call[t].asked
          /\ call'[t].count = call[t].count /\ pc'[t] = "ret"
          /\ call'[t].pos = Window(call[t].pos) + call[t].count /\ sought' = sought
      BY <1>1, <1>9, <2>1 DEF read_transfer, Goto, Calls
    <3>3. ASSUME call[t].file \notin sought
          PROVE  call[t].count = call[t].asked /\ Fits(Window(call[t].pos) + call[t].count)
      <4>1. Fits(call[t].pos)
        BY <1>1, <3>1, <3>3 DEF EndOK, Transfers
      <4>2. call[t].count = call[t].asked
        BY <3>1, <4>1, FitsUnclipped
      <4>3. call[t].pos \in Int /\ 0 \in 0 .. WINDOW - 1
        BY <3>1, W25q32Assumption
      <4>4. QED
        BY <3>1, <4>2, <4>3, NewPositionsFit
    <3>4. QED
      BY <3>2, <3>3 DEF EndOK, Transfers, Fits
  <2>2. QED
    BY <1>4, <1>9, <2>1 DEF read_transfer
<1>10. CASE send_piece(t)
  <2> DEFINE c == call[t]
  <2>1. /\ pc[t] = "send" /\ c.op = "write" /\ c.pos \in 0 .. TOTAL - 1 /\ c.asked \in Counts
        /\ c.count = Clip(c.pos, c.asked) /\ c.addr \in 0 .. WINDOW - 1 /\ PiecesOK(c)
    BY <1>1, <1>10 DEF send_piece, CallOK, Transfers
  <2>2. c.count \in Nat
    BY <2>1, ClipRange, W25q32Assumption
  <2>3. /\ Advanced(c) \in Calls /\ Advanced(c).addr \in 0 .. WINDOW - 1
        /\ Advanced(c).op = c.op /\ Advanced(c).file = c.file /\ Advanced(c).pos = c.pos
    BY <1>1, <2>1, <2>2, AdvancedOK
  <2>4. sought' = sought
    BY <1>10 DEF send_piece
  <2>5. CASE call' = [call EXCEPT ![t] = Advanced(c)] /\ Goto(t, "busy")
    BY <1>1, <2>1, <2>3, <2>4, <2>5 DEF Goto, EndOK, Transfers, Fits
  <2>6. CASE Goto(t, "oops")
    BY <1>1, <2>6 DEF Goto, EndOK, Transfers
  <2>7. ASSUME call' = [call EXCEPT ![t] =
                 [Advanced(c) EXCEPT !.pos = Window(@) + Advanced(c).addr]],
               Goto(t, "ret")
        PROVE  EndOK(t)'
    <3>1. /\ call'[t].pos = Window(c.pos) + Advanced(c).addr /\ call'[t].op = "write"
          /\ pc'[t] = "ret"
      BY <1>1, <2>1, <2>3, <2>7 DEF Goto, Calls
    <3>2. c.pos \in Int
      BY <2>1, W25q32Assumption
    <3>3. Fits(Window(c.pos) + Advanced(c).addr)
      BY <2>3, <3>2, NewPositionsFit
    <3>4. QED
      BY <3>1, <3>3 DEF EndOK, Transfers, Fits
  <2>8. QED
    BY <1>4, <1>10, <2>5, <2>6, <2>7 DEF send_piece
<1>11. QED
  BY <1>2, <1>3, <1>5, <1>6, <1>7, <1>8, <1>9, <1>10 DEF Start, Proceed

\* A step of t preserves what EndInv says of the positions, and no file is
\* forgotten to have been positioned.
LEMMA EndPositions ==
  ASSUME CallInv, EndInv, NEW t \in Threads, Start(t) \/ Proceed(t)
  PROVE  (\A f \in Files \ sought' : Fits(f_pos'[f])) /\ sought \subseteq sought'
<1>1. CASE driver_llseek_set(t)
  BY <1>1 DEF driver_llseek_set, EndInv, Fits, CallInv, TypeOK
<1>2. CASE vfs_return(t)
  BY <1>2 DEF vfs_return, EndInv, EndOK, Fits, CallInv, TypeOK
<1>3. CASE f_pos' = f_pos /\ sought' = sought
  BY <1>3 DEF EndInv
<1>4. QED
  BY <1>1, <1>2, <1>3 DEF Start, Proceed, driver_read, driver_write, driver_llseek,
     read_transfer, w25q32_check_busy, write_enable, send_piece

\* Every step preserves EndInv.
LEMMA EndInvNext ==
  ASSUME SmallCounts PROVE CallInv /\ EndInv /\ [Next]_vars => EndInv'
<1> SUFFICES ASSUME CallInv, EndInv, [Next]_vars PROVE EndInv'
  OBVIOUS
<1>1. ASSUME NEW t \in Threads, Start(t) \/ Proceed(t) PROVE EndInv'
  <2>1. (\A f \in Files \ sought' : Fits(f_pos'[f])) /\ sought \subseteq sought'
    BY <1>1, EndPositions
  <2>2. \A s \in Threads \ {t} : pc'[s] = pc[s] /\ call'[s] = call[s]
    BY <1>1, OthersKeep DEF CallInv
  <2>3. \A s \in Threads \ {t} : EndOK(s)'
    BY <2>1, <2>2 DEF EndInv, EndOK, Fits
  <2>4. EndOK(t)'
    BY <1>1, EndStep
  <2>5. QED
    BY <2>1, <2>3, <2>4 DEF EndInv, Fits
<1>2. ASSUME NEW f \in Files, driver_open(f) PROVE EndInv'
  <2>1. Fits(0)
    <3>1. 0 \in Int /\ 0 \in 0 .. WINDOW - 1
      BY W25q32Assumption
    <3>2. QED
      BY <3>1, NewPositionsFit
  <2>2. \A g \in Files \ sought' : Fits(f_pos'[g])
    BY <1>2, <2>1 DEF driver_open, EndInv, CallInv, TypeOK
  <2>3. \A t \in Threads : EndOK(t)'
    BY <1>2 DEF driver_open, EndInv, EndOK, Fits, Transfers
  <2>4. QED
    BY <2>2, <2>3 DEF EndInv, Fits
<1>3. CASE bus_changes \/ chip_ready \/ UNCHANGED vars
  <2>1. pc' = pc /\ call' = call /\ f_pos' = f_pos /\ sought' = sought
    BY <1>3 DEF bus_changes, chip_ready, vars
  <2>2. QED
    BY <2>1 DEF EndInv, EndOK, Fits
<1>4. QED
  BY <1>1, <1>2, <1>3 DEF Next

(***************************************************************************)
(* If the counts are small against the flash, a program that reads a file  *)
(* from its beginning never gets less than it asked for.                   *)
(***************************************************************************)
THEOREM EndCorrect == ASSUME SmallCounts PROVE Spec => []EndOnlyAfterSeek
<1>1. Init => EndInv
  <2>1. 0 \in Int /\ 0 \in 0 .. WINDOW - 1
    BY W25q32Assumption
  <2>2. Fits(0)
    BY <2>1, NewPositionsFit
  <2>3. QED
    BY <2>2 DEF Init, EndInv, EndOK, Transfers
<1>2. EndInv => EndOnlyAfterSeek
  BY DEF EndInv, EndOK, EndOnlyAfterSeek
<1>3. CallInv /\ EndInv /\ [Next]_vars => EndInv'
  BY EndInvNext
<1>4. QED
  BY <1>1, <1>2, <1>3, CallInvHolds, PTL DEF Spec
=============================================================================
