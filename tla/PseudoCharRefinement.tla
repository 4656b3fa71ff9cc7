-------------------------- MODULE PseudoCharRefinement --------------------------
(***************************************************************************)
(* PseudoCharDriver implements SeekableMemory when no two threads share a  *)
(* file.  A call takes effect when it gets psd_mutex: from then on its     *)
(* answer, its bytes in the memory and its new position are determined,    *)
(* and the copy that follows only makes them visible.                      *)
(***************************************************************************)
EXTENDS PseudoCharDriver

\* A write between its lock and its unlock.
Writing(t) == pc[t] = "copy" /\ call[t].op = "write"

\* A read or write that holds or has released the mutex and will succeed.
Succeeds(t) ==
  /\ pc[t] \in {"copy", "ret"}
  /\ call[t].op # "llseek"
  /\ call[t].err = "OK"
  /\ pc[t] = "copy" => call[t].valid >= call[t].count

Covers(t, a) == a \in call[t].pos .. call[t].pos + call[t].count - 1

MemBar ==
  [a \in Addresses |->
     IF \E t \in Threads : Writing(t) /\ Covers(t, a)
     THEN LET t == CHOOSE t \in Threads : Writing(t) /\ Covers(t, a)
          IN IF a < call[t].pos + call[t].valid THEN call[t].byte ELSE Zero
     ELSE buffer[a]]

FposBar ==
  [f \in Files |->
     IF \E t \in Threads : Succeeds(t) /\ call[t].file = f
     THEN LET t == CHOOSE t \in Threads : Succeeds(t) /\ call[t].file = f
          IN IF pc[t] = "copy" THEN call[t].pos + call[t].count ELSE call[t].pos
     ELSE f_pos[f]]

RequestOf(t) ==
  LET c == call[t] IN
  CASE pc[t] = "idle" -> [st |-> "idle"]
    [] pc[t] # "idle" /\ c.op = "llseek" -> [st |-> "idle"]
    [] pc[t] = "lock" /\ c.op # "llseek" ->
         [st |-> "asked", op |-> c.op, file |-> c.file, count |-> c.count, byte |-> c.byte]
    [] OTHER ->
         [st |-> "answered", file |-> c.file,
          err |-> IF pc[t] = "ret" \/ Succeeds(t) THEN c.err ELSE "EFAULT",
          got |-> IF ~Succeeds(t) THEN << >>
                  ELSE IF pc[t] = "copy" /\ c.op = "read"
                  THEN [i \in 1 .. c.count |-> buffer[c.pos + i - 1]]
                  ELSE c.got]

ReqBar == [t \in Threads |-> RequestOf(t)]

Memory ==
  INSTANCE SeekableMemory
    WITH Size <- DEV_MEM_SIZE, Counts <- 0 .. MaxCount,
         mem <- MemBar, fpos <- FposBar,
         req <- ReqBar

(***************************************************************************)
(* Each read and write of the driver happens at one instant, on the whole  *)
(* range of bytes and together with the advance of the file's position.    *)
(***************************************************************************)
ImplementsSeekableMemory == Memory!ASpec
=============================================================================
