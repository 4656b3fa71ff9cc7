----------------------------- MODULE SeekableMemory -----------------------------
(***************************************************************************)
(* What a character device with a memory and a file position promises:     *)
(* a read or a write takes effect at one instant between its call and its  *)
(* return.  At that instant it moves the bytes between the memory and the  *)
(* caller and advances the position by as many, or it fails and leaves the *)
(* position alone.  A write whose source turns out unreadable may leave a  *)
(* prefix of its bytes, followed by zeros, in the range it was given.      *)
(***************************************************************************)
EXTENDS Integers, Sequences

CONSTANTS Threads, Files, Bytes, Zero, Size,
          Counts   \* the numbers of bytes a caller may ask for

VARIABLES
  mem,    \* the memory
  fpos,   \* the position of every file
  req     \* what each thread has asked for and been answered

avars == <<mem, fpos, req>>

Idle == [st |-> "idle"]

Asked(o, f, n, b) == [st |-> "asked", op |-> o, file |-> f, count |-> n, byte |-> b]

Answered(f, e, g) == [st |-> "answered", file |-> f, err |-> e, got |-> g]

AInit ==
  /\ mem = [a \in 0 .. Size - 1 |-> Zero]
  /\ fpos = [f \in Files |-> 0]
  /\ req = [t \in Threads |-> Idle]

\* The number of bytes between the position and the end, at most count.
Available(t) ==
  LET left == Size - fpos[req[t].file]
  IN IF req[t].count > left THEN left ELSE req[t].count

Bytewise(t) == [i \in 1 .. Available(t) |-> mem[fpos[req[t].file] + i - 1]]

\* The memory after k of the bytes of a write, with the others cleared.
Stored(t, k) ==
  LET p == fpos[req[t].file]
  IN [a \in 0 .. Size - 1 |->
        IF a \in p .. p + Available(t) - 1
        THEN IF a < p + k THEN req[t].byte ELSE Zero
        ELSE mem[a]]

Ask(t) ==
  /\ req[t] = Idle
  /\ \E o \in {"read", "write"}, f \in Files, n \in Counts, b \in Bytes :
       req' = [req EXCEPT ![t] = Asked(o, f, n, b)]
  /\ UNCHANGED <<mem, fpos>>

AnswerRead(t) ==
  /\ req[t].st = "asked"
  /\ req[t].op = "read"
  /\ req' = [req EXCEPT ![t] = Answered(req[t].file, "OK", Bytewise(t))]
  /\ fpos' = [fpos EXCEPT ![req[t].file] = @ + Available(t)]
  /\ UNCHANGED mem

AnswerWrite(t) ==
  /\ req[t].st = "asked"
  /\ req[t].op = "write"
  /\ Available(t) # 0
  /\ mem' = Stored(t, Available(t))
  /\ fpos' = [fpos EXCEPT ![req[t].file] = @ + Available(t)]
  /\ req' = [req EXCEPT ![t] = Answered(req[t].file, "OK", << >>)]

Fail(t) ==
  /\ req[t].st = "asked"
  /\ \E e \in {"EINTR", "EFAULT", "ENOMEM"} :
       /\ e = "EFAULT" => req[t].op = "read"
       /\ e = "ENOMEM" => req[t].op = "write" /\ Available(t) = 0
       /\ req' = [req EXCEPT ![t] = Answered(req[t].file, e, << >>)]
  /\ UNCHANGED <<mem, fpos>>

SpoilWrite(t) ==
  /\ req[t].st = "asked"
  /\ req[t].op = "write"
  /\ \E k \in 0 .. Available(t) - 1 : mem' = Stored(t, k)
  /\ req' = [req EXCEPT ![t] = Answered(req[t].file, "EFAULT", << >>)]
  /\ UNCHANGED fpos

Take(t) ==
  /\ req[t].st = "answered"
  /\ req' = [req EXCEPT ![t] = Idle]
  /\ UNCHANGED <<mem, fpos>>

\* A file that no request is about is opened or moved.
Move(f) ==
  /\ \A t \in Threads : req[t] = Idle \/ req[t].file # f
  /\ \E p \in 0 .. Size - 1 : fpos' = [fpos EXCEPT ![f] = p]
  /\ UNCHANGED <<mem, req>>

ANext ==
  \/ \E t \in Threads : \/ Ask(t) \/ AnswerRead(t) \/ AnswerWrite(t)
                        \/ Fail(t) \/ SpoilWrite(t) \/ Take(t)
  \/ \E f \in Files : Move(f)

ASpec == AInit /\ [][ANext]_avars
=============================================================================
