--------------------------- MODULE PseudoCharDriver ---------------------------
(***************************************************************************)
(* The pseudo character device of 11_pseduo_char_driver: one memory of     *)
(* DEV_MEM_SIZE bytes behind psd_open, psd_release, psd_read, psd_write    *)
(* and psd_llseek, called by several threads through open files.           *)
(*                                                                         *)
(* The VFS (external) reads file->f_pos into a local before it calls       *)
(* psd_read or psd_write, hands the driver a pointer to that local, and    *)
(* stores it back when the call succeeded.  For a character device it      *)
(* takes no lock around these steps, so psd_mutex protects the memory but  *)
(* not the file position.  copy_to_user and copy_from_user may fault and   *)
(* sleep in the middle, so a copy is one step per byte.                    *)
(***************************************************************************)
EXTENDS Integers, Sequences

CONSTANTS
  Threads,       \* threads of user processes
  Files,         \* open file descriptions (struct file)
  FilesOf,       \* FilesOf[t]: the files thread t has a descriptor for
  Bytes, Zero,   \* byte values; Zero is the byte the kernel fills with
  DEV_MEM_SIZE,  \* size of device_buffer
  MaxCount,      \* bound: largest count a caller asks for
  Offsets,       \* offsets a caller gives to lseek
  None

ASSUME PsdAssumption ==
  /\ DEV_MEM_SIZE \in Nat \ {0}
  /\ MaxCount \in Nat
  /\ Offsets \subseteq Int
  /\ Zero \in Bytes
  /\ FilesOf \in [Threads -> SUBSET Files]
  /\ None \notin Threads

VARIABLES
  buffer,     \* prv_data.buffer
  opened,     \* files that psd_open has accepted and psd_release has not ended
  f_pos,      \* filp->f_pos of every file
  psd_mutex,  \* the thread that owns psd_mutex, or None
  pc,         \* where each thread is
  call,       \* arguments and locals of the call each thread is in, or None
  overtaken   \* history: threads whose file another call has moved since theirs began

vars == <<buffer, opened, f_pos, psd_mutex, pc, call, overtaken>>

Addresses == 0 .. DEV_MEM_SIZE - 1
Whences   == {"SEEK_SET", "SEEK_CUR", "SEEK_END", "SEEK_DATA"}
Steps     == {"idle", "lock", "copy", "seek", "ret"}
Errors    == {"OK", "EINTR", "ENOMEM", "EFAULT", "EINVAL"}

(***************************************************************************)
(* A call.  pos is the VFS's local position (or psd_llseek's temp), count  *)
(* the number of bytes, valid how many bytes of the user's buffer can be   *)
(* accessed, byte what a write stores, done how many bytes are copied and  *)
(* got what a read has delivered.                                          *)
(***************************************************************************)
Calls == [op : {"read", "write", "llseek"}, file : Files, pos : Int, count : Int,
          valid : Int, byte : Bytes, done : Int, got : Seq(Bytes), err : Errors]

NewCall(o, f, p, n, k, b) ==
  [op |-> o, file |-> f, pos |-> p, count |-> n, valid |-> k, byte |-> b,
   done |-> 0, got |-> << >>, err |-> "OK"]

Init ==
  /\ buffer = [a \in Addresses |-> Zero]
  /\ opened = {}
  /\ f_pos = [f \in Files |-> 0]
  /\ psd_mutex = None
  /\ pc = [t \in Threads |-> "idle"]
  /\ call = [t \in Threads |-> None]
  /\ overtaken = {}

-----------------------------------------------------------------------------
(* Opening and closing: the VFS starts a file at position 0 and ends it    *)
(* only when no call on it is in progress.                                 *)

Busy(f) == \E t \in Threads : pc[t] # "idle" /\ call[t].file = f

psd_open(f) ==
  /\ f \notin opened
  /\ opened' = opened \cup {f}
  /\ f_pos' = [f_pos EXCEPT ![f] = 0]
  /\ UNCHANGED <<buffer, psd_mutex, pc, call, overtaken>>

psd_release(f) ==
  /\ f \in opened
  /\ ~Busy(f)
  /\ opened' = opened \ {f}
  /\ UNCHANGED <<buffer, f_pos, psd_mutex, pc, call, overtaken>>

-----------------------------------------------------------------------------
(* psd_llseek: one step computes and checks the target, one stores it.     *)

SeekTarget(f, offset, whence) ==
  CASE whence = "SEEK_SET" -> offset
    [] whence = "SEEK_CUR" -> f_pos[f] + offset
    [] whence = "SEEK_END" -> DEV_MEM_SIZE - 1 + offset
    [] OTHER -> -1

\* psd_llseek without the check against the end of the memory.
SeekRefusedBelow(temp) == temp < 0

SeekRefused(temp) == temp > DEV_MEM_SIZE - 1 \/ temp < 0

psd_llseek(t, f, offset, whence) ==
  LET temp == SeekTarget(f, offset, whence)
      new  == NewCall("llseek", f, temp, 0, 0, Zero)
  IN
  /\ pc[t] = "idle"
  /\ f \in FilesOf[t] \cap opened
  /\ \/ /\ SeekRefused(temp)
        /\ call' = [call EXCEPT ![t] = [new EXCEPT !.err = "EINVAL"]]
        /\ pc' = [pc EXCEPT ![t] = "ret"]
     \/ /\ ~SeekRefused(temp)
        /\ call' = [call EXCEPT ![t] = new]
        /\ pc' = [pc EXCEPT ![t] = "seek"]
  /\ UNCHANGED <<buffer, opened, f_pos, psd_mutex, overtaken>>

\* The other threads that are in a call on t's file.
OthersOn(t) == {u \in Threads \ {t} : pc[u] # "idle" /\ call[u].file = call[t].file}

psd_llseek_set(t) ==
  /\ pc[t] = "seek"
  /\ f_pos' = [f_pos EXCEPT ![call[t].file] = call[t].pos]
  /\ overtaken' = overtaken \cup OthersOn(t)
  /\ pc' = [pc EXCEPT ![t] = "ret"]
  /\ UNCHANGED <<buffer, opened, psd_mutex, call>>

-----------------------------------------------------------------------------
(* Entry from and return to the VFS.                                       *)

vfs_enter(t, f, o, n, k, b) ==
  /\ pc[t] = "idle"
  /\ f \in FilesOf[t] \cap opened
  /\ call' = [call EXCEPT ![t] = NewCall(o, f, f_pos[f], n, k, b)]
  /\ pc' = [pc EXCEPT ![t] = "lock"]
  /\ UNCHANGED <<buffer, opened, f_pos, psd_mutex, overtaken>>

\* The position is stored back only after a successful read or write.
StoresBack(t) == call[t].op # "llseek" /\ call[t].err = "OK"

vfs_return(t) ==
  /\ pc[t] = "ret"
  /\ f_pos' = IF StoresBack(t) THEN [f_pos EXCEPT ![call[t].file] = call[t].pos] ELSE f_pos
  /\ overtaken' = (overtaken \cup IF StoresBack(t) THEN OthersOn(t) ELSE {}) \ {t}
  /\ pc' = [pc EXCEPT ![t] = "idle"]
  /\ call' = [call EXCEPT ![t] = None]
  /\ UNCHANGED <<buffer, opened, psd_mutex>>

-----------------------------------------------------------------------------
(* The bodies of psd_read and psd_write.                                   *)

\* Adjust the 'count'.
Adjust(pos, count) ==
  IF pos + count > DEV_MEM_SIZE THEN DEV_MEM_SIZE - pos ELSE count

\* A driver that ignores the result of mutex_lock_interruptible.
LockIgnored(t) == psd_mutex' = t

\* mutex_lock_interruptible that gets the mutex.
Lock(t) == psd_mutex = None /\ psd_mutex' = t

\* The error code most drivers return when a signal interrupts the wait.
psd_interrupted_restart(t) ==
  /\ pc[t] = "lock"
  /\ psd_mutex # None
  /\ call' = [call EXCEPT ![t].err = "ERESTARTSYS"]
  /\ pc' = [pc EXCEPT ![t] = "ret"]
  /\ UNCHANGED <<buffer, opened, f_pos, psd_mutex, overtaken>>

\* ... that a signal ends while another owner holds the mutex.
psd_interrupted(t) ==
  /\ pc[t] = "lock"
  /\ psd_mutex # None
  /\ call' = [call EXCEPT ![t].err = "EINTR"]
  /\ pc' = [pc EXCEPT ![t] = "ret"]
  /\ UNCHANGED <<buffer, opened, f_pos, psd_mutex, overtaken>>

psd_read_lock(t) ==
  /\ pc[t] = "lock"
  /\ call[t].op = "read"
  /\ Lock(t)
  /\ call' = [call EXCEPT ![t].count = Adjust(call[t].pos, call[t].count)]
  /\ pc' = [pc EXCEPT ![t] = "copy"]
  /\ UNCHANGED <<buffer, opened, f_pos, overtaken>>

\* With nothing left to copy psd_write returns -ENOMEM and keeps the mutex.
psd_write_lock(t) ==
  LET count == Adjust(call[t].pos, call[t].count)
  IN
  /\ pc[t] = "lock"
  /\ call[t].op = "write"
  /\ Lock(t)
  /\ \/ /\ count = 0
        /\ call' = [call EXCEPT ![t] = [@ EXCEPT !.count = 0, !.err = "ENOMEM"]]
        /\ pc' = [pc EXCEPT ![t] = "ret"]
     \/ /\ count # 0
        /\ call' = [call EXCEPT ![t].count = count]
        /\ pc' = [pc EXCEPT ![t] = "copy"]
  /\ UNCHANGED <<buffer, opened, f_pos, overtaken>>

Copying(t) ==
  /\ pc[t] = "copy"
  /\ call[t].done < call[t].count
  /\ call[t].done < call[t].valid

\* One byte of copy_to_user.
copy_to_user(t) ==
  /\ Copying(t)
  /\ call[t].op = "read"
  /\ call' = [call EXCEPT ![t].got = Append(@, buffer[call[t].pos + call[t].done]),
                          ![t].done = @ + 1]
  /\ UNCHANGED <<buffer, opened, f_pos, psd_mutex, pc, overtaken>>

\* One byte of copy_from_user.
copy_from_user(t) ==
  /\ Copying(t)
  /\ call[t].op = "write"
  /\ buffer' = [buffer EXCEPT ![call[t].pos + call[t].done] = call[t].byte]
  /\ call' = [call EXCEPT ![t].done = @ + 1]
  /\ UNCHANGED <<opened, f_pos, psd_mutex, pc, overtaken>>

\* The user's buffer ends before the copy does.
Faulting(t) ==
  /\ pc[t] = "copy"
  /\ call[t].done < call[t].count
  /\ call[t].done = call[t].valid

\* copy_from_user clears the part of the destination it could not fill.
ZeroFilled(t) ==
  [a \in Addresses |->
     IF a \in call[t].pos + call[t].done .. call[t].pos + call[t].count - 1
     THEN Zero ELSE buffer[a]]

\* An error path that forgets mutex_unlock.
psd_fault_locked(t) ==
  /\ Faulting(t)
  /\ buffer' = IF call[t].op = "write" THEN ZeroFilled(t) ELSE buffer
  /\ call' = [call EXCEPT ![t].err = "EFAULT"]
  /\ pc' = [pc EXCEPT ![t] = "ret"]
  /\ UNCHANGED <<opened, f_pos, psd_mutex, overtaken>>

\* A driver that tries a failed copy again, without an end.
psd_fault_retry(t) == Faulting(t) /\ UNCHANGED vars

psd_fault(t) ==
  /\ Faulting(t)
  /\ buffer' = IF call[t].op = "write" THEN ZeroFilled(t) ELSE buffer
  /\ psd_mutex' = None
  /\ call' = [call EXCEPT ![t].err = "EFAULT"]
  /\ pc' = [pc EXCEPT ![t] = "ret"]
  /\ UNCHANGED <<opened, f_pos, overtaken>>

\* A position that is set to the count instead of advanced by it.
psd_done_set(t) ==
  /\ pc[t] = "copy"
  /\ call[t].done = call[t].count
  /\ psd_mutex' = None
  /\ call' = [call EXCEPT ![t].pos = call[t].count]
  /\ pc' = [pc EXCEPT ![t] = "ret"]
  /\ UNCHANGED <<buffer, opened, f_pos, overtaken>>

\* Update the position, unlock, return the count.
psd_done(t) ==
  /\ pc[t] = "copy"
  /\ call[t].done = call[t].count
  /\ psd_mutex' = None
  /\ call' = [call EXCEPT ![t].pos = @ + call[t].count]
  /\ pc' = [pc EXCEPT ![t] = "ret"]
  /\ UNCHANGED <<buffer, opened, f_pos, overtaken>>

-----------------------------------------------------------------------------
Enter(t) ==
  \E f \in Files, n \in 0 .. MaxCount, b \in Bytes : \E k \in 0 .. n :
    \/ b = Zero /\ vfs_enter(t, f, "read", n, k, b)
    \/ vfs_enter(t, f, "write", n, k, b)

Seek(t) ==
  \E f \in Files, offset \in Offsets, whence \in Whences :
    psd_llseek(t, f, offset, whence)

TakeLock(t) == psd_read_lock(t) \/ psd_write_lock(t)

Proceed(t) ==
  \/ psd_llseek_set(t) \/ vfs_return(t)
  \/ copy_to_user(t) \/ copy_from_user(t) \/ psd_fault(t) \/ psd_done(t)

Next ==
  \/ \E f \in Files : psd_open(f) \/ psd_release(f)
  \/ \E t \in Threads :
       Enter(t) \/ Seek(t) \/ TakeLock(t) \/ Proceed(t) \/ psd_interrupted(t)

Spec == Init /\ [][Next]_vars

(***************************************************************************)
(* A thread inside the kernel keeps running, and a thread waiting for a    *)
(* mutex that is released again and again gets it: the kernel's mutex      *)
(* hands itself over to its first waiter.  No fairness on opening files,   *)
(* starting calls or sending signals.                                      *)
(***************************************************************************)
Fairness == \A t \in Threads : WF_vars(Proceed(t)) /\ SF_vars(TakeLock(t))

FairSpec == Spec /\ Fairness

-----------------------------------------------------------------------------
(* Properties.                                                             *)

\* The type of the driver's state: positions, calls and the mutex's owner.
TypeOK ==
  /\ buffer \in [Addresses -> Bytes]
  /\ opened \subseteq Files
  /\ f_pos \in [Files -> Int]
  /\ psd_mutex \in Threads \cup {None}
  /\ pc \in [Threads -> Steps]
  /\ call \in [Threads -> Calls \cup {None}]
  /\ \A t \in Threads : pc[t] # "idle" => call[t] \in Calls
  /\ overtaken \subseteq Threads

(***************************************************************************)
(* Every position a file or a call can have lies inside the memory or at   *)
(* its end, and no copy leaves the memory: psd_llseek's checks, psd_read's *)
(* and psd_write's clipping of count and the stale positions that threads  *)
(* sharing a file write back never combine to an access out of range.      *)
(***************************************************************************)
AccessInBounds ==
  /\ \A f \in Files : f_pos[f] \in 0 .. DEV_MEM_SIZE
  /\ \A t \in Threads :
       pc[t] = "copy" => /\ call[t].pos >= 0
                         /\ call[t].count >= 0
                         /\ call[t].pos + call[t].count <= DEV_MEM_SIZE

(***************************************************************************)
(* What a read has delivered so far is what the memory holds now, and what *)
(* a write has stored so far is still there: no other call's bytes get     *)
(* between those of a copy, although it sleeps in the middle.  psd_mutex   *)
(* is what guarantees it.                                                  *)
(***************************************************************************)
CopiesAreIsolated ==
  \A t \in Threads : pc[t] = "copy" =>
    \A i \in 0 .. call[t].done - 1 :
      buffer[call[t].pos + i] = IF call[t].op = "read" THEN call[t].got[i + 1]
                                                       ELSE call[t].byte

\* The mutex has an owner that is no longer between its lock and unlock.
Leaked == psd_mutex # None /\ pc[psd_mutex] # "copy"

(***************************************************************************)
(* The mutex is left locked in one way only: by a psd_write that found     *)
(* nothing to copy.  All other error paths of psd_read and psd_write       *)
(* unlock it.                                                              *)
(***************************************************************************)
LeakOnlyByEmptyWrite ==
  [][~Leaked /\ Leaked' =>
       \E t \in Threads : /\ pc[t] = "lock" /\ psd_mutex' = t
                          /\ call[t].op = "write"
                          /\ Adjust(call[t].pos, call[t].count) = 0]_vars

\* Returning from a read or write moves the file by the bytes it has copied.
AddsItsBytes(t) ==
  f_pos'[call[t].file] = f_pos[call[t].file] + IF call[t].err = "OK" THEN call[t].done ELSE 0

ReturnsFromCopy(t) == pc[t] = "ret" /\ pc'[t] = "idle" /\ call[t].op # "llseek"

(***************************************************************************)
(* A read or write that returns moves its file by the bytes it copied, and *)
(* a failed one not at all, unless another call has stored a position into *)
(* the file since this one read it.  Threads that merely overlap, wait for *)
(* psd_mutex, fault or are interrupted do not disturb each other's         *)
(* positions; only the position read by the VFS before the mutex and       *)
(* written back after it can be too old.                                   *)
(***************************************************************************)
LostOnlyIfOvertaken ==
  [][\A t \in Threads : ReturnsFromCopy(t) /\ t \notin overtaken => AddsItsBytes(t)]_vars

(***************************************************************************)
(* A call that waits for psd_mutex returns, or the mutex has been leaked.  *)
(***************************************************************************)
ReturnsUnlessLeaked ==
  \A t \in Threads : (pc[t] = "lock") ~> (pc[t] = "idle" \/ Leaked)

(***************************************************************************)
(* Every read and write returns a number of bytes or an error.             *)
(***************************************************************************)
CallsReturn == \A t \in Threads : (pc[t] = "lock") ~> (pc[t] = "idle")

=============================================================================
