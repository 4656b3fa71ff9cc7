----------------------------- MODULE PseudoCharProofs -----------------------------
(***************************************************************************)
(* Theorems about PseudoCharDriver, for any number of threads and files,   *)
(* any memory size and any bound on the requested counts.                  *)
(*                                                                         *)
(* AccessInBounds is not inductive: a call copies its position when it     *)
(* enters, clips its count when it gets the mutex and stores the position  *)
(* back when it returns, so the invariant has to follow the call through   *)
(* every step (CallInv) and say who owns the mutex (OwnerInv).             *)
(*                                                                         *)
(* LostOnlyIfOvertaken is about files that threads share.  ShareInv says   *)
(* that the position a call has copied is still that of its file (PosNow)  *)
(* unless the call is marked as overtaken.                                 *)
(*                                                                         *)
(* The last part shows that the driver implements SeekableMemory when no   *)
(* two threads share a file.  Then PosNow holds of every call, because     *)
(* only the call itself could move the file, and no other call is on the   *)
(* file, so that the CHOOSE in FposBar has one candidate.                  *)
(***************************************************************************)
EXTENDS PseudoCharRefinement, TLAPS

\* What a call looks like at each of its steps.
CallAt(t) ==
  LET c == call[t] IN
  /\ pc[t] \in {"lock", "copy"} => c.op \in {"read", "write"} /\ c.err = "OK"
  /\ pc[t] \in {"lock", "copy"} => c.pos \in 0 .. DEV_MEM_SIZE /\ c.count >= 0
  /\ pc[t] = "lock" => c.done = 0 /\ c.valid >= 0 /\ c.got = << >>
  /\ pc[t] = "copy" => /\ c.pos + c.count <= DEV_MEM_SIZE
                       /\ c.done \in 0 .. c.count
                       /\ c.op = "read" => Len(c.got) = c.done
  /\ pc[t] = "seek" => c.pos \in 0 .. DEV_MEM_SIZE - 1
  /\ pc[t] = "ret" /\ c.op # "llseek" /\ c.err = "OK" => c.pos \in 0 .. DEV_MEM_SIZE

CallInv == \A t \in Threads : CallAt(t)

PosInv == \A f \in Files : f_pos[f] \in 0 .. DEV_MEM_SIZE

OwnerInv == \A t \in Threads : pc[t] = "copy" => psd_mutex = t

\* The inductive invariant.
IInv == TypeOK /\ PosInv /\ CallInv /\ OwnerInv

-----------------------------------------------------------------------------
(* Facts about the helpers.                                                *)

(***************************************************************************)
(* The driver's clipping of count keeps a copy that starts inside the      *)
(* memory, or at its end, inside the memory.                               *)
(***************************************************************************)
LEMMA AdjustInRange ==
  ASSUME NEW p \in 0 .. DEV_MEM_SIZE, NEW n \in Int, n >= 0
  PROVE  /\ Adjust(p, n) \in Int
         /\ Adjust(p, n) >= 0
         /\ p + Adjust(p, n) <= DEV_MEM_SIZE
BY PsdAssumption DEF Adjust

(***************************************************************************)
(* A position psd_llseek accepts is the address of a byte of the memory.   *)
(***************************************************************************)
LEMMA SeekInRange ==
  ASSUME NEW temp \in Int, ~SeekRefused(temp)
  PROVE  temp \in 0 .. DEV_MEM_SIZE - 1
BY PsdAssumption DEF SeekRefused

(***************************************************************************)
(* psd_llseek computes an integer from the file's position.                *)
(***************************************************************************)
LEMMA SeekTargetInt ==
  ASSUME TypeOK, NEW f \in Files, NEW offset \in Offsets, NEW whence \in Whences
  PROVE  SeekTarget(f, offset, whence) \in Int
BY PsdAssumption DEF SeekTarget, TypeOK, Whences

(***************************************************************************)
(* Storing a value of the field's type into a call gives a call.           *)
(***************************************************************************)
LEMMA CallFields ==
  ASSUME NEW c \in Calls
  PROVE  /\ \A n \in Int : [c EXCEPT !.count = n] \in Calls
         /\ \A n \in Int : [c EXCEPT !.done = n] \in Calls
         /\ \A n \in Int : [c EXCEPT !.pos = n] \in Calls
         /\ \A g \in Seq(Bytes) : [c EXCEPT !.got = g] \in Calls
         /\ \A e \in Errors : [c EXCEPT !.err = e] \in Calls
BY DEF Calls

(***************************************************************************)
(* A call's count of copied bytes stays an integer.                        *)
(***************************************************************************)
LEMMA CallDone ==
  ASSUME NEW c \in Calls
  PROVE  c.done + 1 \in Int
BY DEF Calls

(***************************************************************************)
(* A thread's step leaves the calls of the other threads alone.            *)
(***************************************************************************)
LEMMA CallFrame ==
  ASSUME CallInv, NEW t \in Threads, CallAt(t)',
         \A s \in Threads \ {t} : pc'[s] = pc[s] /\ call'[s] = call[s]
  PROVE  CallInv'
<1> SUFFICES ASSUME NEW s \in Threads, s # t
             PROVE  CallAt(s)'
  BY DEF CallInv
<1>1. pc'[s] = pc[s] /\ call'[s] = call[s] /\ CallAt(s)
  BY DEF CallInv
<1> QED
  BY <1>1 DEF CallAt

-----------------------------------------------------------------------------
(***************************************************************************)
(* The invariant holds when the module is loaded.                          *)
(***************************************************************************)
LEMMA InitIInv == Init => IInv
BY PsdAssumption DEF Init, IInv, TypeOK, PosInv, CallInv, CallAt, OwnerInv,
                     Addresses, Steps

(***************************************************************************)
(* psd_open sets a position of 0 and psd_release touches no call, so both  *)
(* keep the invariant.                                                     *)
(***************************************************************************)
LEMMA OpenIInv ==
  ASSUME IInv, NEW f \in Files, psd_open(f) \/ psd_release(f)
  PROVE  IInv'
<1>1. TypeOK'
  BY DEF IInv, TypeOK, psd_open, psd_release
<1>2. PosInv'
  BY PsdAssumption DEF IInv, TypeOK, PosInv, psd_open, psd_release
<1>3. CallInv' /\ OwnerInv'
  BY DEF IInv, TypeOK, CallInv, CallAt, OwnerInv, psd_open, psd_release
<1> QED
  BY <1>1, <1>2, <1>3 DEF IInv

(***************************************************************************)
(* psd_llseek refuses what is not an address of the memory, so the target  *)
(* it stores keeps the invariant.                                          *)
(***************************************************************************)
LEMMA SeekIInv ==
  ASSUME IInv, NEW t \in Threads, NEW f \in Files, NEW offset \in Offsets,
         NEW whence \in Whences, psd_llseek(t, f, offset, whence)
  PROVE  IInv'
<1> DEFINE temp == SeekTarget(f, offset, whence)
           new  == NewCall("llseek", f, temp, 0, 0, Zero)
<1>1. temp \in Int
  BY SeekTargetInt DEF IInv
<1> HIDE DEF temp
<1>2. new \in Calls /\ [new EXCEPT !.err = "EINVAL"] \in Calls
  <2>1. new \in Calls
    BY <1>1, PsdAssumption DEF NewCall, Calls, Errors
  <2>2. "EINVAL" \in Errors
    BY DEF Errors
  <2> QED
    BY <2>1, <2>2 DEF Calls
<1>3. /\ new.op = "llseek" /\ new.pos = temp
      /\ [new EXCEPT !.err = "EINVAL"].op = "llseek"
  BY DEF NewCall
<1>4. ~SeekRefused(temp) => temp \in 0 .. DEV_MEM_SIZE - 1
  BY <1>1, SeekInRange
<1>5. /\ UNCHANGED <<buffer, opened, f_pos, psd_mutex, overtaken>>
      /\ \/ /\ call' = [call EXCEPT ![t] = [new EXCEPT !.err = "EINVAL"]]
            /\ pc' = [pc EXCEPT ![t] = "ret"]
         \/ /\ ~SeekRefused(temp)
            /\ call' = [call EXCEPT ![t] = new]
            /\ pc' = [pc EXCEPT ![t] = "seek"]
  BY DEF psd_llseek, temp
<1> HIDE DEF new
<1>6. TypeOK'
  BY <1>2, <1>5 DEF IInv, TypeOK, Steps
<1>7. CallInv'
  <2>1. /\ call'[t].op = "llseek" /\ pc'[t] \in {"ret", "seek"}
        /\ pc'[t] = "seek" => call'[t].pos \in 0 .. DEV_MEM_SIZE - 1
    <3>1. CASE /\ call' = [call EXCEPT ![t] = [new EXCEPT !.err = "EINVAL"]]
               /\ pc' = [pc EXCEPT ![t] = "ret"]
      BY <1>3, <3>1 DEF IInv, TypeOK
    <3>2. CASE /\ ~SeekRefused(temp)
               /\ call' = [call EXCEPT ![t] = new] /\ pc' = [pc EXCEPT ![t] = "seek"]
      BY <1>3, <1>4, <3>2 DEF IInv, TypeOK
    <3> QED
      BY <1>5, <3>1, <3>2
  <2>2. CallAt(t)'
    BY <2>1 DEF CallAt
  <2>3. \A s \in Threads \ {t} : pc'[s] = pc[s] /\ call'[s] = call[s]
    BY <1>5 DEF IInv, TypeOK
  <2> QED
    BY <2>2, <2>3, CallFrame DEF IInv
<1>8. OwnerInv' /\ PosInv'
  BY <1>5 DEF IInv, TypeOK, OwnerInv, PosInv
<1> QED
  BY <1>6, <1>7, <1>8 DEF IInv

(***************************************************************************)
(* A call starts from the file's position, which lies in the memory or at  *)
(* its end.                                                                *)
(***************************************************************************)
LEMMA EnterIInv ==
  ASSUME IInv, NEW t \in Threads, NEW f \in Files, NEW o \in {"read", "write"},
         NEW n \in 0 .. MaxCount, NEW k \in 0 .. n, NEW b \in Bytes,
         vfs_enter(t, f, o, n, k, b)
  PROVE  IInv'
<1> DEFINE new == NewCall(o, f, f_pos[f], n, k, b)
<1>1. n \in Int /\ n >= 0 /\ k \in Int /\ k >= 0
  BY PsdAssumption
<1>2. new \in Calls
  BY <1>1 DEF NewCall, Calls, Errors, IInv, TypeOK
<1>3. /\ new.op = o /\ new.err = "OK" /\ new.pos = f_pos[f] /\ new.count = n
      /\ new.done = 0 /\ new.valid = k /\ new.got = << >>
  BY DEF NewCall
<1>4. /\ UNCHANGED <<buffer, opened, f_pos, psd_mutex, overtaken>>
      /\ call' = [call EXCEPT ![t] = new]
      /\ pc' = [pc EXCEPT ![t] = "lock"]
  BY DEF vfs_enter
<1> HIDE DEF new
<1>5. TypeOK'
  BY <1>2, <1>4 DEF IInv, TypeOK, Steps
<1>6. CallInv'
  <2>1. pc'[t] = "lock" /\ call'[t] = new /\ f_pos[f] \in 0 .. DEV_MEM_SIZE
    BY <1>4 DEF IInv, TypeOK, PosInv
  <2>2. CallAt(t)'
    BY <1>1, <1>3, <2>1 DEF CallAt
  <2>3. \A s \in Threads \ {t} : pc'[s] = pc[s] /\ call'[s] = call[s]
    BY <1>4 DEF IInv, TypeOK
  <2> QED
    BY <2>2, <2>3, CallFrame DEF IInv
<1>7. OwnerInv' /\ PosInv'
  BY <1>4 DEF IInv, TypeOK, OwnerInv, PosInv
<1> QED
  BY <1>5, <1>6, <1>7 DEF IInv

(***************************************************************************)
(* The position that the VFS stores back after psd_read or psd_write is in *)
(* range, although it may be older than the file's.                        *)
(***************************************************************************)
LEMMA ReturnIInv ==
  ASSUME IInv, NEW t \in Threads, vfs_return(t) \/ psd_llseek_set(t)
  PROVE  IInv'
<1>1. call[t] \in Calls /\ call[t].file \in Files /\ call[t].pos \in Int
  BY DEF IInv, TypeOK, Calls, vfs_return, psd_llseek_set
<1>2. TypeOK'
  <2>1. overtaken' \subseteq Threads
    BY DEF IInv, TypeOK, vfs_return, psd_llseek_set, OthersOn
  <2> QED
    BY <1>1, <2>1 DEF IInv, TypeOK, vfs_return, psd_llseek_set, Steps
<1>3. PosInv'
  <2>1. CASE vfs_return(t)
    BY <1>1, <2>1, PsdAssumption
       DEF IInv, TypeOK, PosInv, CallInv, CallAt, vfs_return, StoresBack
  <2>2. CASE psd_llseek_set(t)
    BY <1>1, <2>2, PsdAssumption
       DEF IInv, TypeOK, PosInv, CallInv, CallAt, psd_llseek_set
  <2> QED
    BY <2>1, <2>2
<1>4. CallInv' /\ OwnerInv'
  <2>1. CASE vfs_return(t)
    BY <2>1, <1>1 DEF IInv, TypeOK, CallInv, CallAt, OwnerInv, vfs_return
  <2>2. CASE psd_llseek_set(t)
    <3>1. pc'[t] = "ret" /\ call'[t].pos \in 0 .. DEV_MEM_SIZE - 1
      BY <2>2 DEF IInv, TypeOK, CallInv, CallAt, psd_llseek_set
    <3>2. CallAt(t)'
      BY <3>1, PsdAssumption DEF CallAt
    <3>3. \A s \in Threads \ {t} : pc'[s] = pc[s] /\ call'[s] = call[s]
      BY <2>2 DEF IInv, TypeOK, psd_llseek_set
    <3>4. OwnerInv'
      BY <2>2 DEF IInv, TypeOK, OwnerInv, psd_llseek_set
    <3> QED
      BY <3>2, <3>3, <3>4, CallFrame DEF IInv
  <2> QED
    BY <2>1, <2>2
<1> QED
  BY <1>2, <1>3, <1>4 DEF IInv

(***************************************************************************)
(* mutex_lock_interruptible lets one thread in, and the count it is given  *)
(* there fits the memory.                                                  *)
(***************************************************************************)
LEMMA LockIInv ==
  ASSUME IInv, NEW t \in Threads, TakeLock(t) \/ psd_interrupted(t)
  PROVE  IInv'
<1>1. pc[t] = "lock" /\ call[t] \in Calls
  BY DEF IInv, TypeOK, TakeLock, psd_read_lock, psd_write_lock, psd_interrupted
<1>2. /\ call[t].op \in {"read", "write"} /\ call[t].err = "OK"
      /\ call[t].pos \in 0 .. DEV_MEM_SIZE
      /\ call[t].count \in Int /\ call[t].count >= 0
      /\ call[t].done = 0 /\ call[t].got = << >>
  BY <1>1 DEF IInv, CallInv, CallAt, Calls
<1> DEFINE count == Adjust(call[t].pos, call[t].count)
<1>3. /\ count \in Int /\ count >= 0
      /\ call[t].pos + count <= DEV_MEM_SIZE
  BY <1>2, AdjustInRange
<1> HIDE DEF count
<1>4. \A s \in Threads : s # t => pc[s] # "copy" \/ psd_mutex = s
  BY DEF IInv, OwnerInv
<1>5. CASE psd_interrupted(t)
  <2>1. TypeOK'
    BY <1>1, <1>5 DEF IInv, TypeOK, psd_interrupted, Calls, Errors, Steps
  <2>2. PosInv' /\ CallInv' /\ OwnerInv'
    BY <1>1, <1>5 DEF IInv, TypeOK, PosInv, CallInv, CallAt, OwnerInv, psd_interrupted, Calls
  <2> QED
    BY <2>1, <2>2 DEF IInv
<1>6. CASE TakeLock(t)
  <2>1. /\ psd_mutex = None /\ psd_mutex' = t
        /\ UNCHANGED <<buffer, opened, f_pos, overtaken>>
        /\ \/ /\ call' = [call EXCEPT ![t].count = count]
              /\ pc' = [pc EXCEPT ![t] = "copy"]
           \/ /\ call' = [call EXCEPT ![t] = [@ EXCEPT !.count = 0, !.err = "ENOMEM"]]
              /\ pc' = [pc EXCEPT ![t] = "ret"]
    BY <1>6 DEF TakeLock, psd_read_lock, psd_write_lock, Lock, count
  <2>2. TypeOK'
    <3>1. [call[t] EXCEPT !.count = count] \in Calls
      BY <1>1, <1>3, CallFields
    <3>2. [call[t] EXCEPT !.count = 0, !.err = "ENOMEM"] \in Calls
      <4>0. 0 \in Int
        OBVIOUS
      <4>1. [call[t] EXCEPT !.count = 0] \in Calls
        BY <1>1, <4>0, CallFields
      <4>2. "ENOMEM" \in Errors
        BY DEF Errors
      <4> QED
        BY <4>1, <4>2, CallFields
    <3>3. \E c \in Calls : call' = [call EXCEPT ![t] = c]
      BY <2>1, <3>1, <3>2
    <3> QED
      BY <2>1, <3>3 DEF IInv, TypeOK, Steps
  <2>3. PosInv'
    BY <2>1 DEF IInv, PosInv
  <2>4. CallInv'
    <3>1. CASE call' = [call EXCEPT ![t].count = count] /\ pc' = [pc EXCEPT ![t] = "copy"]
      <4>1. /\ pc'[t] = "copy" /\ call'[t].count = count
            /\ call'[t].op = call[t].op /\ call'[t].err = call[t].err
            /\ call'[t].pos = call[t].pos /\ call'[t].done = call[t].done
            /\ call'[t].got = call[t].got
        BY <1>1, <3>1 DEF IInv, TypeOK, Calls
      <4>2. CallAt(t)'
        BY <1>2, <1>3, <4>1 DEF CallAt
      <4>3. \A s \in Threads \ {t} : pc'[s] = pc[s] /\ call'[s] = call[s]
        BY <3>1 DEF IInv, TypeOK
      <4> QED
        BY <4>2, <4>3, CallFrame DEF IInv
    <3>2. CASE /\ call' = [call EXCEPT ![t] = [@ EXCEPT !.count = 0, !.err = "ENOMEM"]]
               /\ pc' = [pc EXCEPT ![t] = "ret"]
      <4>1. call'[t].err = "ENOMEM"
        BY <1>1, <3>2 DEF IInv, TypeOK, Calls
      <4>2. pc'[t] = "ret" /\ \A s \in Threads \ {t} : pc'[s] = pc[s] /\ call'[s] = call[s]
        BY <3>2 DEF IInv, TypeOK
      <4>3. CallAt(t)'
        BY <4>1, <4>2 DEF CallAt
      <4> QED
        BY <4>2, <4>3, CallFrame DEF IInv
    <3> QED
      BY <2>1, <3>1, <3>2
  <2>5. OwnerInv'
    BY <1>4, <2>1, PsdAssumption DEF IInv, TypeOK, OwnerInv
  <2> QED
    BY <2>2, <2>3, <2>4, <2>5 DEF IInv
<1> QED
  BY <1>5, <1>6

(***************************************************************************)
(* One byte of copy_to_user or copy_from_user counts up to the clipped     *)
(* count and no further.                                                   *)
(***************************************************************************)
LEMMA CopyIInv ==
  ASSUME IInv, NEW t \in Threads, copy_to_user(t) \/ copy_from_user(t)
  PROVE  IInv'
<1>1. pc[t] = "copy" /\ call[t] \in Calls
  BY DEF IInv, TypeOK, copy_to_user, copy_from_user, Copying
<1>2. /\ call[t].pos \in Int /\ call[t].count \in Int /\ call[t].done \in Int
      /\ call[t].got \in Seq(Bytes) /\ call[t].byte \in Bytes
      /\ call[t].op \in {"read", "write"} /\ call[t].err = "OK"
      /\ call[t].pos >= 0 /\ call[t].pos + call[t].count <= DEV_MEM_SIZE
      /\ call[t].done >= 0 /\ call[t].done < call[t].count
      /\ call[t].op = "read" => Len(call[t].got) = call[t].done
  BY <1>1 DEF IInv, CallInv, CallAt, Calls, copy_to_user, copy_from_user, Copying
<1>3. call[t].pos + call[t].done \in Addresses
  BY <1>2, PsdAssumption DEF Addresses
<1>4. CASE copy_to_user(t)
  <2> DEFINE got == Append(call[t].got, buffer[call[t].pos + call[t].done])
  <2>1. got \in Seq(Bytes) /\ Len(got) = call[t].done + 1
    BY <1>2, <1>3, <1>4 DEF IInv, TypeOK, copy_to_user
  <2>2. /\ UNCHANGED <<buffer, opened, f_pos, psd_mutex, pc, overtaken>>
        /\ call' = [call EXCEPT ![t].got = got, ![t].done = @ + 1]
    BY <1>4 DEF copy_to_user
  <2> HIDE DEF got
  <2>3. TypeOK'
    <3>1. [call[t] EXCEPT !.got = got, !.done = @ + 1] \in Calls
      <4>1. [call[t] EXCEPT !.got = got] \in Calls
        BY <1>1, <2>1, CallFields
      <4> QED
        BY <4>1, CallDone, CallFields
    <3>2. \E c \in Calls : call' = [call EXCEPT ![t] = c]
      BY <2>2, <3>1
    <3> QED
      BY <2>2, <3>2 DEF IInv, TypeOK
  <2>4. PosInv' /\ OwnerInv'
    BY <2>2 DEF IInv, PosInv, OwnerInv
  <2>5. CallInv'
    <3>1. /\ pc'[t] = "copy" /\ call'[t].done = call[t].done + 1
          /\ call'[t].got = got /\ call'[t].op = call[t].op
          /\ call'[t].err = call[t].err /\ call'[t].pos = call[t].pos
          /\ call'[t].count = call[t].count
      BY <1>1, <2>2 DEF IInv, TypeOK, Calls
    <3>2. CallAt(t)'
      BY <1>2, <2>1, <3>1, PsdAssumption DEF CallAt
    <3>3. \A s \in Threads \ {t} : pc'[s] = pc[s] /\ call'[s] = call[s]
      BY <2>2 DEF IInv, TypeOK
    <3> QED
      BY <3>2, <3>3, CallFrame DEF IInv
  <2> QED
    BY <2>3, <2>4, <2>5 DEF IInv
<1>5. CASE copy_from_user(t)
  <2>1. TypeOK'
    <3>1. [call[t] EXCEPT !.done = @ + 1] \in Calls
      BY <1>1, <1>2 DEF Calls
    <3>2. \E c \in Calls : call' = [call EXCEPT ![t] = c]
      BY <1>5, <3>1 DEF copy_from_user
    <3> QED
      BY <1>2, <1>5, <3>2 DEF IInv, TypeOK, copy_from_user
  <2>2. PosInv' /\ OwnerInv'
    BY <1>5 DEF IInv, PosInv, OwnerInv, copy_from_user
  <2>3. CallInv'
    <3>1. /\ pc'[t] = "copy" /\ call'[t].done = call[t].done + 1
          /\ call[t].op = "write" /\ call'[t].op = "write"
          /\ call'[t].err = call[t].err /\ call'[t].pos = call[t].pos
          /\ call'[t].count = call[t].count
      BY <1>1, <1>5 DEF IInv, TypeOK, Calls, copy_from_user
    <3>2. CallAt(t)'
      BY <1>2, <3>1, PsdAssumption DEF CallAt
    <3>3. \A s \in Threads \ {t} : pc'[s] = pc[s] /\ call'[s] = call[s]
      BY <1>5 DEF IInv, TypeOK, copy_from_user
    <3> QED
      BY <3>2, <3>3, CallFrame DEF IInv
  <2> QED
    BY <2>1, <2>2, <2>3 DEF IInv
<1> QED
  BY <1>4, <1>5

(***************************************************************************)
(* The ends of psd_read and psd_write, with and without a fault, leave    *)
(* the position in range and the mutex without an owner.                   *)
(***************************************************************************)
LEMMA UnlockIInv ==
  ASSUME IInv, NEW t \in Threads, psd_fault(t) \/ psd_done(t)
  PROVE  IInv'
<1>1. pc[t] = "copy" /\ call[t] \in Calls
  BY DEF IInv, TypeOK, psd_fault, psd_done, Faulting
<1>2. /\ call[t].pos \in 0 .. DEV_MEM_SIZE /\ call[t].count \in Int
      /\ call[t].count >= 0 /\ call[t].pos + call[t].count <= DEV_MEM_SIZE
  BY <1>1 DEF IInv, CallInv, CallAt, Calls
<1>3. \A s \in Threads : pc[s] = "copy" => s = t
  BY <1>1 DEF IInv, OwnerInv
<1>4. PosInv'
  BY DEF IInv, PosInv, psd_fault, psd_done
<1>5. OwnerInv'
  BY <1>1, <1>3 DEF IInv, TypeOK, OwnerInv, psd_fault, psd_done
<1>6. CASE psd_fault(t)
  <2>1. ZeroFilled(t) \in [Addresses -> Bytes]
    BY PsdAssumption DEF IInv, TypeOK, ZeroFilled
  <2>2. TypeOK'
    BY <1>1, <1>6, <2>1, PsdAssumption
       DEF IInv, TypeOK, psd_fault, Calls, Errors, Steps
  <2>3. CallInv'
    BY <1>1, <1>6 DEF IInv, TypeOK, CallInv, CallAt, psd_fault, Calls
  <2> QED
    BY <1>4, <1>5, <2>2, <2>3 DEF IInv
<1>7. CASE psd_done(t)
  <2>1. TypeOK'
    <3>1. call[t].pos + call[t].count \in Int
      BY <1>2, PsdAssumption
    <3>2. [call[t] EXCEPT !.pos = @ + call[t].count] \in Calls
      BY <1>1, <3>1, CallFields
    <3>3. \E c \in Calls : call' = [call EXCEPT ![t] = c]
      BY <1>7, <3>2 DEF psd_done
    <3> QED
      BY <1>7, <3>3 DEF IInv, TypeOK, psd_done, Steps
  <2>2. CallInv'
    BY <1>1, <1>2, <1>7, PsdAssumption
       DEF IInv, TypeOK, CallInv, CallAt, psd_done, Calls
  <2> QED
    BY <1>4, <1>5, <2>1, <2>2 DEF IInv
<1> QED
  BY <1>6, <1>7

(***************************************************************************)
(* Every step of every thread keeps the invariant.                         *)
(***************************************************************************)
LEMMA NextIInv == IInv /\ [Next]_vars => IInv'
<1> SUFFICES ASSUME IInv, [Next]_vars
             PROVE  IInv'
  OBVIOUS
<1>1. CASE UNCHANGED vars
  BY <1>1 DEF IInv, TypeOK, PosInv, CallInv, CallAt, OwnerInv, vars
<1>2. ASSUME NEW f \in Files, psd_open(f) \/ psd_release(f)
      PROVE  IInv'
  BY <1>2, OpenIInv
<1>3. ASSUME NEW t \in Threads, Enter(t)
      PROVE  IInv'
  BY <1>3, EnterIInv DEF Enter
<1>4. ASSUME NEW t \in Threads, Seek(t)
      PROVE  IInv'
  BY <1>4, SeekIInv DEF Seek
<1>5. ASSUME NEW t \in Threads, TakeLock(t) \/ psd_interrupted(t)
      PROVE  IInv'
  BY <1>5, LockIInv
<1>6. ASSUME NEW t \in Threads, Proceed(t)
      PROVE  IInv'
  BY <1>6, ReturnIInv, CopyIInv, UnlockIInv DEF Proceed
<1> QED
  BY <1>1, <1>2, <1>3, <1>4, <1>5, <1>6 DEF Next

(***************************************************************************)
(* The inductive invariant holds in every reachable state.                 *)
(***************************************************************************)
THEOREM Invariance == Spec => []IInv
BY InitIInv, NextIInv, PTL DEF Spec

(***************************************************************************)
(* The driver's state keeps its type.                                      *)
(***************************************************************************)
THEOREM TypeCorrect == Spec => []TypeOK
<1>1. IInv => TypeOK
  BY DEF IInv
<1> QED
  BY <1>1, Invariance, PTL

(***************************************************************************)
(* No call ever accesses a byte outside device_buffer, however many        *)
(* threads share files, seek, fault and overtake each other.               *)
(***************************************************************************)
THEOREM BoundsCorrect == Spec => []AccessInBounds
<1>1. IInv => AccessInBounds
  BY DEF IInv, TypeOK, PosInv, CallInv, CallAt, AccessInBounds
<1> QED
  BY <1>1, Invariance, PTL
-----------------------------------------------------------------------------
(* Isolation of the copies.                                                *)

(***************************************************************************)
(* A step that leaves the memory and the copying threads alone keeps the   *)
(* copies isolated.                                                        *)
(***************************************************************************)
LEMMA IsolationFrame ==
  ASSUME CopiesAreIsolated, buffer' = buffer,
         \A s \in Threads : pc'[s] = "copy" => pc[s] = "copy" /\ call'[s] = call[s]
  PROVE  CopiesAreIsolated'
BY DEF CopiesAreIsolated

(***************************************************************************)
(* Append keeps the elements of the sequence and adds one at the end.      *)
(***************************************************************************)
LEMMA AppendAt ==
  ASSUME NEW S, NEW g \in Seq(S), NEW e \in S
  PROVE  /\ Append(g, e)[Len(g) + 1] = e
         /\ \A j \in 1 .. Len(g) : Append(g, e)[j] = g[j]
OBVIOUS

(***************************************************************************)
(* Only one thread copies at a time, so its own bytes are all that can     *)
(* change while it does.                                                   *)
(***************************************************************************)
LEMMA CopyIsolation ==
  ASSUME IInv, CopiesAreIsolated, NEW t \in Threads, copy_to_user(t) \/ copy_from_user(t)
  PROVE  CopiesAreIsolated'
<1>1. /\ pc[t] = "copy" /\ call[t] \in Calls
      /\ call[t].pos \in Int /\ call[t].done \in Int /\ call[t].count \in Int
      /\ call[t].done >= 0 /\ call[t].got \in Seq(Bytes) /\ call[t].pos >= 0
      /\ call[t].pos + call[t].count <= DEV_MEM_SIZE /\ call[t].done < call[t].count
      /\ call[t].op = "read" => Len(call[t].got) = call[t].done
  BY DEF IInv, TypeOK, CallInv, CallAt, Calls, copy_to_user, copy_from_user, Copying
<1>2. call[t].pos + call[t].done \in Addresses
  BY <1>1, PsdAssumption DEF Addresses
<1>3. \A s \in Threads : pc'[s] = "copy" => s = t
  BY <1>1 DEF IInv, OwnerInv, copy_to_user, copy_from_user
<1>4. SUFFICES ASSUME NEW i \in 0 .. call'[t].done - 1
               PROVE  buffer'[call'[t].pos + i] =
                        IF call'[t].op = "read" THEN call'[t].got[i + 1] ELSE call'[t].byte
  BY <1>3 DEF CopiesAreIsolated
<1>5. \A j \in 0 .. call[t].done - 1 :
        buffer[call[t].pos + j] =
          IF call[t].op = "read" THEN call[t].got[j + 1] ELSE call[t].byte
  BY <1>1 DEF CopiesAreIsolated
<1>6. CASE copy_to_user(t)
  <2> DEFINE got == Append(call[t].got, buffer[call[t].pos + call[t].done])
  <2>1. /\ call[t].op = "read" /\ buffer' = buffer
        /\ call'[t].op = call[t].op /\ call'[t].pos = call[t].pos
        /\ call'[t].done = call[t].done + 1 /\ call'[t].got = got
    BY <1>1, <1>6 DEF IInv, TypeOK, Calls, copy_to_user
  <2>2. buffer[call[t].pos + call[t].done] \in Bytes
    BY <1>2 DEF IInv, TypeOK
  <2>3. /\ got[call[t].done + 1] = buffer[call[t].pos + call[t].done]
        /\ \A j \in 1 .. call[t].done : got[j] = call[t].got[j]
    BY <1>1, <2>1, <2>2, AppendAt
  <2> HIDE DEF got
  <2>4. CASE i = call[t].done
    BY <2>1, <2>3, <2>4
  <2>5. CASE i # call[t].done
    <3>1. i \in 0 .. call[t].done - 1 /\ i + 1 \in 1 .. call[t].done
      BY <1>1, <2>1, <2>5
    <3> QED
      BY <1>5, <2>1, <2>3, <3>1
  <2> QED
    BY <2>4, <2>5
<1>7. CASE copy_from_user(t)
  <2>1. /\ call[t].op = "write"
        /\ buffer' = [buffer EXCEPT ![call[t].pos + call[t].done] = call[t].byte]
        /\ call'[t].op = call[t].op /\ call'[t].pos = call[t].pos
        /\ call'[t].done = call[t].done + 1 /\ call'[t].byte = call[t].byte
    BY <1>1, <1>7 DEF IInv, TypeOK, Calls, copy_from_user
  <2>2. i \in 0 .. call[t].done
    BY <1>1, <2>1
  <2>3. call[t].pos + i \in Addresses
    BY <1>1, <2>2, PsdAssumption DEF Addresses
  <2>4. CASE i = call[t].done
    BY <1>2, <2>1, <2>4 DEF IInv, TypeOK
  <2>5. CASE i # call[t].done
    <3>1. i \in 0 .. call[t].done - 1 /\ call[t].pos + i # call[t].pos + call[t].done
      BY <1>1, <2>2, <2>5
    <3>2. buffer'[call[t].pos + i] = buffer[call[t].pos + i]
      BY <2>1, <2>3, <3>1 DEF IInv, TypeOK
    <3> QED
      BY <1>5, <2>1, <3>1, <3>2
  <2> QED
    BY <2>4, <2>5
<1> QED
  BY <1>6, <1>7

(***************************************************************************)
(* Every step keeps the copies isolated: the ones that change the memory   *)
(* belong to the owner of psd_mutex.                                       *)
(***************************************************************************)
LEMMA NextIsolation == IInv /\ CopiesAreIsolated /\ [Next]_vars => CopiesAreIsolated'
<1> SUFFICES ASSUME IInv, CopiesAreIsolated, [Next]_vars
             PROVE  CopiesAreIsolated'
  OBVIOUS
<1>1. CASE UNCHANGED vars
  BY <1>1, IsolationFrame DEF vars
<1>2. ASSUME NEW f \in Files, psd_open(f) \/ psd_release(f)
      PROVE  CopiesAreIsolated'
  BY <1>2, IsolationFrame DEF psd_open, psd_release
<1>3. ASSUME NEW t \in Threads, Enter(t) \/ Seek(t) \/ psd_interrupted(t)
      PROVE  CopiesAreIsolated'
  <2>1. CASE Enter(t)
    BY <2>1, IsolationFrame DEF IInv, TypeOK, Enter, vfs_enter
  <2>2. CASE Seek(t)
    BY <2>2, IsolationFrame DEF IInv, TypeOK, Seek, psd_llseek
  <2>3. CASE psd_interrupted(t)
    BY <2>3, IsolationFrame DEF IInv, TypeOK, psd_interrupted
  <2> QED
    BY <1>3, <2>1, <2>2, <2>3
<1>4. ASSUME NEW t \in Threads, TakeLock(t)
      PROVE  CopiesAreIsolated'
  <2>1. /\ \A s \in Threads : pc[s] # "copy"
        /\ pc[t] = "lock" /\ call[t] \in Calls /\ call[t].done = 0
    BY <1>4, PsdAssumption
       DEF IInv, TypeOK, OwnerInv, CallInv, CallAt, TakeLock, psd_read_lock, psd_write_lock, Lock
  <2>2. /\ \A s \in Threads \ {t} : pc'[s] = pc[s]
        /\ pc'[t] = "copy" => call'[t].done = 0
    <3>1. CASE psd_read_lock(t)
      BY <2>1, <3>1 DEF IInv, TypeOK, Calls, psd_read_lock
    <3>2. CASE psd_write_lock(t)
      BY <2>1, <3>2 DEF IInv, TypeOK, Calls, psd_write_lock
    <3> QED
      BY <1>4, <3>1, <3>2 DEF TakeLock
  <2> QED
    BY <2>1, <2>2 DEF CopiesAreIsolated
<1>5. ASSUME NEW t \in Threads, vfs_return(t) \/ psd_llseek_set(t)
      PROVE  CopiesAreIsolated'
  BY <1>5, IsolationFrame DEF IInv, TypeOK, vfs_return, psd_llseek_set
<1>6. ASSUME NEW t \in Threads, psd_fault(t) \/ psd_done(t)
      PROVE  CopiesAreIsolated'
  <2>1. \A s \in Threads : pc'[s] # "copy"
    BY <1>6 DEF IInv, TypeOK, OwnerInv, psd_fault, psd_done, Faulting
  <2> QED
    BY <2>1 DEF CopiesAreIsolated
<1> QED
  BY <1>1, <1>2, <1>3, <1>4, <1>5, <1>6, CopyIsolation DEF Next, Proceed

(***************************************************************************)
(* While a copy is in progress its bytes in the memory are its own,        *)
(* whatever the other threads do.                                          *)
(***************************************************************************)
THEOREM IsolationCorrect == Spec => []CopiesAreIsolated
<1>1. Init => CopiesAreIsolated
  BY DEF Init, CopiesAreIsolated
<1> QED
  BY <1>1, NextIsolation, Invariance, PTL DEF Spec

-----------------------------------------------------------------------------
(* The leaked mutex.                                                       *)

\* The step that leaks psd_mutex.
EmptyWrite ==
  \E t \in Threads : /\ pc[t] = "lock" /\ psd_mutex' = t
                     /\ call[t].op = "write"
                     /\ Adjust(call[t].pos, call[t].count) = 0

(***************************************************************************)
(* A step after which psd_mutex is leaked, and before which it was not, is *)
(* the lock step of a psd_write with nothing to copy.                      *)
(***************************************************************************)
LEMMA NextLeak == IInv /\ [Next]_vars /\ ~Leaked /\ Leaked' => EmptyWrite
<1> SUFFICES ASSUME IInv, [Next]_vars, ~Leaked, Leaked'
             PROVE  EmptyWrite
  OBVIOUS
<1>1. CASE psd_mutex' = psd_mutex /\ \A s \in Threads : pc[s] = "copy" => pc'[s] = "copy"
  BY <1>1 DEF Leaked, IInv, TypeOK
<1>2. CASE psd_mutex' = None
  BY <1>2 DEF Leaked
<1>3. ASSUME NEW t \in Threads, TakeLock(t)
      PROVE  EmptyWrite
  <2>1. CASE psd_read_lock(t)
    BY <2>1 DEF psd_read_lock, Lock, Leaked, IInv, TypeOK
  <2>2. CASE psd_write_lock(t)
    BY <2>2 DEF psd_write_lock, Lock, Leaked, IInv, TypeOK, EmptyWrite
  <2> QED
    BY <1>3, <2>1, <2>2 DEF TakeLock
<1>4. CASE UNCHANGED vars
  BY <1>1, <1>4 DEF vars
<1>5. ASSUME NEW f \in Files, psd_open(f) \/ psd_release(f)
      PROVE  EmptyWrite
  BY <1>1, <1>5 DEF psd_open, psd_release
<1>6. ASSUME NEW t \in Threads, Enter(t) \/ Seek(t) \/ psd_interrupted(t)
      PROVE  EmptyWrite
  <2>1. /\ psd_mutex' = psd_mutex /\ pc[t] # "copy"
        /\ \E p : pc' = [pc EXCEPT ![t] = p]
    BY <1>6 DEF Enter, Seek, vfs_enter, psd_llseek, psd_interrupted
  <2> QED
    BY <1>1, <2>1 DEF IInv, TypeOK
<1>7. ASSUME NEW t \in Threads, vfs_return(t) \/ psd_llseek_set(t)
      PROVE  EmptyWrite
  BY <1>1, <1>7 DEF IInv, TypeOK, vfs_return, psd_llseek_set
<1>8. ASSUME NEW t \in Threads, copy_to_user(t) \/ copy_from_user(t)
      PROVE  EmptyWrite
  BY <1>1, <1>8 DEF copy_to_user, copy_from_user
<1>9. ASSUME NEW t \in Threads, psd_fault(t) \/ psd_done(t)
      PROVE  EmptyWrite
  BY <1>2, <1>9 DEF psd_fault, psd_done
<1> QED
  BY <1>3, <1>4, <1>5, <1>6, <1>7, <1>8, <1>9 DEF Next, Proceed

(***************************************************************************)
(* Only a psd_write that finds nothing to copy leaves psd_mutex locked     *)
(* behind it.                                                              *)
(***************************************************************************)
THEOREM LeakCorrect == Spec => LeakOnlyByEmptyWrite
<1>1. IInv /\ [Next]_vars => [~Leaked /\ Leaked' => EmptyWrite]_vars
  BY NextLeak
<1> QED
  BY <1>1, Invariance, PTL DEF Spec, LeakOnlyByEmptyWrite, EmptyWrite

-----------------------------------------------------------------------------
(* The positions of files, shared or not.                                  *)

FileInv == \A t \in Threads : pc[t] # "idle" => call[t].file \in FilesOf[t] \cap opened

\* A call's position is its file's, and at its end ahead by what it copied.
PosNow(t) ==
  /\ pc[t] \in {"lock", "copy"} => call[t].pos = f_pos[call[t].file]
  /\ pc[t] = "ret" /\ StoresBack(t) => call[t].pos = f_pos[call[t].file] + call[t].done

AskedFor(t) ==
  /\ pc[t] = "lock" => call[t].count \in 0 .. MaxCount
  /\ pc[t] \in {"lock", "copy"} => call[t].done <= call[t].valid
  /\ pc[t] # "idle" /\ call[t].op = "write" => call[t].got = << >>
  /\ pc[t] = "seek" => call[t].op = "llseek"

ShareInv ==
  /\ FileInv
  /\ \A t \in Threads : t \notin overtaken => PosNow(t)
  /\ \A t \in Threads : AskedFor(t)

(***************************************************************************)
(* A step of one thread that moves at most one file, and marks the threads *)
(* in a call on that file, leaves what is known of the other threads       *)
(* alone.                                                                  *)
(***************************************************************************)
LEMMA ShareFrame ==
  ASSUME IInv, ShareInv, NEW t \in Threads,
         opened' = opened,
         \A s \in Threads \ {t} : pc'[s] = pc[s] /\ call'[s] = call[s],
         pc'[t] # "idle" => call'[t].file \in FilesOf[t] \cap opened,
         \A s \in Threads \ {t} : s \in overtaken => s \in overtaken',
         NEW f \in Files, \A g \in Files \ {f} : f_pos'[g] = f_pos[g],
         \/ f_pos'[f] = f_pos[f]
         \/ \A s \in Threads \ {t} : pc[s] # "idle" /\ call[s].file = f => s \in overtaken',
         t \notin overtaken' => PosNow(t)', AskedFor(t)'
  PROVE  ShareInv'
<1>1. FileInv'
  BY DEF ShareInv, FileInv
<1>2. ASSUME NEW s \in Threads, s # t
      PROVE  AskedFor(s)' /\ (s \notin overtaken' => PosNow(s)')
  <2>1. /\ pc'[s] = pc[s] /\ call'[s] = call[s] /\ AskedFor(s)
        /\ s \notin overtaken' => PosNow(s)
    BY <1>2 DEF ShareInv
  <2>2. pc[s] # "idle" /\ s \notin overtaken' => f_pos'[call[s].file] = f_pos[call[s].file]
    <3>1. pc[s] # "idle" => call[s].file \in Files
      BY PsdAssumption DEF ShareInv, FileInv
    <3> QED
      BY <1>2, <3>1
  <2> QED
    BY <2>1, <2>2 DEF PosNow, AskedFor, StoresBack
<1> QED
  BY <1>1, <1>2 DEF ShareInv

(***************************************************************************)
(* psd_open moves a file that no call is in, and psd_release ends one.     *)
(***************************************************************************)
LEMMA OpenShare ==
  ASSUME IInv, ShareInv, NEW f \in Files, psd_open(f) \/ psd_release(f)
  PROVE  ShareInv'
<1>1. CASE psd_open(f)
  <2>1. \A t \in Threads : pc[t] # "idle" => call[t].file \in Files \ {f}
    BY <1>1, PsdAssumption DEF ShareInv, FileInv, psd_open
  <2>2. FileInv' /\ \A t \in Threads : AskedFor(t)'
    BY <1>1 DEF ShareInv, FileInv, AskedFor, psd_open
  <2>3. ASSUME NEW t \in Threads, t \notin overtaken'
        PROVE  PosNow(t)'
    <3>1. PosNow(t) /\ pc' = pc /\ call' = call
      BY <1>1, <2>3 DEF ShareInv, psd_open
    <3>2. pc[t] # "idle" => f_pos'[call[t].file] = f_pos[call[t].file]
      BY <1>1, <2>1 DEF IInv, TypeOK, psd_open
    <3> QED
      BY <3>1, <3>2 DEF PosNow, StoresBack
  <2> QED
    BY <2>2, <2>3 DEF ShareInv
<1>2. CASE psd_release(f)
  BY <1>2 DEF ShareInv, FileInv, PosNow, StoresBack, AskedFor, psd_release, Busy
<1> QED
  BY <1>1, <1>2

(***************************************************************************)
(* A call starts with the position of its file.                            *)
(***************************************************************************)
LEMMA StartShare ==
  ASSUME IInv, ShareInv, NEW t \in Threads, Enter(t) \/ Seek(t)
  PROVE  ShareInv'
<1>1. CASE Enter(t)
  <2>1. PICK f \in Files, n \in 0 .. MaxCount, b \in Bytes, k \in Nat, o \in {"read", "write"} :
          vfs_enter(t, f, o, n, k, b)
    BY <1>1 DEF Enter
  <2>2. /\ pc'[t] = "lock" /\ call'[t] = NewCall(o, f, f_pos[f], n, k, b)
        /\ f_pos' = f_pos /\ opened' = opened /\ f \in FilesOf[t] \cap opened
        /\ overtaken' = overtaken
        /\ \A s \in Threads \ {t} : pc'[s] = pc[s] /\ call'[s] = call[s]
    BY <2>1 DEF IInv, TypeOK, vfs_enter
  <2>3. PosNow(t)' /\ AskedFor(t)'
    BY <2>2 DEF PosNow, AskedFor, NewCall
  <2> QED
    BY <2>2, <2>3, ShareFrame DEF NewCall
<1>2. CASE Seek(t)
  <2>1. PICK f \in Files, offset \in Offsets, whence \in Whences :
          psd_llseek(t, f, offset, whence)
    BY <1>2 DEF Seek
  <2>2. /\ pc'[t] \in {"ret", "seek"} /\ call'[t].op = "llseek" /\ call'[t].file = f
        /\ f_pos' = f_pos /\ opened' = opened /\ f \in FilesOf[t] \cap opened
        /\ overtaken' = overtaken
        /\ \A s \in Threads \ {t} : pc'[s] = pc[s] /\ call'[s] = call[s]
    BY <2>1 DEF IInv, TypeOK, psd_llseek, NewCall
  <2>3. PosNow(t)' /\ AskedFor(t)'
    BY <2>2 DEF PosNow, StoresBack, AskedFor
  <2> QED
    BY <2>2, <2>3, ShareFrame
<1> QED
  BY <1>1, <1>2

(***************************************************************************)
(* What is known of a call in progress.                                    *)
(***************************************************************************)
LEMMA CallFacts ==
  ASSUME IInv, FileInv, NEW t \in Threads, pc[t] # "idle"
  PROVE  /\ call[t] \in Calls /\ call[t].file \in FilesOf[t] \cap opened /\ call[t].file \in Files
         /\ call[t].op \in {"read", "write", "llseek"} /\ call[t].err \in Errors
         /\ call[t].pos \in Int /\ call[t].count \in Int /\ call[t].valid \in Int
         /\ call[t].done \in Int /\ call[t].byte \in Bytes /\ call[t].got \in Seq(Bytes)
BY DEF IInv, TypeOK, Calls, FileInv

(***************************************************************************)
(* Getting psd_mutex, or a signal instead, leaves the position alone.      *)
(***************************************************************************)
LEMMA LockShare ==
  ASSUME IInv, ShareInv, NEW t \in Threads, TakeLock(t) \/ psd_interrupted(t)
  PROVE  ShareInv'
<1>1. pc[t] = "lock" /\ (t \notin overtaken => PosNow(t)) /\ AskedFor(t) /\ CallAt(t)
  BY DEF TakeLock, psd_read_lock, psd_write_lock, psd_interrupted, ShareInv, IInv, CallInv
<1>2. call[t] \in Calls /\ call[t].file \in FilesOf[t] \cap opened /\ call[t].file \in Files
  BY <1>1, CallFacts DEF ShareInv
<1>3. /\ opened' = opened /\ f_pos' = f_pos /\ pc'[t] \in {"copy", "ret"}
      /\ overtaken' = overtaken
      /\ call'[t].file = call[t].file /\ call'[t].pos = call[t].pos /\ call'[t].op = call[t].op
      /\ call'[t].done = call[t].done /\ call'[t].valid = call[t].valid
      /\ call'[t].got = call[t].got /\ (pc'[t] = "ret" => call'[t].err # "OK")
      /\ \A s \in Threads \ {t} : pc'[s] = pc[s] /\ call'[s] = call[s]
  <2>1. CASE psd_read_lock(t)
    BY <1>2, <2>1 DEF psd_read_lock, IInv, TypeOK, Calls
  <2>2. CASE psd_write_lock(t)
    <3>1. CASE pc' = [pc EXCEPT ![t] = "ret"] /\ call' = [call EXCEPT ![t] =
                 [call[t] EXCEPT !.count = 0, !.err = "ENOMEM"]]
      BY <1>2, <2>2, <3>1 DEF psd_write_lock, IInv, TypeOK, Calls
    <3>2. CASE pc' = [pc EXCEPT ![t] = "copy"] /\ call' = [call EXCEPT ![t].count =
                 Adjust(call[t].pos, call[t].count)]
      BY <1>2, <2>2, <3>2 DEF psd_write_lock, IInv, TypeOK, Calls
    <3> QED
      BY <2>2, <3>1, <3>2 DEF psd_write_lock, IInv, TypeOK
  <2>3. CASE psd_interrupted(t)
    BY <1>2, <2>3 DEF psd_interrupted, IInv, TypeOK, Calls
  <2> QED
    BY <2>1, <2>2, <2>3 DEF TakeLock
<1>4. (t \notin overtaken' => PosNow(t)') /\ AskedFor(t)'
  BY <1>1, <1>3 DEF PosNow, StoresBack, AskedFor, CallAt
<1> QED
  BY <1>2, <1>3, <1>4, ShareFrame

(***************************************************************************)
(* A copy counts up to the bytes the user has, and its end advances the    *)
(* position by the count.                                                  *)
(***************************************************************************)
LEMMA CopyShare ==
  ASSUME IInv, ShareInv, NEW t \in Threads,
         copy_to_user(t) \/ copy_from_user(t) \/ psd_fault(t) \/ psd_done(t)
  PROVE  ShareInv'
<1>1. pc[t] = "copy" /\ (t \notin overtaken => PosNow(t)) /\ AskedFor(t) /\ CallAt(t)
  BY DEF copy_to_user, copy_from_user, psd_fault, psd_done, Copying, Faulting, ShareInv, IInv, CallInv
<1>2. call[t] \in Calls /\ call[t].file \in FilesOf[t] \cap opened /\ call[t].file \in Files
  BY <1>1, CallFacts DEF ShareInv
<1>3. call[t].pos \in Int /\ call[t].count \in Int /\ call[t].valid \in Int /\ call[t].done \in Int
  BY <1>1, CallFacts DEF ShareInv
<1>4. /\ opened' = opened /\ f_pos' = f_pos /\ pc'[t] \in {"copy", "ret"}
      /\ overtaken' = overtaken
      /\ call'[t].file = call[t].file /\ call'[t].op = call[t].op
      /\ call'[t].valid = call[t].valid
      /\ \A s \in Threads \ {t} : pc'[s] = pc[s] /\ call'[s] = call[s]
      /\ call[t].op = "write" => call'[t].got = call[t].got
      /\ pc'[t] = "copy" => call'[t].pos = call[t].pos /\ call'[t].done <= call[t].valid
      /\ pc'[t] = "ret" /\ call'[t].err = "OK" =>
           call'[t].pos = call[t].pos + call[t].count /\ call'[t].done = call[t].count
  <2>1. CASE copy_to_user(t)
    BY <1>1, <1>2, <1>3, <2>1 DEF copy_to_user, Copying, IInv, TypeOK, Calls
  <2>2. CASE copy_from_user(t)
    BY <1>1, <1>2, <1>3, <2>2 DEF copy_from_user, Copying, IInv, TypeOK, Calls
  <2>3. CASE psd_fault(t)
    BY <1>2, <2>3 DEF psd_fault, IInv, TypeOK, Calls
  <2>4. CASE psd_done(t)
    BY <1>2, <2>4 DEF psd_done, IInv, TypeOK, Calls
  <2> QED
    BY <2>1, <2>2, <2>3, <2>4
<1>5. f_pos[call[t].file] \in Int
  BY <1>2 DEF IInv, TypeOK
<1>6. (t \notin overtaken' => PosNow(t)') /\ AskedFor(t)'
  BY <1>1, <1>3, <1>4, <1>5 DEF PosNow, StoresBack, AskedFor, CallAt
<1> QED
  BY <1>2, <1>4, <1>6, ShareFrame

(***************************************************************************)
(* A call that stores a position marks the other calls on its file.        *)
(***************************************************************************)
LEMMA ReturnShare ==
  ASSUME IInv, ShareInv, NEW t \in Threads, vfs_return(t) \/ psd_llseek_set(t)
  PROVE  ShareInv'
<1>1. pc[t] \in {"ret", "seek"} /\ AskedFor(t)
  BY DEF vfs_return, psd_llseek_set, ShareInv
<1>2. call[t] \in Calls /\ call[t].file \in FilesOf[t] \cap opened /\ call[t].file \in Files
  BY <1>1, CallFacts DEF ShareInv
<1>3. /\ opened' = opened /\ pc'[t] \in {"idle", "ret"}
      /\ \A g \in Files \ {call[t].file} : f_pos'[g] = f_pos[g]
      /\ pc'[t] = "ret" => pc[t] = "seek" /\ call'[t] = call[t]
      /\ \A s \in Threads \ {t} : pc'[s] = pc[s] /\ call'[s] = call[s]
  <2>1. CASE vfs_return(t)
    BY <1>2, <2>1 DEF vfs_return, IInv, TypeOK
  <2>2. CASE psd_llseek_set(t)
    BY <1>2, <2>2 DEF psd_llseek_set, IInv, TypeOK
  <2> QED
    BY <2>1, <2>2
<1>4. /\ \A s \in Threads \ {t} : s \in overtaken => s \in overtaken'
      /\ \/ f_pos'[call[t].file] = f_pos[call[t].file]
         \/ \A s \in Threads \ {t} :
              pc[s] # "idle" /\ call[s].file = call[t].file => s \in overtaken'
  BY DEF vfs_return, psd_llseek_set, OthersOn
<1>5. PosNow(t)' /\ AskedFor(t)'
  BY <1>1, <1>3 DEF PosNow, StoresBack, AskedFor
<1> QED
  BY <1>2, <1>3, <1>4, <1>5, ShareFrame

(***************************************************************************)
(* Every step keeps ShareInv.                                              *)
(***************************************************************************)
LEMMA NextShare == IInv /\ ShareInv /\ [Next]_vars => ShareInv'
<1> SUFFICES ASSUME IInv, ShareInv, [Next]_vars
             PROVE  ShareInv'
  OBVIOUS
<1>1. CASE UNCHANGED vars
  BY <1>1 DEF vars, ShareInv, FileInv, PosNow, StoresBack, AskedFor
<1> QED
  BY <1>1, OpenShare, StartShare, LockShare, CopyShare, ReturnShare DEF Next, Proceed

(***************************************************************************)
(* A call's position is its file's until it returns, unless another call   *)
(* has moved the file.                                                     *)
(***************************************************************************)
THEOREM ShareInvariance == Spec => []ShareInv
<1>1. Init => ShareInv
  BY DEF Init, ShareInv, FileInv, PosNow, AskedFor
<1> QED
  BY <1>1, NextShare, Invariance, PTL DEF Spec

(***************************************************************************)
(* However many threads share a file, a call moves it by the bytes it has  *)
(* copied unless another call moved the file meanwhile.                    *)
(***************************************************************************)
THEOREM AdvanceCorrect == Spec => LostOnlyIfOvertaken
<1> DEFINE Advances ==
             \A t \in Threads : ReturnsFromCopy(t) /\ t \notin overtaken => AddsItsBytes(t)
<1>1. IInv /\ ShareInv /\ [Next]_vars => [Advances]_vars
  <2> SUFFICES ASSUME IInv, ShareInv, Next, NEW t \in Threads,
                      pc[t] = "ret", pc'[t] = "idle", call[t].op # "llseek", t \notin overtaken
               PROVE  AddsItsBytes(t)
    BY DEF ReturnsFromCopy
  <2>1. vfs_return(t)
    <3>1. ASSUME NEW s \in Threads, vfs_return(s)
          PROVE  s = t
      BY <3>1 DEF vfs_return, IInv, TypeOK
    <3>2. ASSUME NEW s \in Threads, Enter(s) \/ Seek(s) \/ psd_llseek_set(s)
          PROVE  FALSE
      <4>1. \E p \in {"lock", "ret", "seek"} : pc' = [pc EXCEPT ![s] = p]
        BY <3>2 DEF Enter, Seek, vfs_enter, psd_llseek, psd_llseek_set
      <4> QED
        BY <4>1 DEF IInv, TypeOK
    <3>3. ASSUME NEW s \in Threads,
                 \/ TakeLock(s) \/ psd_interrupted(s) \/ copy_to_user(s)
                 \/ copy_from_user(s) \/ psd_fault(s) \/ psd_done(s)
          PROVE  FALSE
      <4>1. pc' = pc \/ \E p \in {"copy", "ret"} : pc' = [pc EXCEPT ![s] = p]
        BY <3>3 DEF TakeLock, psd_read_lock, psd_write_lock, psd_interrupted,
           copy_to_user, copy_from_user, psd_fault, psd_done
      <4> QED
        BY <4>1 DEF IInv, TypeOK
    <3>4. ASSUME NEW f \in Files, psd_open(f) \/ psd_release(f)
          PROVE  FALSE
      BY <3>4 DEF psd_open, psd_release
    <3> QED
      BY <3>1, <3>2, <3>3, <3>4 DEF Next, Proceed
  <2>2. /\ call[t].file \in Files /\ call[t].pos \in Int /\ call[t].done \in Int
        /\ f_pos \in [Files -> Int] /\ PosNow(t)
    BY CallFacts DEF ShareInv, IInv, TypeOK
  <2> QED
    BY <2>1, <2>2 DEF vfs_return, PosNow, StoresBack, AddsItsBytes
<1> QED
  BY <1>1, ShareInvariance, Invariance, PTL DEF Spec, LostOnlyIfOvertaken

-----------------------------------------------------------------------------
(* Private files: no call is ever overtaken.                               *)

PrivateFiles == \A s, t \in Threads : s # t => FilesOf[s] \cap FilesOf[t] = {}

PrivInv ==
  /\ FileInv
  /\ \A t \in Threads : PosNow(t)
  /\ \A t \in Threads : AskedFor(t)
  /\ overtaken = {}

(***************************************************************************)
(* No other thread is in a call on a file that only one thread has.        *)
(***************************************************************************)
LEMMA NextAlone ==
  PrivateFiles /\ ShareInv /\ overtaken = {} /\ [Next]_vars => overtaken' = {}
<1> SUFFICES ASSUME PrivateFiles, ShareInv, overtaken = {}, [Next]_vars
             PROVE  overtaken' = {}
  OBVIOUS
<1>1. CASE overtaken' = overtaken
  BY <1>1
<1>2. ASSUME NEW t \in Threads, vfs_return(t) \/ psd_llseek_set(t)
      PROVE  overtaken' = {}
  <2>1. OthersOn(t) = {}
    BY <1>2 DEF OthersOn, PrivateFiles, ShareInv, FileInv, vfs_return, psd_llseek_set
  <2> QED
    BY <1>2, <2>1 DEF vfs_return, psd_llseek_set
<1>3. ASSUME NEW t \in Threads, Enter(t) \/ Seek(t)
      PROVE  overtaken' = overtaken
  BY <1>3, Zenon DEF Enter, Seek, vfs_enter, psd_llseek
<1>4. ASSUME NEW t \in Threads,
             \/ TakeLock(t) \/ psd_interrupted(t) \/ copy_to_user(t)
             \/ copy_from_user(t) \/ psd_fault(t) \/ psd_done(t)
      PROVE  overtaken' = overtaken
  BY <1>4, Zenon DEF TakeLock, psd_read_lock, psd_write_lock, psd_interrupted,
     copy_to_user, copy_from_user, psd_fault, psd_done
<1>5. ASSUME NEW f \in Files, psd_open(f) \/ psd_release(f)
      PROVE  overtaken' = overtaken
  BY <1>5 DEF psd_open, psd_release
<1>6. CASE UNCHANGED vars
  BY <1>1, <1>6 DEF vars
<1> QED
  BY <1>1, <1>2, <1>3, <1>4, <1>5, <1>6 DEF Next, Proceed

(***************************************************************************)
(* With private files every step keeps PrivInv.                            *)
(***************************************************************************)
LEMMA NextPriv == PrivateFiles /\ IInv /\ PrivInv /\ [Next]_vars => PrivInv'
<1>1. PrivInv <=> ShareInv /\ overtaken = {}
  BY DEF ShareInv, PrivInv
<1>2. ShareInv' /\ overtaken' = {} => PrivInv'
  BY DEF ShareInv, PrivInv
<1> QED
  BY <1>1, <1>2, NextShare, NextAlone

(***************************************************************************)
(* With private files a call's position is its file's until it returns.    *)
(***************************************************************************)
THEOREM PrivInvariance == ASSUME PrivateFiles PROVE Spec => []PrivInv
<1>1. Init => PrivInv
  BY DEF Init, PrivInv, FileInv, PosNow, AskedFor
<1>2. IInv /\ PrivInv /\ [Next]_vars => PrivInv'
  BY NextPriv
<1> QED
  BY <1>1, <1>2, Invariance, PTL DEF Spec

-----------------------------------------------------------------------------
(* The refinement mapping.                                                 *)

\* The memory seen while t, the only writer, copies.
Filled(t) ==
  [a \in Addresses |->
     IF Covers(t, a) THEN IF a < call[t].pos + call[t].valid THEN call[t].byte ELSE Zero
                     ELSE buffer[a]]

FposAt(t) == IF pc[t] = "copy" THEN call[t].pos + call[t].count ELSE call[t].pos

MemValue ==
  /\ (\A t \in Threads : ~Writing(t)) => MemBar = buffer
  /\ \A t \in Threads : Writing(t) => MemBar = Filled(t)

(***************************************************************************)
(* There is one writer at a time, so that MemBar is the buffer or what the *)
(* writer will have made of it.                                            *)
(***************************************************************************)
LEMMA MemBarValue == IInv => MemValue
<1> SUFFICES ASSUME IInv
             PROVE  /\ (\A t \in Threads : ~Writing(t)) => MemBar = buffer
                    /\ \A t \in Threads : Writing(t) => MemBar = Filled(t)
  BY DEF MemValue
<1>1. ASSUME \A t \in Threads : ~Writing(t)
      PROVE  MemBar = buffer
  BY <1>1 DEF MemBar, IInv, TypeOK
<1>2. ASSUME NEW t \in Threads, Writing(t)
      PROVE  MemBar = Filled(t)
  <2>1. \A s \in Threads : Writing(s) => s = t
    BY <1>2 DEF Writing, IInv, OwnerInv
  <2>2. ASSUME NEW a \in Addresses, Covers(t, a)
        PROVE  (CHOOSE s \in Threads : Writing(s) /\ Covers(s, a)) = t
    BY <1>2, <2>1, <2>2
  <2> QED
    BY <1>2, <2>1, <2>2 DEF MemBar, Filled
<1> QED
  BY <1>1, <1>2

(***************************************************************************)
(* The same after a step.                                                  *)
(***************************************************************************)
LEMMA MemBarNext == IInv' => MemValue'
BY MemBarValue, PTL

(***************************************************************************)
(* With private files there is one call on a file at a time, so that       *)
(* FposBar is the file's position or what its call will make of it.        *)
(***************************************************************************)
LEMMA FposBarValue ==
  PrivateFiles /\ IInv /\ PrivInv =>
    \A t \in Threads : \A f \in FilesOf[t] :
      (pc[t] # "idle" => call[t].file = f) =>
        FposBar[f] = IF Succeeds(t) THEN FposAt(t) ELSE f_pos[f]
<1> SUFFICES ASSUME PrivateFiles, IInv, PrivInv, NEW t \in Threads, NEW f \in FilesOf[t],
                    pc[t] # "idle" => call[t].file = f
             PROVE  FposBar[f] = IF Succeeds(t) THEN FposAt(t) ELSE f_pos[f]
  OBVIOUS
<1>1. f \in Files
  BY PsdAssumption
<1>2. \A s \in Threads : Succeeds(s) /\ call[s].file = f => s = t
  BY DEF Succeeds, PrivInv, FileInv, PrivateFiles
<1>3. CASE Succeeds(t)
  <2>1. pc[t] # "idle" /\ call[t].file = f
    BY <1>3 DEF Succeeds
  <2>2. (CHOOSE s \in Threads : Succeeds(s) /\ call[s].file = f) = t
    BY <1>2, <1>3, <2>1
  <2> QED
    BY <1>1, <1>3, <2>1, <2>2 DEF FposBar, FposAt
<1>4. CASE ~Succeeds(t)
  BY <1>1, <1>2, <1>4 DEF FposBar
<1> QED
  BY <1>3, <1>4

(***************************************************************************)
(* What a step of thread t on file f can do to the mapped positions.       *)
(***************************************************************************)
LEMMA FposStep ==
  ASSUME PrivateFiles, IInv, PrivInv, IInv', PrivInv', NEW t \in Threads,
         \A s \in Threads \ {t} : pc'[s] = pc[s] /\ call'[s] = call[s],
         NEW f \in FilesOf[t], \A g \in Files \ {f} : f_pos'[g] = f_pos[g],
         pc[t] # "idle" => call[t].file = f,
         pc'[t] # "idle" => call'[t].file = f
  PROVE  /\ FposBar[f] = IF Succeeds(t) THEN FposAt(t) ELSE f_pos[f]
         /\ FposBar' = [FposBar EXCEPT ![f] = IF Succeeds(t)' THEN FposAt(t)' ELSE f_pos'[f]]
<1>1. FposBar[f] = IF Succeeds(t) THEN FposAt(t) ELSE f_pos[f]
  BY FposBarValue
<1>2. FposBar'[f] = IF Succeeds(t)' THEN FposAt(t)' ELSE f_pos'[f]
  <2>1. \A s \in Threads : Succeeds(s)' /\ call'[s].file = f => s = t
    BY DEF Succeeds, PrivInv, FileInv, PrivateFiles
  <2>2. f \in Files
    BY PsdAssumption
  <2>3. CASE Succeeds(t)'
    <3>1. call'[t].file = f
      BY <2>3 DEF Succeeds
    <3>2. (CHOOSE s \in Threads : Succeeds(s)' /\ call'[s].file = f) = t
      BY <2>1, <2>3, <3>1
    <3> QED
      BY <2>2, <2>3, <3>1, <3>2 DEF FposBar, FposAt
  <2>4. CASE ~Succeeds(t)'
    BY <2>1, <2>2, <2>4 DEF FposBar
  <2> QED
    BY <2>3, <2>4
<1>3. ASSUME NEW g \in Files, g # f
      PROVE  FposBar'[g] = FposBar[g]
  <2>1. \A s \in Threads : (Succeeds(s) /\ call[s].file = g) => s # t
    BY <1>3 DEF Succeeds
  <2>2. \A s \in Threads : (Succeeds(s)' /\ call'[s].file = g) => s # t
    BY <1>3 DEF Succeeds
  <2>3. \A s \in Threads \ {t} : Succeeds(s)' = Succeeds(s)
    BY DEF Succeeds
  <2>4. CASE \E s \in Threads : Succeeds(s) /\ call[s].file = g
    <3>1. PICK s \in Threads : Succeeds(s) /\ call[s].file = g
      BY <2>4
    <3>2. s # t /\ Succeeds(s)' /\ call'[s].file = g /\ pc'[s] = pc[s] /\ call'[s] = call[s]
      BY <2>1, <2>3, <3>1
    <3>3. \A r \in Threads : Succeeds(r) /\ call[r].file = g => r = s
      BY <3>1 DEF Succeeds, PrivInv, FileInv, PrivateFiles
    <3>4. \A r \in Threads : Succeeds(r)' /\ call'[r].file = g => r = s
      BY <2>2, <2>3, <3>3
    <3>5. (CHOOSE r \in Threads : Succeeds(r) /\ call[r].file = g) = s
      BY <3>1, <3>3
    <3>6. (CHOOSE r \in Threads : Succeeds(r)' /\ call'[r].file = g) = s
      BY <3>2, <3>4
    <3>7. FposBar[g] = FposAt(s)
      BY <3>1, <3>5 DEF FposBar, FposAt
    <3>8. FposBar'[g] = FposAt(s)'
      BY <3>2, <3>6 DEF FposBar, FposAt
    <3> QED
      BY <3>2, <3>7, <3>8 DEF FposAt
  <2>5. CASE ~\E s \in Threads : Succeeds(s) /\ call[s].file = g
    <3>1. ~\E s \in Threads : Succeeds(s)' /\ call'[s].file = g
      BY <2>2, <2>3, <2>5
    <3> QED
      BY <1>3, <2>5, <3>1 DEF FposBar
  <2> QED
    BY <2>4, <2>5
<1>4. f \in Files
  BY PsdAssumption
<1>5. /\ FposBar = [g \in Files |-> FposBar[g]]
      /\ FposBar' = [g \in Files |-> FposBar'[g]]
  BY DEF FposBar
<1> HIDE DEF FposBar
<1> QED
  BY <1>1, <1>2, <1>3, <1>4, <1>5

(***************************************************************************)
(* A step of t changes only what t has asked for or been answered: the     *)
(* bytes another thread will get are safe from it.                         *)
(***************************************************************************)
LEMMA ReqStep ==
  ASSUME IInv, NEW t \in Threads,
         \A s \in Threads \ {t} : pc'[s] = pc[s] /\ call'[s] = call[s],
         buffer' = buffer \/ pc[t] = "copy"
  PROVE  /\ ReqBar' = [ReqBar EXCEPT ![t] = RequestOf(t)']
         /\ ReqBar[t] = RequestOf(t)
<1>1. ASSUME NEW s \in Threads \ {t}
      PROVE  RequestOf(s)' = RequestOf(s)
  <2>1. pc[s] = "copy" => buffer' = buffer
    BY DEF IInv, OwnerInv
  <2>2. Succeeds(s)' = Succeeds(s)
    BY DEF Succeeds
  <2> QED
    BY <2>1, <2>2 DEF RequestOf
<1> QED
  BY <1>1 DEF ReqBar

(***************************************************************************)
(* A step of t that leaves the buffer alone and is no part of a write      *)
(* leaves the mapped memory alone.                                         *)
(***************************************************************************)
LEMMA MemSame ==
  ASSUME IInv, IInv', NEW t \in Threads,
         \A s \in Threads \ {t} : pc'[s] = pc[s] /\ call'[s] = call[s],
         buffer' = buffer, ~Writing(t), ~Writing(t)'
  PROVE  MemBar' = MemBar
<1>1. \A s \in Threads : Writing(s)' = Writing(s)
  BY DEF Writing
<1>2. MemValue /\ MemValue'
  BY MemBarValue, MemBarNext
<1>3. CASE \A s \in Threads : ~Writing(s)
  BY <1>1, <1>2, <1>3 DEF MemValue
<1>4. ASSUME NEW s \in Threads, Writing(s)
      PROVE  MemBar' = MemBar
  <2>1. Writing(s)' /\ s # t
    BY <1>1, <1>4
  <2>2. MemBar' = Filled(s)' /\ MemBar = Filled(s)
    BY <1>2, <1>4, <2>1 DEF MemValue
  <2>3. call'[s] = call[s]
    BY <2>1
  <2> QED
    BY <2>2, <2>3 DEF Filled, Covers
<1> QED
  BY <1>3, <1>4

(***************************************************************************)
(* What the mapped state looks like before and after a step of t on f.     *)
(***************************************************************************)
LEMMA BarStep ==
  ASSUME PrivateFiles, IInv, PrivInv, IInv', PrivInv', NEW t \in Threads,
         \A s \in Threads \ {t} : pc'[s] = pc[s] /\ call'[s] = call[s],
         NEW f \in FilesOf[t], \A g \in Files \ {f} : f_pos'[g] = f_pos[g],
         pc[t] # "idle" => call[t].file = f,
         pc'[t] # "idle" => call'[t].file = f,
         buffer' = buffer \/ pc[t] = "copy"
  PROVE  /\ FposBar[f] = IF Succeeds(t) THEN FposAt(t) ELSE f_pos[f]
         /\ FposBar' = [FposBar EXCEPT ![f] = IF Succeeds(t)' THEN FposAt(t)' ELSE f_pos'[f]]
         /\ FposBar = [g \in Files |-> FposBar[g]]
         /\ ReqBar' = [ReqBar EXCEPT ![t] = RequestOf(t)']
         /\ ReqBar = [s \in Threads |-> ReqBar[s]]
         /\ ReqBar[t] = RequestOf(t)
<1>1. FposBar = [g \in Files |-> FposBar[g]] /\ ReqBar = [s \in Threads |-> ReqBar[s]]
  BY DEF FposBar, ReqBar
<1> QED
  BY <1>1, FposStep, ReqStep

-----------------------------------------------------------------------------
(* Each step of the driver is a step of the memory, or none.               *)

(***************************************************************************)
(* Entering a read or a write asks for it.                                 *)
(***************************************************************************)
LEMMA EnterAsks ==
  ASSUME PrivateFiles, IInv, PrivInv, IInv', PrivInv', NEW t \in Threads, Enter(t)
  PROVE  Memory!Ask(t)
<1>1. PICK f \in Files, n \in 0 .. MaxCount, b \in Bytes, k \in Nat, o \in {"read", "write"} :
        vfs_enter(t, f, o, n, k, b)
  BY DEF Enter
<1>2. /\ pc[t] = "idle" /\ pc'[t] = "lock" /\ f \in FilesOf[t]
      /\ f_pos' = f_pos /\ buffer' = buffer
      /\ \A s \in Threads \ {t} : pc'[s] = pc[s] /\ call'[s] = call[s]
  BY <1>1 DEF IInv, TypeOK, vfs_enter
<1>3. /\ call'[t].file = f /\ call'[t].op = o /\ call'[t].count = n /\ call'[t].byte = b
  BY <1>1 DEF IInv, TypeOK, vfs_enter, NewCall
<1>4. ~Succeeds(t) /\ ~Succeeds(t)' /\ ~Writing(t) /\ ~Writing(t)'
  BY <1>2 DEF Succeeds, Writing
<1>5. RequestOf(t) = [st |-> "idle"]
  BY <1>2 DEF RequestOf
<1>6. RequestOf(t)' = [st |-> "asked", op |-> o, file |-> f, count |-> n, byte |-> b]
  BY <1>2, <1>3 DEF RequestOf
<1>7. MemBar' = MemBar
  BY <1>2, <1>4, MemSame
<1>8. FposBar' = FposBar
  BY <1>2, <1>3, <1>4, BarStep
<1>9. ReqBar[t] = RequestOf(t) /\ ReqBar' = [ReqBar EXCEPT ![t] = RequestOf(t)']
  BY <1>2, <1>3, BarStep
<1> QED
  BY <1>5, <1>6, <1>7, <1>8, <1>9 DEF Memory!Ask, Memory!Idle, Memory!Asked

(***************************************************************************)
(* The first step of psd_llseek shows nothing.                             *)
(***************************************************************************)
LEMMA SeekStutters ==
  ASSUME PrivateFiles, IInv, PrivInv, IInv', PrivInv', NEW t \in Threads, Seek(t)
  PROVE  UNCHANGED Memory!avars
<1>1. PICK f \in Files, offset \in Offsets, whence \in Whences :
        psd_llseek(t, f, offset, whence)
  BY DEF Seek
<1>2. /\ pc[t] = "idle" /\ pc'[t] \in {"ret", "seek"} /\ f \in FilesOf[t]
      /\ f_pos' = f_pos /\ buffer' = buffer
      /\ \A s \in Threads \ {t} : pc'[s] = pc[s] /\ call'[s] = call[s]
      /\ call'[t].file = f /\ call'[t].op = "llseek"
  BY <1>1 DEF IInv, TypeOK, psd_llseek, NewCall
<1>3. ~Succeeds(t) /\ ~Succeeds(t)' /\ ~Writing(t) /\ ~Writing(t)'
  BY <1>2 DEF Succeeds, Writing
<1>4. RequestOf(t) = [st |-> "idle"] /\ RequestOf(t)' = [st |-> "idle"]
  BY <1>2 DEF RequestOf
<1>5. MemBar' = MemBar
  BY <1>2, <1>3, MemSame
<1>6. FposBar' = FposBar /\ ReqBar' = ReqBar
  BY <1>2, <1>3, <1>4, BarStep
<1> QED
  BY <1>5, <1>6 DEF Memory!avars

(***************************************************************************)
(* A call that a signal ends while it waits fails and moves nothing.       *)
(***************************************************************************)
LEMMA InterruptFails ==
  ASSUME PrivateFiles, IInv, PrivInv, IInv', PrivInv', NEW t \in Threads, psd_interrupted(t)
  PROVE  Memory!Fail(t)
<1> DEFINE f == call[t].file
           c == call[t]
<1>1. /\ pc[t] = "lock" /\ pc'[t] = "ret" /\ f_pos' = f_pos /\ buffer' = buffer
      /\ call[t] \in Calls /\ call' = [call EXCEPT ![t].err = "EINTR"]
      /\ \A s \in Threads \ {t} : pc'[s] = pc[s] /\ call'[s] = call[s]
  BY DEF IInv, TypeOK, psd_interrupted
<1>2. /\ f \in FilesOf[t] /\ c.op # "llseek"
  BY <1>1 DEF PrivInv, FileInv, IInv, CallInv, CallAt
<1>3. call'[t].file = f /\ call'[t].op = c.op /\ call'[t].err = "EINTR"
  BY <1>1 DEF IInv, TypeOK, Calls
<1>4. ~Succeeds(t) /\ ~Succeeds(t)' /\ ~Writing(t) /\ ~Writing(t)'
  BY <1>1, <1>3 DEF Succeeds, Writing
<1>5. RequestOf(t) = [st |-> "asked", op |-> c.op, file |-> f, count |-> c.count, byte |-> c.byte]
  BY <1>1, <1>2 DEF RequestOf
<1>6. RequestOf(t)' = [st |-> "answered", file |-> f, err |-> "EINTR", got |-> << >>]
  BY <1>1, <1>2, <1>3, <1>4 DEF RequestOf
<1>7. MemBar' = MemBar
  BY <1>1, <1>4, MemSame
<1>8. FposBar' = FposBar /\ ReqBar[t] = RequestOf(t)
      /\ ReqBar' = [ReqBar EXCEPT ![t] = RequestOf(t)']
  BY <1>1, <1>2, <1>3, <1>4, BarStep
<1> QED
  BY <1>5, <1>6, <1>7, <1>8 DEF Memory!Fail, Memory!Answered

(***************************************************************************)
(* What is known of t and the memory when psd_read or psd_write gets the   *)
(* mutex: the position is the file's, no one writes, and the count the     *)
(* driver clips to is what the memory has available.                       *)
(***************************************************************************)
LEMMA AtLock ==
  ASSUME PrivateFiles, IInv, PrivInv, NEW t \in Threads, pc[t] = "lock", psd_mutex = None
  PROVE  /\ call[t] \in Calls /\ call[t].file \in FilesOf[t] /\ call[t].file \in Files
         /\ call[t].op \in {"read", "write"} /\ call[t].err = "OK"
         /\ call[t].valid \in Nat /\ call[t].pos \in 0 .. DEV_MEM_SIZE
         /\ call[t].op = "write" => call[t].got = << >>
         /\ MemBar = buffer
         /\ ~Succeeds(t)
         /\ FposBar[call[t].file] = call[t].pos
         /\ ReqBar[t] = [st |-> "asked", op |-> call[t].op, file |-> call[t].file,
                         count |-> call[t].count, byte |-> call[t].byte]
         /\ Memory!Available(t) = Adjust(call[t].pos, call[t].count)
         /\ Adjust(call[t].pos, call[t].count) \in Nat
         /\ call[t].pos + Adjust(call[t].pos, call[t].count) <= DEV_MEM_SIZE
<1>1. /\ call[t] \in Calls /\ call[t].file \in FilesOf[t] /\ call[t].file \in Files
      /\ call[t].pos = f_pos[call[t].file]
      /\ call[t].op = "write" => call[t].got = << >>
  BY PsdAssumption DEF IInv, TypeOK, PrivInv, FileInv, PosNow, AskedFor
<1>2. /\ call[t].op \in {"read", "write"} /\ call[t].err = "OK"
      /\ call[t].valid \in Nat /\ call[t].pos \in 0 .. DEV_MEM_SIZE
      /\ call[t].count \in Nat
  BY <1>1 DEF IInv, CallInv, CallAt, Calls
<1>3. \A s \in Threads : ~Writing(s)
  BY PsdAssumption DEF IInv, OwnerInv, Writing
<1>4. MemBar = buffer
  BY <1>3, MemBarValue DEF MemValue
<1>5. ~Succeeds(t)
  BY DEF Succeeds
<1>6. FposBar[call[t].file] = call[t].pos
  BY <1>1, <1>5, FposBarValue
<1>7. ReqBar[t] = [st |-> "asked", op |-> call[t].op, file |-> call[t].file,
                   count |-> call[t].count, byte |-> call[t].byte]
  BY <1>2 DEF ReqBar, RequestOf
<1>8. Memory!Available(t) = Adjust(call[t].pos, call[t].count)
  BY <1>2, <1>6, <1>7, PsdAssumption DEF Memory!Available, Adjust
<1>9. Adjust(call[t].pos, call[t].count) \in Nat
      /\ call[t].pos + Adjust(call[t].pos, call[t].count) <= DEV_MEM_SIZE
  <2>1. call[t].count \in Int /\ call[t].count >= 0
    BY <1>2
  <2> QED
    BY <1>2, <2>1, PsdAssumption DEF Adjust
<1> QED
  BY <1>1, <1>2, <1>4, <1>5, <1>6, <1>7, <1>8, <1>9

(***************************************************************************)
(* A read that gets the mutex is answered, or fails if the caller's buffer *)
(* is too short for its bytes.                                             *)
(***************************************************************************)
LEMMA ReadAnswers ==
  ASSUME PrivateFiles, IInv, PrivInv, IInv', PrivInv', NEW t \in Threads, psd_read_lock(t)
  PROVE  Memory!AnswerRead(t) \/ Memory!Fail(t)
<1> DEFINE c == call[t]
           f == call[t].file
           n == Adjust(c.pos, c.count)
<1>1. /\ pc[t] = "lock" /\ psd_mutex = None /\ c.op = "read"
      /\ pc'[t] = "copy" /\ f_pos' = f_pos /\ buffer' = buffer
      /\ call' = [call EXCEPT ![t].count = n]
      /\ \A s \in Threads \ {t} : pc'[s] = pc[s] /\ call'[s] = call[s]
  BY DEF IInv, TypeOK, psd_read_lock, Lock
<1>2. /\ c \in Calls /\ f \in FilesOf[t] /\ c.err = "OK" /\ n \in Nat
      /\ c.valid \in Nat /\ c.pos \in 0 .. DEV_MEM_SIZE
      /\ MemBar = buffer /\ ~Succeeds(t) /\ FposBar[f] = c.pos
      /\ ReqBar[t] = [st |-> "asked", op |-> "read", file |-> f,
                      count |-> c.count, byte |-> c.byte]
      /\ Memory!Available(t) = n
  BY <1>1, AtLock
<1> HIDE DEF n
<1>3. /\ call'[t].file = f /\ call'[t].op = "read" /\ call'[t].err = "OK"
      /\ call'[t].pos = c.pos /\ call'[t].count = n /\ call'[t].valid = c.valid
  BY <1>1, <1>2 DEF IInv, TypeOK, Calls
<1>4. MemBar' = MemBar
  <2>1. ~Writing(t) /\ ~Writing(t)'
    BY <1>1, <1>3 DEF Writing
  <2> QED
    BY <1>1, <2>1, MemSame
<1>5. /\ FposBar' = [FposBar EXCEPT ![f] = IF Succeeds(t)' THEN FposAt(t)' ELSE f_pos'[f]]
      /\ FposBar[f] = f_pos[f]
      /\ FposBar = [g \in Files |-> FposBar[g]]
      /\ ReqBar' = [ReqBar EXCEPT ![t] = RequestOf(t)']
  BY <1>1, <1>2, <1>3, BarStep
<1>6. CASE c.valid >= n
  <2>1. Succeeds(t)' /\ FposAt(t)' = c.pos + n
    BY <1>1, <1>3, <1>6 DEF Succeeds, FposAt
  <2>2. RequestOf(t)' = [st |-> "answered", file |-> f, err |-> "OK",
                         got |-> [i \in 1 .. n |-> buffer[c.pos + i - 1]]]
    <3>1. RequestOf(t)' = [st |-> "answered", file |-> f, err |-> call'[t].err,
                           got |-> [i \in 1 .. call'[t].count |-> buffer'[call'[t].pos + i - 1]]]
      BY <1>1, <1>3, <2>1 DEF RequestOf
    <3> QED
      BY <1>1, <1>3, <3>1
  <2>3. Memory!Bytewise(t) = [i \in 1 .. n |-> buffer[c.pos + i - 1]]
    BY <1>2 DEF Memory!Bytewise
  <2>4. FposBar' = [FposBar EXCEPT ![f] = FposBar[f] + n]
    BY <1>2, <1>5, <2>1
  <2>5. ReqBar' = [ReqBar EXCEPT ![t] = [st |-> "answered", file |-> f, err |-> "OK",
                                         got |-> Memory!Bytewise(t)]]
    BY <1>5, <2>2, <2>3
  <2> QED
    <3>1. ReqBar[t].st = "asked" /\ ReqBar[t].op = "read" /\ ReqBar[t].file = f
      BY <1>2
    <3> HIDE DEF f
    <3> QED
      BY <1>2, <1>4, <2>4, <2>5, <3>1, Zenon DEF Memory!AnswerRead, Memory!Answered
<1>7. CASE c.valid < n
  <2>1. ~Succeeds(t)'
    BY <1>1, <1>2, <1>3, <1>7 DEF Succeeds
  <2>2. RequestOf(t)' = [st |-> "answered", file |-> f, err |-> "EFAULT", got |-> << >>]
    BY <1>1, <1>3, <2>1 DEF RequestOf
  <2>3. FposBar' = FposBar
    BY <1>1, <1>5, <2>1
  <2> QED
    BY <1>2, <1>4, <1>5, <2>2, <2>3 DEF Memory!Fail, Memory!Answered
<1> QED
  BY <1>2, <1>6, <1>7

(***************************************************************************)
(* A write that gets the mutex fails with nothing to copy, is answered, or *)
(* spoils its range if the caller's buffer is too short.                   *)
(***************************************************************************)
LEMMA WriteAnswers ==
  ASSUME PrivateFiles, IInv, PrivInv, IInv', PrivInv', NEW t \in Threads, psd_write_lock(t)
  PROVE  Memory!Fail(t) \/ Memory!AnswerWrite(t) \/ Memory!SpoilWrite(t)
<1> DEFINE c == call[t]
           f == call[t].file
           n == Adjust(c.pos, c.count)
<1>1. /\ pc[t] = "lock" /\ psd_mutex = None /\ c.op = "write"
      /\ f_pos' = f_pos /\ buffer' = buffer
      /\ \/ /\ n = 0 /\ pc'[t] = "ret"
            /\ call' = [call EXCEPT ![t] = [@ EXCEPT !.count = 0, !.err = "ENOMEM"]]
         \/ n # 0 /\ pc'[t] = "copy" /\ call' = [call EXCEPT ![t].count = n]
      /\ \A s \in Threads \ {t} : pc'[s] = pc[s] /\ call'[s] = call[s]
  BY DEF IInv, TypeOK, psd_write_lock, Lock
<1>2. /\ c \in Calls /\ f \in FilesOf[t] /\ c.err = "OK" /\ n \in Nat
      /\ c.valid \in Nat /\ c.pos \in 0 .. DEV_MEM_SIZE /\ c.got = << >>
      /\ MemBar = buffer /\ ~Succeeds(t) /\ FposBar[f] = c.pos
      /\ ReqBar[t] = [st |-> "asked", op |-> "write", file |-> f,
                      count |-> c.count, byte |-> c.byte]
      /\ Memory!Available(t) = n
  BY <1>1, AtLock
<1> HIDE DEF n
<1>n. /\ n = 0 => call'[t] = [c EXCEPT !.count = 0, !.err = "ENOMEM"]
      /\ n # 0 => call'[t] = [c EXCEPT !.count = n]
  BY <1>1 DEF IInv, TypeOK
<1>3. /\ call'[t].file = f /\ call'[t].op = "write" /\ call'[t].got = << >>
      /\ n = 0 => call'[t].err = "ENOMEM"
  BY <1>1, <1>2, <1>n DEF Calls
<1>4. /\ FposBar' = [FposBar EXCEPT ![f] = IF Succeeds(t)' THEN FposAt(t)' ELSE f_pos'[f]]
      /\ FposBar[f] = f_pos[f]
      /\ FposBar = [g \in Files |-> FposBar[g]]
      /\ ReqBar' = [ReqBar EXCEPT ![t] = RequestOf(t)']
  BY <1>1, <1>2, <1>3, BarStep
<1>5. CASE n = 0
  <2>1. pc'[t] = "ret" /\ call'[t].err = "ENOMEM"
    BY <1>1, <1>3, <1>5
  <2>2. ~Succeeds(t)' /\ ~Writing(t) /\ ~Writing(t)'
    BY <1>1, <2>1 DEF Succeeds, Writing
  <2>3. RequestOf(t)' = [st |-> "answered", file |-> f, err |-> "ENOMEM", got |-> << >>]
    BY <1>3, <2>1, <2>2 DEF RequestOf
  <2>4. MemBar' = MemBar
    BY <1>1, <2>2, MemSame
  <2>5. FposBar' = FposBar
    BY <1>1, <1>4, <2>2
  <2> QED
    BY <1>2, <1>4, <1>5, <2>3, <2>4, <2>5 DEF Memory!Fail, Memory!Answered
<1>6. CASE n # 0
  <2>1. /\ pc'[t] = "copy" /\ call'[t].err = "OK" /\ call'[t].count = n
        /\ call'[t].pos = c.pos /\ call'[t].valid = c.valid /\ call'[t].byte = c.byte
    BY <1>1, <1>2, <1>6 DEF IInv, TypeOK, Calls
  <2>2. MemBar' = Filled(t)'
    BY <1>3, <2>1, MemBarNext DEF MemValue, Writing
  <2>3. ReqBar[t].st = "asked" /\ ReqBar[t].op = "write" /\ ReqBar[t].file = f
        /\ ReqBar[t].byte = c.byte
    BY <1>2
  <2>4. CASE c.valid >= n
    <3>1. Succeeds(t)' /\ FposAt(t)' = c.pos + n
      BY <1>3, <2>1, <2>4 DEF Succeeds, FposAt
    <3>2. RequestOf(t)' = [st |-> "answered", file |-> f, err |-> "OK", got |-> << >>]
      BY <1>3, <2>1, <3>1 DEF RequestOf
    <3>3. FposBar' = [FposBar EXCEPT ![f] = FposBar[f] + n]
      BY <1>2, <1>4, <3>1
    <3>4. MemBar' = Memory!Stored(t, n)
      BY <1>1, <1>2, <2>1, <2>2, <2>3, <2>4 DEF Filled, Covers, Addresses, Memory!Stored
    <3>5. ReqBar' = [ReqBar EXCEPT ![t] = [st |-> "answered", file |-> f, err |-> "OK",
                                           got |-> << >>]]
      BY <1>4, <3>2
    <3> HIDE DEF f
    <3> QED
      BY <1>2, <1>6, <2>3, <3>3, <3>4, <3>5, Zenon DEF Memory!AnswerWrite, Memory!Answered
  <2>5. CASE c.valid < n
    <3>1. ~Succeeds(t)'
      BY <1>2, <2>1, <2>5 DEF Succeeds
    <3>2. RequestOf(t)' = [st |-> "answered", file |-> f, err |-> "EFAULT", got |-> << >>]
      BY <1>3, <2>1, <3>1 DEF RequestOf
    <3>3. FposBar' = FposBar
      BY <1>1, <1>4, <3>1
    <3>4. MemBar' = Memory!Stored(t, c.valid)
      BY <1>1, <1>2, <2>1, <2>2, <2>3, <2>5 DEF Filled, Covers, Addresses, Memory!Stored
    <3>5. c.valid \in 0 .. Memory!Available(t) - 1
      BY <1>2, <2>5
    <3> QED
      BY <1>4, <2>3, <3>2, <3>3, <3>4, <3>5 DEF Memory!SpoilWrite, Memory!Answered
  <2> QED
    BY <1>2, <2>4, <2>5
<1> QED
  BY <1>5, <1>6

(***************************************************************************)
(* A byte of copy_to_user or copy_from_user was answered for when the call *)
(* got the mutex: it changes nothing the memory shows.                     *)
(***************************************************************************)
LEMMA CopyStutters ==
  ASSUME PrivateFiles, IInv, PrivInv, IInv', PrivInv', NEW t \in Threads,
         copy_to_user(t) \/ copy_from_user(t)
  PROVE  UNCHANGED Memory!avars
<1> DEFINE c == call[t]
           f == call[t].file
<1>1. /\ pc[t] = "copy" /\ pc' = pc /\ f_pos' = f_pos
      /\ \A s \in Threads \ {t} : pc'[s] = pc[s] /\ call'[s] = call[s]
      /\ c \in Calls /\ f \in FilesOf[t]
  BY DEF IInv, TypeOK, PrivInv, FileInv, copy_to_user, copy_from_user, Copying
<1>2. /\ call'[t].file = f /\ call'[t].op = c.op /\ call'[t].pos = c.pos
      /\ call'[t].count = c.count /\ call'[t].valid = c.valid /\ call'[t].byte = c.byte
      /\ call'[t].err = c.err
      /\ c.op = "write" => call'[t].got = c.got
  BY <1>1 DEF IInv, TypeOK, Calls, copy_to_user, copy_from_user
<1>3. Succeeds(t)' = Succeeds(t) /\ FposAt(t)' = FposAt(t)
  BY <1>1, <1>2 DEF Succeeds, FposAt
<1>4. c.op \in {"read", "write"}
  BY <1>1 DEF IInv, CallInv, CallAt
<1>5. c.op = "read" => buffer' = buffer
  BY DEF copy_to_user, copy_from_user
<1>6. RequestOf(t)' = RequestOf(t)
  BY <1>1, <1>2, <1>3, <1>4, <1>5 DEF RequestOf
<1>7. FposBar' = FposBar /\ ReqBar' = ReqBar
  BY <1>1, <1>2, <1>3, <1>6, BarStep
<1>8. MemBar' = MemBar
  <2>1. CASE c.op = "read"
    <3>1. ~Writing(t) /\ ~Writing(t)'
      BY <1>2, <2>1 DEF Writing
    <3> QED
      BY <1>1, <1>5, <2>1, <3>1, MemSame
  <2>2. CASE c.op = "write"
    <3>1. Writing(t) /\ Writing(t)'
      BY <1>1, <1>2, <2>2 DEF Writing
    <3>2. MemBar = Filled(t) /\ MemBar' = Filled(t)'
      BY <3>1, MemBarValue, MemBarNext DEF MemValue
    <3>3. buffer' = [buffer EXCEPT ![c.pos + c.done] = c.byte] /\ buffer \in [Addresses -> Bytes]
      BY <2>2 DEF copy_to_user, copy_from_user, IInv, TypeOK
    <3>4. c.pos + c.done \in c.pos .. c.pos + c.count - 1
      BY <1>1 DEF copy_to_user, copy_from_user, Copying, IInv, CallInv, CallAt, Calls
    <3>5. \A a \in Addresses : ~Covers(t, a) => buffer'[a] = buffer[a]
      BY <3>3, <3>4 DEF Covers
    <3>6. \A a \in Addresses : Covers(t, a)' = Covers(t, a)
      BY <1>2 DEF Covers
    <3> QED
      BY <1>2, <3>2, <3>5, <3>6 DEF Filled
  <2> QED
    BY <1>4, <2>1, <2>2
<1> QED
  BY <1>7, <1>8 DEF Memory!avars

(***************************************************************************)
(* The end of a copy makes visible what the call was answered: the bytes   *)
(* are in the memory or with the caller because no other call came between *)
(* (CopiesAreIsolated).                                                    *)
(***************************************************************************)
LEMMA DoneStutters ==
  ASSUME PrivateFiles, IInv, PrivInv, IInv', PrivInv', CopiesAreIsolated,
         NEW t \in Threads, psd_done(t)
  PROVE  UNCHANGED Memory!avars
<1> DEFINE c == call[t]
           f == call[t].file
<1>1. /\ pc[t] = "copy" /\ pc'[t] = "ret" /\ c.done = c.count
      /\ f_pos' = f_pos /\ buffer' = buffer
      /\ call' = [call EXCEPT ![t].pos = @ + c.count]
      /\ \A s \in Threads \ {t} : pc'[s] = pc[s] /\ call'[s] = call[s]
      /\ c \in Calls /\ f \in FilesOf[t]
  BY DEF IInv, TypeOK, PrivInv, FileInv, psd_done
<1>2. /\ call'[t].file = f /\ call'[t].op = c.op /\ call'[t].pos = c.pos + c.count
      /\ call'[t].got = c.got /\ call'[t].err = c.err
  BY <1>1 DEF IInv, TypeOK, Calls
<1>3. /\ c.op \in {"read", "write"} /\ c.err = "OK" /\ c.valid >= c.count
      /\ c.op = "read" => Len(c.got) = c.count
  BY <1>1 DEF IInv, CallInv, CallAt, PrivInv, AskedFor
<1>4. Succeeds(t) /\ Succeeds(t)' /\ FposAt(t)' = FposAt(t)
  BY <1>1, <1>2, <1>3 DEF Succeeds, FposAt
<1>5. \A i \in 0 .. c.count - 1 :
        buffer[c.pos + i] = IF c.op = "read" THEN c.got[i + 1] ELSE c.byte
  BY <1>1 DEF CopiesAreIsolated
<1>6. RequestOf(t)' = RequestOf(t)
  <2>1. CASE c.op = "read"
    <3>1. c.got \in Seq(Bytes) /\ c.count \in Int /\ c.pos \in Int
      BY <1>1 DEF Calls
    <3>2. \A i \in 1 .. c.count : c.got[i] = buffer[c.pos + i - 1]
      <4> SUFFICES ASSUME NEW i \in 1 .. c.count
                   PROVE  c.got[i] = buffer[c.pos + i - 1]
        OBVIOUS
      <4>1. i - 1 \in 0 .. c.count - 1 /\ (i - 1) + 1 = i /\ c.pos + (i - 1) = c.pos + i - 1
        BY <3>1
      <4> QED
        BY <1>5, <2>1, <4>1
    <3>3. [i \in 1 .. c.count |-> buffer[c.pos + i - 1]] = c.got
      <4>1. c.got = [i \in 1 .. Len(c.got) |-> c.got[i]]
        BY <3>1
      <4> HIDE DEF c
      <4> QED
        BY <1>3, <2>1, <3>2, <4>1
    <3>4. RequestOf(t) = [st |-> "answered", file |-> f, err |-> "OK", got |-> c.got]
      BY <1>1, <1>3, <1>4, <2>1, <3>3 DEF RequestOf
    <3>5. RequestOf(t)' = [st |-> "answered", file |-> f, err |-> "OK", got |-> c.got]
      BY <1>1, <1>2, <1>3, <1>4, <2>1 DEF RequestOf
    <3> QED
      BY <3>4, <3>5
  <2>2. CASE c.op = "write"
    BY <1>1, <1>2, <1>3, <1>4, <2>2 DEF RequestOf
  <2> QED
    BY <1>3, <2>1, <2>2
<1>7. FposBar' = FposBar /\ ReqBar' = ReqBar
  BY <1>1, <1>2, <1>4, <1>6, BarStep
<1>8. MemBar' = MemBar
  <2>1. CASE c.op = "read"
    <3>1. ~Writing(t) /\ ~Writing(t)'
      BY <1>2, <2>1 DEF Writing
    <3> QED
      BY <1>1, <3>1, MemSame
  <2>2. CASE c.op = "write"
    <3>1. Writing(t) /\ ~Writing(t)'
      BY <1>1, <2>2 DEF Writing
    <3>2. MemBar = Filled(t)
      BY <3>1, MemBarValue DEF MemValue
    <3>3. \A s \in Threads : ~Writing(s)'
      BY <1>1, <3>1 DEF Writing, IInv, OwnerInv
    <3>4. MemBar' = buffer
      BY <1>1, <3>3, MemBarNext DEF MemValue
    <3>5. \A a \in Addresses : Covers(t, a) => buffer[a] = c.byte /\ a < c.pos + c.valid
      <4> SUFFICES ASSUME NEW a \in Addresses, Covers(t, a)
                   PROVE  buffer[a] = c.byte /\ a < c.pos + c.valid
        OBVIOUS
      <4>1. a \in Int /\ c.pos \in Int /\ c.count \in Int /\ c.valid \in Int
        BY <1>1 DEF Calls, Addresses
      <4>2. a - c.pos \in 0 .. c.count - 1 /\ c.pos + (a - c.pos) = a
        BY <4>1 DEF Covers
      <4>3. buffer[c.pos + (a - c.pos)] = c.byte
        BY <1>5, <2>2, <4>2
      <4> QED
        BY <1>3, <4>1, <4>2, <4>3
    <3>6. Filled(t) = [a \in Addresses |-> buffer[a]]
      BY <3>5 DEF Filled
    <3> QED
      BY <3>2, <3>4, <3>6 DEF IInv, TypeOK
  <2> QED
    BY <1>3, <2>1, <2>2
<1> QED
  BY <1>7, <1>8 DEF Memory!avars

(***************************************************************************)
(* A copy that faults leaves the bytes the memory has shown since the call *)
(* got the mutex: those it copied, and zeros for the rest of a write.      *)
(***************************************************************************)
LEMMA FaultStutters ==
  ASSUME PrivateFiles, IInv, PrivInv, IInv', PrivInv', CopiesAreIsolated,
         NEW t \in Threads, psd_fault(t)
  PROVE  UNCHANGED Memory!avars
<1> DEFINE c == call[t]
           f == call[t].file
<1>1. /\ pc[t] = "copy" /\ pc'[t] = "ret" /\ c.done < c.count /\ c.done = c.valid
      /\ f_pos' = f_pos /\ call' = [call EXCEPT ![t].err = "EFAULT"]
      /\ \A s \in Threads \ {t} : pc'[s] = pc[s] /\ call'[s] = call[s]
      /\ c \in Calls /\ f \in FilesOf[t]
  BY DEF IInv, TypeOK, PrivInv, FileInv, psd_fault, Faulting
<1>2. call'[t].file = f /\ call'[t].op = c.op /\ call'[t].err = "EFAULT"
  BY <1>1 DEF IInv, TypeOK, Calls
<1>3. c.op \in {"read", "write"}
  BY <1>1 DEF IInv, CallInv, CallAt
<1>4. ~Succeeds(t) /\ ~Succeeds(t)'
  BY <1>1, <1>2 DEF Succeeds, Calls
<1>5. RequestOf(t)' = RequestOf(t)
  BY <1>1, <1>2, <1>3, <1>4 DEF RequestOf
<1>6. FposBar' = FposBar /\ ReqBar' = ReqBar
  BY <1>1, <1>2, <1>4, <1>5, BarStep
<1>7. MemBar' = MemBar
  <2>1. CASE c.op = "read"
    <3>1. ~Writing(t) /\ ~Writing(t)' /\ buffer' = buffer
      BY <1>2, <2>1 DEF Writing, psd_fault
    <3> QED
      BY <1>1, <3>1, MemSame
  <2>2. CASE c.op = "write"
    <3>1. Writing(t) /\ ~Writing(t)' /\ buffer' = ZeroFilled(t)
      BY <1>1, <2>2 DEF Writing, psd_fault
    <3>2. MemBar = Filled(t)
      BY <3>1, MemBarValue DEF MemValue
    <3>3. \A s \in Threads : ~Writing(s)'
      BY <1>1, <3>1 DEF Writing, IInv, OwnerInv
    <3>4. MemBar' = ZeroFilled(t)
      BY <3>1, <3>3, MemBarNext DEF MemValue
    <3>5. ASSUME NEW a \in Addresses
          PROVE  Filled(t)[a] = ZeroFilled(t)[a]
      <4>1. /\ a \in Int /\ c.pos \in Int /\ c.count \in Int /\ c.valid \in Int
            /\ c.done \in Nat
        BY <1>1 DEF Calls, Addresses, IInv, CallInv, CallAt
      <4>2. CASE a \in c.pos .. c.pos + c.done - 1
        <5>1. a - c.pos \in 0 .. c.done - 1 /\ c.pos + (a - c.pos) = a
          BY <4>1, <4>2
        <5>2. buffer[c.pos + (a - c.pos)] = c.byte
          BY <1>1, <2>2, <5>1 DEF CopiesAreIsolated
        <5>3. buffer[a] = c.byte
          BY <5>1, <5>2
        <5> QED
          BY <1>1, <4>1, <4>2, <5>3 DEF Filled, ZeroFilled, Covers
      <4>3. CASE a \notin c.pos .. c.pos + c.done - 1
        BY <1>1, <4>1, <4>3 DEF Filled, ZeroFilled, Covers
      <4> QED
        BY <4>2, <4>3
    <3>6. Filled(t) = ZeroFilled(t)
      BY <3>5 DEF Filled, ZeroFilled
    <3> QED
      BY <3>2, <3>4, <3>6
  <2> QED
    BY <1>3, <2>1, <2>2
<1> QED
  BY <1>6, <1>7 DEF Memory!avars

(***************************************************************************)
(* The VFS hands the answer to the caller and stores the position the      *)
(* memory has shown already.                                               *)
(***************************************************************************)
LEMMA ReturnTakes ==
  ASSUME PrivateFiles, IInv, PrivInv, IInv', PrivInv', NEW t \in Threads, vfs_return(t)
  PROVE  Memory!Take(t) \/ UNCHANGED Memory!avars
<1> DEFINE c == call[t]
           f == call[t].file
<1>1. /\ pc[t] = "ret" /\ pc'[t] = "idle" /\ buffer' = buffer
      /\ f_pos' = IF c.op # "llseek" /\ c.err = "OK"
                  THEN [f_pos EXCEPT ![f] = c.pos] ELSE f_pos
      /\ \A s \in Threads \ {t} : pc'[s] = pc[s] /\ call'[s] = call[s]
      /\ c \in Calls /\ f \in FilesOf[t] /\ f \in Files
      /\ f_pos \in [Files -> Int]
  BY PsdAssumption DEF IInv, TypeOK, PrivInv, FileInv, vfs_return, StoresBack
<1>2. ~Succeeds(t)' /\ ~Writing(t) /\ ~Writing(t)'
  BY <1>1 DEF Succeeds, Writing
<1>3. Succeeds(t) = (c.op # "llseek" /\ c.err = "OK")
  BY <1>1 DEF Succeeds
<1>4. RequestOf(t)' = [st |-> "idle"]
  BY <1>1 DEF RequestOf
<1>5. MemBar' = MemBar
  BY <1>1, <1>2, MemSame
<1>6. \A g \in Files \ {f} : f_pos'[g] = f_pos[g]
  BY <1>1
<1>7. /\ FposBar' = [FposBar EXCEPT ![f] = f_pos'[f]]
      /\ FposBar[f] = IF Succeeds(t) THEN FposAt(t) ELSE f_pos[f]
      /\ FposBar = [g \in Files |-> FposBar[g]]
      /\ ReqBar[t] = RequestOf(t)
      /\ ReqBar' = [ReqBar EXCEPT ![t] = RequestOf(t)']
      /\ ReqBar = [s \in Threads |-> ReqBar[s]]
  BY <1>1, <1>2, <1>6, BarStep
<1>8. FposBar[f] = f_pos'[f]
  BY <1>1, <1>3, <1>7 DEF FposAt
<1>9. FposBar' = FposBar
  BY <1>7, <1>8
<1>10. CASE c.op = "llseek"
  <2>1. RequestOf(t) = [st |-> "idle"]
    BY <1>1, <1>10 DEF RequestOf
  <2> QED
    BY <1>4, <1>5, <1>7, <1>9, <2>1 DEF Memory!avars
<1>11. CASE c.op # "llseek"
  <2>1. RequestOf(t).st = "answered"
    BY <1>1, <1>11 DEF RequestOf
  <2> QED
    BY <1>4, <1>5, <1>7, <1>9, <2>1 DEF Memory!Take, Memory!Idle
<1> QED
  BY <1>10, <1>11

(***************************************************************************)
(* psd_llseek moves a file that no read or write is in.                    *)
(***************************************************************************)
LEMMA SeekMoves ==
  ASSUME PrivateFiles, IInv, PrivInv, IInv', PrivInv', NEW t \in Threads, psd_llseek_set(t)
  PROVE  \E f \in Files : Memory!Move(f)
<1> DEFINE c == call[t]
           f == call[t].file
<1>1. /\ pc[t] = "seek" /\ pc'[t] = "ret" /\ buffer' = buffer /\ call' = call
      /\ f_pos' = [f_pos EXCEPT ![f] = c.pos]
      /\ \A s \in Threads \ {t} : pc'[s] = pc[s] /\ call'[s] = call[s]
      /\ c \in Calls /\ f \in FilesOf[t] /\ f \in Files /\ c.op = "llseek"
      /\ f_pos \in [Files -> Int] /\ c.pos \in 0 .. DEV_MEM_SIZE - 1
  BY PsdAssumption DEF IInv, TypeOK, CallInv, CallAt, PrivInv, FileInv, AskedFor, psd_llseek_set
<1>2. ~Succeeds(t) /\ ~Succeeds(t)' /\ ~Writing(t) /\ ~Writing(t)'
  BY <1>1 DEF Succeeds, Writing
<1>3. RequestOf(t) = [st |-> "idle"] /\ RequestOf(t)' = [st |-> "idle"]
  BY <1>1 DEF RequestOf
<1>4. MemBar' = MemBar
  BY <1>1, <1>2, MemSame
<1>5. \A g \in Files \ {f} : f_pos'[g] = f_pos[g]
  BY <1>1
<1>6. FposBar' = [FposBar EXCEPT ![f] = f_pos'[f]] /\ ReqBar' = ReqBar
  BY <1>1, <1>2, <1>3, <1>5, BarStep
<1>7. FposBar' = [FposBar EXCEPT ![f] = c.pos]
  BY <1>1, <1>6
<1>8. ASSUME NEW s \in Threads
      PROVE  ReqBar[s] = [st |-> "idle"] \/ ReqBar[s].file # f
  <2>1. CASE s = t
    BY <1>3, <2>1 DEF ReqBar
  <2>2. CASE s # t
    <3>1. pc[s] # "idle" => call[s].file # f
      BY <1>1, <2>2 DEF PrivInv, FileInv, PrivateFiles
    <3>2. ReqBar[s] = [st |-> "idle"] \/ (pc[s] # "idle" /\ ReqBar[s].file = call[s].file)
      BY DEF ReqBar, RequestOf
    <3> QED
      BY <3>1, <3>2
  <2> QED
    BY <2>1, <2>2
<1>9. Memory!Move(f)
  BY <1>1, <1>4, <1>6, <1>7, <1>8 DEF Memory!Move, Memory!Idle
<1> QED
  BY <1>1, <1>9

(***************************************************************************)
(* psd_open moves a file that no call is in, psd_release moves nothing.    *)
(***************************************************************************)
LEMMA OpenMoves ==
  ASSUME IInv, PrivInv, NEW f \in Files, psd_open(f) \/ psd_release(f)
  PROVE  Memory!Move(f) \/ UNCHANGED Memory!avars
<1>1. pc' = pc /\ call' = call /\ buffer' = buffer
  BY DEF psd_open, psd_release
<1>2. \A s \in Threads : Succeeds(s)' = Succeeds(s) /\ Writing(s)' = Writing(s)
  BY <1>1 DEF Succeeds, Writing
<1>3. MemBar' = MemBar
  BY <1>1 DEF MemBar, Writing, Covers
<1>4. ReqBar' = ReqBar
  BY <1>1 DEF ReqBar, RequestOf, Succeeds
<1>5. CASE psd_open(f)
  <2>1. \A s \in Threads : pc[s] # "idle" => call[s].file # f
    BY <1>5 DEF psd_open, PrivInv, FileInv
  <2>2. f_pos' = [f_pos EXCEPT ![f] = 0] /\ f_pos \in [Files -> Int]
    BY <1>5 DEF psd_open, IInv, TypeOK
  <2>3. ASSUME NEW g \in Files
        PROVE  FposBar'[g] = IF g = f THEN 0 ELSE FposBar[g]
    <3>1. CASE g = f
      <4>1. ~\E s \in Threads : Succeeds(s)' /\ call'[s].file = f
        BY <1>1, <2>1 DEF Succeeds
      <4> QED
        BY <2>2, <3>1, <4>1 DEF FposBar
    <3>2. CASE g # f
      BY <1>1, <2>2, <3>2 DEF FposBar, Succeeds
    <3> QED
      BY <3>1, <3>2
  <2>4. FposBar' = [g \in Files |-> FposBar'[g]] /\ FposBar = [g \in Files |-> FposBar[g]]
    BY DEF FposBar
  <2>5. FposBar' = [FposBar EXCEPT ![f] = 0]
    <3> HIDE DEF FposBar
    <3> QED
      BY <2>3, <2>4
  <2>6. \A s \in Threads : ReqBar[s] = [st |-> "idle"] \/ ReqBar[s].file # f
    <3>1. \A s \in Threads :
            ReqBar[s] = [st |-> "idle"] \/ (pc[s] # "idle" /\ ReqBar[s].file = call[s].file)
      BY DEF ReqBar, RequestOf
    <3> QED
      BY <2>1, <3>1
  <2>7. 0 \in 0 .. DEV_MEM_SIZE - 1
    BY PsdAssumption
  <2> QED
    BY <1>3, <1>4, <2>5, <2>6, <2>7 DEF Memory!Move, Memory!Idle
<1>6. CASE psd_release(f)
  <2>1. FposBar' = FposBar
    BY <1>1, <1>6 DEF psd_release, FposBar, Succeeds
  <2> QED
    BY <1>3, <1>4, <2>1 DEF Memory!avars
<1> QED
  BY <1>5, <1>6

(***************************************************************************)
(* Every step of the driver is a step of the memory or changes nothing     *)
(* that the memory shows.                                                  *)
(***************************************************************************)
LEMMA NextRefines ==
  PrivateFiles /\ IInv /\ PrivInv /\ CopiesAreIsolated /\ [Next]_vars
    => [Memory!ANext]_Memory!avars
<1> SUFFICES ASSUME PrivateFiles, IInv, PrivInv, CopiesAreIsolated, [Next]_vars
             PROVE  Memory!ANext \/ UNCHANGED Memory!avars
  OBVIOUS
<1>1. IInv' /\ PrivInv'
  BY NextIInv, NextPriv
<1>2. CASE UNCHANGED vars
  BY <1>2 DEF vars, Memory!avars, MemBar, FposBar, ReqBar, RequestOf, Writing, Succeeds, Covers
<1>3. ASSUME NEW f \in Files, psd_open(f) \/ psd_release(f)
      PROVE  Memory!ANext \/ UNCHANGED Memory!avars
  BY <1>3, OpenMoves DEF Memory!ANext
<1>4. ASSUME NEW t \in Threads,
             \/ Enter(t) \/ Seek(t) \/ psd_read_lock(t) \/ psd_write_lock(t)
             \/ psd_interrupted(t)
      PROVE  Memory!ANext \/ UNCHANGED Memory!avars
  BY <1>1, <1>4, EnterAsks, SeekStutters, ReadAnswers, WriteAnswers, InterruptFails
     DEF Memory!ANext
<1>5. ASSUME NEW t \in Threads, Proceed(t)
      PROVE  Memory!ANext \/ UNCHANGED Memory!avars
  BY <1>1, <1>5, SeekMoves, ReturnTakes, CopyStutters, FaultStutters, DoneStutters
     DEF Proceed, Memory!ANext
<1> QED
  BY <1>2, <1>3, <1>4, <1>5 DEF Next, TakeLock

(***************************************************************************)
(* When no two threads share a file, every read and write of the driver    *)
(* happens at one instant: PseudoCharDriver implements SeekableMemory.     *)
(***************************************************************************)
THEOREM RefinementCorrect == ASSUME PrivateFiles PROVE Spec => ImplementsSeekableMemory
<1>1. Init => Memory!AInit
  <2> SUFFICES ASSUME Init
               PROVE  Memory!AInit
    OBVIOUS
  <2>1. \A t \in Threads : pc[t] = "idle" /\ ~Writing(t) /\ ~Succeeds(t)
    BY DEF Init, Writing, Succeeds
  <2>2. MemBar = [a \in 0 .. DEV_MEM_SIZE - 1 |-> Zero]
    BY <2>1 DEF Init, MemBar, Addresses
  <2>3. FposBar = [f \in Files |-> 0]
    BY <2>1 DEF Init, FposBar
  <2>4. ReqBar = [t \in Threads |-> [st |-> "idle"]]
    BY <2>1 DEF ReqBar, RequestOf
  <2> QED
    BY <2>2, <2>3, <2>4 DEF Memory!AInit, Memory!Idle
<1>2. IInv /\ PrivInv /\ CopiesAreIsolated /\ [Next]_vars => [Memory!ANext]_Memory!avars
  BY NextRefines
<1> QED
  BY <1>1, <1>2, Invariance, PrivInvariance, IsolationCorrect, PTL
     DEF Spec, ImplementsSeekableMemory, Memory!ASpec
=============================================================================
