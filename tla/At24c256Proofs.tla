---------------------------- MODULE At24c256Proofs ----------------------------
(***************************************************************************)
(* Proofs about At24c256, for any number of users and any memory.          *)
(*                                                                         *)
(* DriverInv ties the stage of probe and remove to the client data, the    *)
(* files and the calls in progress: a call keeps its file, every call that *)
(* is inside without live data is known to be stale, and none of those     *)
(* writes to the chip.  On it rest ByteInv, which follows the byte the     *)
(* test overwrites, and AddrInv, which follows the address the users       *)
(* advance.                                                                *)
(***************************************************************************)
EXTENDS At24c256, TLAPS

Testing == {"test_read", "test_write", "test_reread", "test_restore", "set_clientdata"}

PcValues == {"idle", "store", "transfer", "load", "advance", "oops"}

\* The stages of probe and remove.
StageOK ==
  /\ drvdata = "live" <=> ppc \in {"register", "bound", "unregister"}
  /\ drvdata = "freed" <=> ppc = "failed"
  /\ ppc \in Testing \cup {"unbound", "bound", "failed"} => n = 0
  /\ ppc = "register" => n \in 0 .. 3
  /\ "write_byte" \in files => ppc \in {"bound", "unregister"}
  /\ ppc = "unregister" =>
       /\ n >= 1 => "usage" \notin files
       /\ n >= 2 => "reg_addr" \notin files
       /\ n >= 3 => "read_byte" \notin files
       /\ n >= 4 => "write_byte" \notin files
  /\ drvdata # "live" => files \subseteq leftover
  /\ "write_byte" \notin leftover
  /\ gone \subseteq leftover

\* The calls in progress.
UserOK(u) ==
  /\ pc[u] # "idle" => loc[u].file \in files
  /\ u \in stale \/ pc[u] = "oops" => loc[u].file \in leftover
  /\ Inside(u) /\ drvdata # "live" => u \in stale
  /\ u \in stale => Inside(u)
  /\ loc[u].byte # None => loc[u].file = "write_byte"

DriverInv == TypeOK /\ StageOK /\ \A u \in Users : UserOK(u)

-----------------------------------------------------------------------------
(* Arithmetic and sequences.                                               *)

\* The memory is not empty.
LEMMA SizePositive == TOTAL_MEM_SIZE \in Nat \ {0}
BY At24Assumption DEF TOTAL_MEM_SIZE

\* Advancing and the chip's view of an address stay within the memory.
LEMMA AddressRange ==
  ASSUME NEW a \in RegValues
  PROVE  /\ ChipAddr(a) \in Addresses /\ Advance(a) \in RegValues
         /\ a \in Addresses => ChipAddr(a) = a
BY SizePositive DEF RegValues, Addresses, ChipAddr, Advance

\* The four files by number.
LEMMA FileNames ==
  /\ FileSeq[1] = "usage" /\ FileSeq[2] = "reg_addr" /\ FileSeq[3] = "read_byte"
  /\ FileSeq[4] = "write_byte"
  /\ Files = {"usage", "reg_addr", "read_byte", "write_byte"}
<1>1. /\ FileSeq[1] = "usage" /\ FileSeq[2] = "reg_addr" /\ FileSeq[3] = "read_byte"
      /\ FileSeq[4] = "write_byte"
  BY DEF FileSeq
<1>2. 1 .. 4 = {1, 2, 3, 4}
  OBVIOUS
<1>3. Files = {"usage", "reg_addr", "read_byte", "write_byte"}
  BY <1>1, <1>2 DEF Files
<1>4. QED
  BY <1>1, <1>3

\* A write to the chip changes a byte of it.
LEMMA WrittenType ==
  ASSUME mem \in [Addresses -> Data], NEW a \in RegValues, NEW d \in Data
  PROVE  Written(a, d) \in [Addresses -> Data]
BY AddressRange DEF Written

\* After the last file has gone, no call is in progress.
LEMMA NobodyInside ==
  ASSUME DriverInv, files = {}
  PROVE  \A u \in Users : pc[u] = "idle"
BY DEF DriverInv, UserOK

-----------------------------------------------------------------------------
(* Types.                                                                  *)

\* The test of the chip.
LEMMA TestTypes ==
  ASSUME DriverInv,
         probe_start \/ test_read \/ test_write \/ test_reread \/ test_restore
  PROVE  TypeOK'
<1>1. TestAddr \in Addresses /\ TestAddr \in RegValues /\ Pattern \in Data
  BY At24Assumption, SizePositive DEF Addresses, RegValues
<1>2. /\ mem \in [Addresses -> Data] /\ mem[TestAddr] \in Data /\ data_old \in Data
      /\ Written(TestAddr, Pattern) \in [Addresses -> Data]
      /\ Written(TestAddr, data_old) \in [Addresses -> Data]
  BY <1>1, WrittenType DEF DriverInv, TypeOK
<1> USE DEF DriverInv, TypeOK, Stages, users, regs, chip
<1>3. CASE probe_start
  BY <1>2, <1>3 DEF probe_start
<1>4. CASE test_read
  BY <1>2, <1>4 DEF test_read
<1>5. CASE test_write
  BY <1>2, <1>5 DEF test_write
<1>6. CASE test_reread
  BY <1>2, <1>6 DEF test_reread
<1>7. CASE test_restore
  BY <1>1, <1>2, <1>7 DEF test_restore
<1>8. QED
  BY <1>3, <1>4, <1>5, <1>6, <1>7

\* The end of prv_data leaves the address a number.
LEMMA NoRegsType ==
  ASSUME NoRegs
  PROVE  reg_addr' \in RegValues /\ expected' \in RegValues /\ raced' \in BOOLEAN
<1>1. 0 \in RegValues
  BY SizePositive DEF RegValues
<1>2. raced' \in BOOLEAN
  BY DEF NoRegs
<1>3. QED
  BY <1>1, <1>2 DEF NoRegs

\* Registering and removing the files.
LEMMA FileTypes ==
  ASSUME DriverInv,
         set_clientdata \/ create_file \/ create_last_file \/ probe_failed \/ Remove
  PROVE  TypeOK'
<1>1. FileSeq[4] \in Files /\ (n \in 0 .. 2 => FileSeq[n + 1] \in Files)
  <2>1. n \in 0 .. 2 => n + 1 \in {1, 2, 3}
    OBVIOUS
  <2>2. QED
    BY <2>1, FileNames
<1>2. n \in 0 .. 4 /\ Pattern \in Data
  BY At24Assumption DEF DriverInv, TypeOK
<1> USE DEF DriverInv, TypeOK, Stages, chip, users, regs
<1>3. CASE set_clientdata \/ probe_failed
  BY <1>3 DEF set_clientdata, probe_failed
<1>4. CASE create_file
  BY <1>1, <1>2, <1>4 DEF create_file
<1>5. CASE create_last_file
  <2>1. reg_addr' \in RegValues /\ expected' \in RegValues /\ raced' \in BOOLEAN
    BY <1>5, NoRegsType DEF create_last_file
  <2>2. failed' \in BOOLEAN
    BY <1>5 DEF create_last_file
  <2>3. /\ n' = 0 /\ files' \subseteq Files /\ gone' \subseteq files' /\ leftover' \subseteq Files
        /\ ppc' \in {"bound", "failed"} /\ drvdata' \in {"null", "live", "freed"}
        /\ before' \in Data /\ stale' \subseteq Users /\ UNCHANGED <<mem, data_old, pc, loc>>
    BY <1>1, <1>2, <1>5 DEF create_last_file
  <2>4. QED
    BY <2>1, <2>2, <2>3
<1>6. CASE remove_start \/ remove_file \/ unload
  <2>1. /\ n' \in 0 .. 4 /\ files' \subseteq Files /\ gone' \subseteq files' /\ leftover' \subseteq Files
        /\ ppc' \in {"unregister", "unbound"} /\ drvdata' \in {"null", "live", "freed"}
        /\ stale' \subseteq Users /\ UNCHANGED <<chip, pc, loc, regs>>
    BY <1>2, <1>6 DEF remove_start, remove_file, unload
  <2>2. QED
    BY <2>1
<1>7. CASE remove_done
  <2>1. reg_addr' \in RegValues /\ expected' \in RegValues /\ raced' \in BOOLEAN
    BY <1>7, NoRegsType DEF remove_done
  <2>2. /\ n' = 0 /\ leftover' = {} /\ ppc' = "unbound" /\ drvdata' = "null"
        /\ UNCHANGED <<chip, files, gone, users>>
    BY <1>7 DEF remove_done
  <2>3. QED
    BY <2>1, <2>2
<1>8. QED
  BY <1>3, <1>4, <1>5, <1>6, <1>7 DEF Remove

Locals == [file : Files \cup {None}, addr : RegValues, byte : Data \cup {None}, tmp : RegValues]

-----------------------------------------------------------------------------
(* The steps of the users.                                                 *)

\* A step of u leaves the others alone, and the stage.
LEMMA OthersStay ==
  ASSUME DriverInv, NEW u \in Users, User(u)
  PROVE  /\ UNCHANGED core /\ UNCHANGED <<before, data_old, failed>>
         /\ \A v \in Users \ {u} : /\ pc'[v] = pc[v] /\ loc'[v] = loc[v]
                                   /\ v \in stale' <=> v \in stale
         /\ stale' \subseteq Users
<1>1. /\ pc \in [Users -> PcValues] /\ loc \in [Users -> Locals] /\ stale \subseteq Users
  BY DEF DriverInv, TypeOK, PcValues, Locals
<1> USE DEF Enter, Leave, chip
<1>2. CASE store_reg_addr(u) \/ show_read_byte(u) \/ store_write_byte(u) \/ store_unprefixed(u)
  <2>1. PICK f, l, p : Enter(u, f, l, p)
    BY <1>2 DEF store_reg_addr, show_read_byte, store_write_byte, store_unprefixed
  <2>2. QED
    BY <1>1, <2>1
<1>3. CASE set_reg_addr(u) \/ advance(u)
  BY <1>1, <1>3 DEF set_reg_addr, advance
<1>4. CASE transfer_ok(u) \/ transfer_failed(u)
  BY <1>1, <1>4 DEF transfer_ok, transfer_failed
<1>5. CASE load_reg_addr(u) \/ call_leftover(u)
  BY <1>1, <1>5 DEF load_reg_addr, call_leftover
<1>6. CASE use_freed(u)
  BY <1>1, <1>6 DEF use_freed
<1>7. QED
  BY <1>2, <1>3, <1>4, <1>5, <1>6 DEF User

\* The steps of the users keep the types.
LEMMA UserTypes ==
  ASSUME DriverInv, NEW u \in Users, User(u)
  PROVE  TypeOK'
<1>1. /\ loc \in [Users -> Locals] /\ loc[u] \in Locals /\ reg_addr \in RegValues
      /\ mem \in [Addresses -> Data] /\ 0 \in RegValues /\ pc \in [Users -> PcValues]
  BY SizePositive DEF DriverInv, TypeOK, Locals, RegValues, PcValues
<1>2. /\ NoLoc \in Locals
      /\ \A f \in Files : /\ [NoLoc EXCEPT !.file = f] \in Locals
                          /\ \A a \in RegValues : /\ [NoLoc EXCEPT !.file = f, !.addr = a] \in Locals
                               /\ \A d \in Data :
                                    [NoLoc EXCEPT !.file = f, !.addr = a, !.byte = d] \in Locals
  BY <1>1 DEF NoLoc, Locals
<1>3. /\ [loc[u] EXCEPT !.tmp = reg_addr] \in Locals
      /\ [loc[u] EXCEPT !.addr = 0] \in Locals
  BY <1>1 DEF Locals
<1>4. loc[u].byte # None => Written(loc[u].addr, loc[u].byte) \in [Addresses -> Data]
  BY <1>1, WrittenType DEF Locals
<1>5. Advance(loc[u].tmp) \in RegValues /\ loc[u].addr \in RegValues
  BY <1>1, AddressRange DEF Locals
<1>6. Advance(expected) \in RegValues
  BY AddressRange DEF DriverInv, TypeOK
<1>7. /\ {"reg_addr", "read_byte", "write_byte"} \subseteq Files /\ files \subseteq Files
  BY FileNames DEF DriverInv, TypeOK
<1>8. CASE store_reg_addr(u) \/ show_read_byte(u) \/ store_write_byte(u) \/ store_unprefixed(u)
  <2>1. PICK f \in Files, l \in Locals, p \in PcValues : Enter(u, f, l, p)
    BY <1>1, <1>2, <1>7, <1>8 DEF store_reg_addr, show_read_byte, store_write_byte,
       store_unprefixed, PcValues
  <2>2. /\ loc' \in [Users -> Locals] /\ pc' \in [Users -> PcValues] /\ UNCHANGED <<chip, regs>>
    BY <1>1, <2>1 DEF Enter
  <2>3. QED
    BY <2>2, OthersStay DEF DriverInv, TypeOK, Locals, PcValues, core, chip, regs
<1>9. loc' \in [Users -> Locals] /\ pc' \in [Users -> PcValues]
  <2>1. CASE set_reg_addr(u) \/ transfer_failed(u) \/ advance(u) \/ use_freed(u)
    BY <1>1, <1>2, <2>1 DEF set_reg_addr, transfer_failed, advance, use_freed, Leave, PcValues
  <2>2. CASE transfer_ok(u) \/ load_reg_addr(u)
    BY <1>1, <1>3, <2>2 DEF transfer_ok, load_reg_addr, PcValues
  <2>3. CASE call_leftover(u)
    BY <1>1, <1>2, <1>7, <2>3 DEF call_leftover, PcValues
  <2>4. CASE store_reg_addr(u) \/ show_read_byte(u) \/ store_write_byte(u) \/ store_unprefixed(u)
    BY <1>8, <2>4 DEF TypeOK, Locals, PcValues
  <2>5. QED
    BY <2>1, <2>2, <2>3, <2>4 DEF User
<1>10. CASE transfer_ok(u) \/ transfer_failed(u)
  <2>1. mem' \in [Addresses -> Data] /\ UNCHANGED regs
    BY <1>1, <1>4, <1>10 DEF transfer_ok, transfer_failed
  <2>2. QED
    BY <1>9, <2>1, OthersStay DEF DriverInv, TypeOK, Locals, PcValues, core, regs
<1>11. CASE set_reg_addr(u) \/ advance(u) \/ use_freed(u)
  <2>1. reg_addr' \in RegValues /\ expected' \in RegValues
    BY <1>5, <1>6, <1>11 DEF set_reg_addr, advance, use_freed, Advance, regs, DriverInv, TypeOK
  <2>2. raced' \in BOOLEAN
    BY <1>11 DEF set_reg_addr, advance, use_freed, Overlaps, regs, DriverInv, TypeOK
  <2>3. mem' = mem
    BY <1>11 DEF set_reg_addr, advance, use_freed, chip
  <2>4. QED
    BY <1>9, <2>1, <2>2, <2>3, OthersStay DEF DriverInv, TypeOK, Locals, PcValues, core
<1>12. CASE load_reg_addr(u) \/ call_leftover(u)
  <2>1. UNCHANGED <<mem, reg_addr, expected, raced>>
    BY <1>12 DEF load_reg_addr, call_leftover, chip, regs
  <2>2. QED
    BY <1>9, <2>1, OthersStay DEF DriverInv, TypeOK, Locals, PcValues, core
<1>13. QED
  BY <1>8, <1>10, <1>11, <1>12 DEF User

-----------------------------------------------------------------------------
(* Stages and calls.                                                       *)

\* The test goes on.
LEMMA TestSteps ==
  ASSUME DriverInv, probe_start \/ test_read \/ test_write \/ test_reread \/ test_restore
  PROVE  StageOK' /\ \A u \in Users : UserOK(u)'
<1>1. /\ UNCHANGED <<drvdata, files, gone, n, leftover, pc, loc, stale>> /\ drvdata = "null"
      /\ ppc \in Testing \cup {"unbound"} /\ ppc' \in Testing
  BY DEF probe_start, test_read, test_write, test_reread, test_restore, users,
     DriverInv, TypeOK, StageOK, Testing
<1>2. StageOK'
  BY <1>1 DEF DriverInv, StageOK, Testing
<1>3. QED
  BY <1>1, <1>2 DEF DriverInv, UserOK, Inside

\* Probe registers the files, or fails.
LEMMA RegisterSteps ==
  ASSUME DriverInv, set_clientdata \/ create_file \/ create_last_file \/ probe_failed
  PROVE  StageOK' /\ \A u \in Users : UserOK(u)'
<1>1. n \in 0 .. 4 /\ FileSeq[4] = "write_byte"
  BY FileNames DEF DriverInv, TypeOK
<1>2. CASE set_clientdata
  <2>1. /\ UNCHANGED <<files, gone, leftover, pc, loc, stale>> /\ ppc = "set_clientdata" /\ n' = 0
        /\ drvdata' = "live" /\ ppc' = "register"
    BY <1>2 DEF set_clientdata, users
  <2>2. StageOK'
    BY <2>1 DEF DriverInv, StageOK, Testing
  <2>3. QED
    BY <2>1, <2>2 DEF DriverInv, UserOK, Inside
<1>3. CASE create_file
  <2>1. /\ UNCHANGED <<drvdata, gone, ppc, leftover, pc, loc, stale>> /\ ppc = "register"
        /\ n' = n + 1 /\ n \in 0 .. 2 /\ files \subseteq files'
        /\ files' \subseteq files \cup {FileSeq[n + 1]}
    BY <1>1, <1>3 DEF create_file, users
  <2>2. FileSeq[n + 1] \in {"usage", "reg_addr", "read_byte"}
    <3>1. n + 1 \in {1, 2, 3}
      BY <2>1
    <3>2. QED
      BY <3>1, FileNames
  <2>3. StageOK'
    BY <2>1, <2>2 DEF DriverInv, StageOK, Testing
  <2>4. QED
    BY <2>1, <2>3 DEF DriverInv, UserOK, Inside
<1>4. CASE create_last_file /\ ppc' = "bound"
  <2>1. /\ UNCHANGED <<drvdata, gone, leftover, pc, loc, stale>> /\ ppc = "register" /\ n' = 0
        /\ files \subseteq files'
    BY <1>4 DEF create_last_file
  <2>2. StageOK'
    BY <1>4, <2>1 DEF DriverInv, StageOK, Testing
  <2>3. QED
    BY <2>1, <2>2 DEF DriverInv, UserOK, Inside
<1>5. CASE create_last_file /\ ppc' # "bound"
  <2>1. /\ UNCHANGED <<files, gone, pc, loc>> /\ ppc = "register" /\ n' = 0 /\ drvdata' = "freed"
        /\ ppc' = "failed" /\ leftover' = files /\ stale' = {u \in Users : Inside(u)}
        /\ gone \subseteq files
    BY <1>5 DEF create_last_file, DriverInv, TypeOK
  <2>2. StageOK'
    BY <2>1 DEF DriverInv, StageOK, Testing
  <2>3. QED
    BY <2>1, <2>2 DEF DriverInv, UserOK, Inside
<1>6. CASE probe_failed
  <2>1. /\ UNCHANGED <<files, gone, n, leftover, pc, loc, stale>> /\ ppc = "failed"
        /\ drvdata' = "null" /\ ppc' = "unbound"
    BY <1>6 DEF probe_failed, users
  <2>2. StageOK'
    BY <2>1 DEF DriverInv, StageOK, Testing
  <2>3. QED
    BY <2>1, <2>2 DEF DriverInv, StageOK, UserOK, Inside
<1>7. QED
  BY <1>2, <1>3, <1>4, <1>5, <1>6

\* Remove waits for the calls before it takes a file away.
LEMMA RemoveSteps ==
  ASSUME DriverInv, Remove
  PROVE  StageOK' /\ \A u \in Users : UserOK(u)'
<1>1. n \in 0 .. 4 /\ files \subseteq {"usage", "reg_addr", "read_byte", "write_byte"}
  BY FileNames DEF DriverInv, TypeOK
<1>2. CASE remove_start
  <2>1. /\ UNCHANGED <<drvdata, files, gone, n, leftover, pc, loc, stale>>
        /\ ppc = "bound" /\ ppc' = "unregister"
    BY <1>2 DEF remove_start, users
  <2>2. StageOK'
    BY <2>1 DEF DriverInv, StageOK, Testing
  <2>3. QED
    BY <2>1, <2>2 DEF DriverInv, UserOK, Inside
<1>3. CASE remove_file
  <2>1. /\ UNCHANGED <<drvdata, ppc, leftover, pc, loc, stale>> /\ ppc = "unregister"
        /\ n \in 0 .. 3 /\ n' = n + 1 /\ files' = files \ {FileSeq[n + 1]}
        /\ gone' \subseteq gone
        /\ \A u \in Users : pc[u] # "idle" => loc[u].file # FileSeq[n + 1]
    BY <1>1, <1>3 DEF remove_file, users
  <2>2. /\ n = 0 => files' = files \ {"usage"}
        /\ n = 1 => files' = files \ {"reg_addr"}
        /\ n = 2 => files' = files \ {"read_byte"}
        /\ n = 3 => files' = files \ {"write_byte"}
    BY <2>1, FileNames
  <2>3. StageOK'
    BY <2>1, <2>2 DEF DriverInv, StageOK, Testing
  <2>4. QED
    BY <2>1, <2>3 DEF DriverInv, UserOK, Inside
<1>4. CASE remove_done
  <2>1. /\ UNCHANGED <<files, gone, pc, loc, stale>> /\ ppc = "unregister" /\ n = 4
        /\ drvdata' = "null" /\ ppc' = "unbound" /\ n' = 0 /\ leftover' = {}
    BY <1>4 DEF remove_done, users
  <2>2. files = {} /\ gone = {}
    BY <1>1, <2>1 DEF DriverInv, StageOK, TypeOK
  <2>3. StageOK'
    BY <2>1, <2>2 DEF StageOK, Testing
  <2>4. QED
    BY <2>1, <2>2, <2>3, NobodyInside DEF DriverInv, UserOK, Inside
<1>5. CASE unload
  <2>1. /\ UNCHANGED <<drvdata, files, ppc, n, leftover, pc, loc>> /\ ppc = "unbound"
        /\ stale' = {u \in Users : Inside(u)} /\ gone' = files
    BY <1>5 DEF unload
  <2>2. StageOK'
    BY <2>1 DEF DriverInv, StageOK
  <2>3. QED
    BY <2>1, <2>2 DEF DriverInv, StageOK, UserOK, Inside
<1>6. QED
  BY <1>2, <1>3, <1>4, <1>5 DEF Remove

\* A call enters through a file that exists, and crashes only in one that a
\* failed probe has left.
LEMMA UserSteps ==
  ASSUME DriverInv, NEW u \in Users, User(u)
  PROVE  StageOK' /\ \A v \in Users : UserOK(v)'
<1>1. UNCHANGED <<drvdata, files, gone, ppc, n, leftover>>
  BY OthersStay DEF core
<1>2. StageOK'
  BY <1>1 DEF DriverInv, StageOK
<1>3. \A v \in Users \ {u} : UserOK(v)'
  BY <1>1, OthersStay DEF DriverInv, UserOK, Inside
<1>4. UserOK(u)'
  <2>1. /\ pc \in [Users -> PcValues] /\ loc \in [Users -> Locals] /\ UserOK(u)
        /\ stale \subseteq Users /\ gone \subseteq files
    BY DEF DriverInv, TypeOK, Locals, PcValues
  <2>2. NoLoc.file = None /\ NoLoc.byte = None /\ None \notin Data
    BY At24Assumption DEF NoLoc
  <2>3. ASSUME NEW f, NEW l, NEW p, Enter(u, f, l, p), p \in {"store", "transfer", "load"},
               l.file = f, l.byte = None \/ f = "write_byte"
        PROVE  UserOK(u)'
    <3>1. /\ pc[u] = "idle" /\ f \in files /\ drvdata # "null" /\ pc'[u] = p /\ loc'[u] = l
          /\ u \in stale' <=> u \in stale \/ drvdata = "freed"
      BY <2>1, <2>3 DEF Enter
    <3>2. u \notin stale /\ (drvdata = "freed" => f \in leftover)
      BY <2>1, <3>1 DEF UserOK, Inside, DriverInv, StageOK
    <3>3. drvdata \in {"null", "live", "freed"}
      BY DEF DriverInv, TypeOK
    <3>4. QED
      BY <1>1, <2>3, <3>1, <3>2, <3>3 DEF UserOK, Inside
  <2>4. CASE store_reg_addr(u)
    <3>1. PICK a \in RegValues :
            Enter(u, "reg_addr", [NoLoc EXCEPT !.file = "reg_addr", !.addr = a], "store")
      BY <2>4 DEF store_reg_addr
    <3>2. /\ [NoLoc EXCEPT !.file = "reg_addr", !.addr = a].file = "reg_addr"
          /\ [NoLoc EXCEPT !.file = "reg_addr", !.addr = a].byte = None
      BY DEF NoLoc
    <3>3. QED
      BY <2>3, <3>1, <3>2
  <2>5. CASE show_read_byte(u)
    BY <2>3, <2>5 DEF show_read_byte, NoLoc
  <2>6. CASE store_write_byte(u)
    <3>1. PICK d \in Data :
            Enter(u, "write_byte",
                  [NoLoc EXCEPT !.file = "write_byte", !.addr = reg_addr, !.byte = d], "transfer")
      BY <2>6 DEF store_write_byte
    <3>2. [NoLoc EXCEPT !.file = "write_byte", !.addr = reg_addr, !.byte = d].file = "write_byte"
      BY DEF NoLoc
    <3>3. QED
      BY <2>3, <3>1, <3>2
  <2>7. CASE store_unprefixed(u)
    BY <2>3, <2>7 DEF store_unprefixed, NoLoc
  <2>8. ASSUME Leave(u) PROVE UserOK(u)'
    BY <2>1, <2>2, <2>8 DEF Leave, UserOK, Inside
  <2>9. CASE set_reg_addr(u) \/ transfer_failed(u) \/ advance(u)
    BY <2>8, <2>9 DEF set_reg_addr, transfer_failed, advance
  <2>10. CASE transfer_ok(u)
    BY <1>1, <2>1, <2>10 DEF transfer_ok, UserOK, Inside, Locals
  <2>11. CASE load_reg_addr(u)
    BY <1>1, <2>1, <2>11 DEF load_reg_addr, UserOK, Inside, Locals
  <2>12. CASE call_leftover(u)
    <3>1. PICK f \in files : /\ f \in gone \/ (drvdata = "null" /\ f # "usage")
                            /\ loc' = [loc EXCEPT ![u] = [NoLoc EXCEPT !.file = f]]
      BY <2>12 DEF call_leftover
    <3>2. /\ loc'[u].file = f /\ loc'[u].byte = None /\ pc'[u] = "oops" /\ stale' = stale
          /\ u \notin stale
      BY <2>1, <2>12, <3>1 DEF call_leftover, NoLoc, UserOK, Inside
    <3>3. f \in leftover
      BY <3>1 DEF DriverInv, StageOK
    <3>4. QED
      BY <1>1, <3>2, <3>3 DEF UserOK, Inside
  <2>13. CASE use_freed(u)
    <3>1. CASE Leave(u)
      BY <2>8, <3>1
    <3>2. CASE ~Leave(u)
      BY <1>1, <2>1, <2>13, <3>2 DEF use_freed, UserOK, Inside
    <3>3. QED
      BY <3>1, <3>2
  <2>14. QED
    BY <2>4, <2>5, <2>6, <2>7, <2>9, <2>10, <2>11, <2>12, <2>13 DEF User
<1>5. QED
  BY <1>2, <1>3, <1>4

\* The driver is not bound at first.
LEMMA DriverInit == Init => DriverInv
<1> SUFFICES ASSUME Init PROVE DriverInv
  OBVIOUS
<1>1. NoLoc \in Locals /\ 0 \in RegValues
  BY SizePositive DEF NoLoc, Locals, RegValues
<1>2. TypeOK
  <2>1. raced \in BOOLEAN /\ failed \in BOOLEAN
    BY DEF Init
  <2>2. /\ mem \in [Addresses -> Data] /\ reg_addr \in RegValues /\ expected \in RegValues
        /\ files \subseteq Files /\ gone \subseteq files /\ leftover \subseteq Files
        /\ ppc \in Stages /\ n \in 0 .. 4 /\ drvdata = "null"
        /\ data_old \in Data /\ before \in Data /\ stale = {}
    BY <1>1, At24Assumption DEF Init, Stages
  <2>3. pc \in [Users -> PcValues] /\ loc \in [Users -> Locals]
    BY <1>1 DEF Init, PcValues
  <2>4. QED
    BY <2>1, <2>2, <2>3 DEF TypeOK, Locals, PcValues
<1>3. StageOK
  BY DEF Init, StageOK, Testing
<1>4. \A u \in Users : UserOK(u)
  BY DEF Init, UserOK, Inside, NoLoc
<1>5. QED
  BY <1>2, <1>3, <1>4 DEF DriverInv

\* Every step preserves DriverInv.
LEMMA DriverNext == DriverInv /\ [Next]_vars => DriverInv'
<1> SUFFICES ASSUME DriverInv, [Next]_vars PROVE DriverInv'
  OBVIOUS
<1>1. CASE probe_start \/ test_read \/ test_write \/ test_reread \/ test_restore
  BY <1>1, TestTypes, TestSteps DEF DriverInv
<1>2. CASE set_clientdata \/ create_file \/ create_last_file \/ probe_failed
  BY <1>2, FileTypes, RegisterSteps DEF DriverInv
<1>3. CASE Remove
  BY <1>3, FileTypes, RemoveSteps DEF DriverInv
<1>4. ASSUME NEW u \in Users, User(u) PROVE DriverInv'
  BY <1>4, UserTypes, UserSteps DEF DriverInv
<1>5. CASE UNCHANGED vars
  BY <1>5 DEF vars, chip, core, users, regs, DriverInv, TypeOK, StageOK, UserOK, Inside
<1>6. QED
  BY <1>1, <1>2, <1>3, <1>4, <1>5 DEF Next, Probe

\* The stages, the files and the calls agree throughout.
THEOREM DriverHolds == Spec => []DriverInv
BY DriverInit, DriverNext, PTL DEF Spec

\* The types are as declared.
THEOREM At24Types == Spec => []TypeOK
<1>1. DriverInv => TypeOK
  BY DEF DriverInv
<1>2. QED
  BY <1>1, DriverHolds, PTL

(***************************************************************************)
(* A call has the private data it uses, except in files that the failure   *)
(* of the last device_create_file has left behind, however often the       *)
(* device is probed again and the module loaded again after that.          *)
(***************************************************************************)
THEOREM CallsCorrect == Spec => []CallsHaveData
<1>1. DriverInv => CallsHaveData
  <2> SUFFICES ASSUME DriverInv PROVE CallsHaveData
    OBVIOUS
  <2>1. ASSUME NEW u \in Users, pc[u] # "idle",
               drvdata # "live" \/ u \in stale \/ pc[u] = "oops"
        PROVE  loc[u].file \in leftover
    BY <2>1 DEF DriverInv, UserOK, Inside
  <2>2. QED
    BY <2>1 DEF CallsHaveData, DriverInv, StageOK
<1>2. QED
  BY <1>1, DriverHolds, PTL

-----------------------------------------------------------------------------
(* The byte the test overwrites.                                           *)

\* Where the old byte is, as long as the first read and the last write succeed.
ByteInv ==
  ~failed =>
    /\ ppc \in {"test_read", "set_clientdata", "register"} => mem[TestAddr] = before
    /\ ppc \in {"test_write", "test_reread", "test_restore"} => data_old = before

\* Nobody writes to the chip while it is tested and the files are created.
LEMMA NoUserWrites ==
  ASSUME DriverInv, NEW u \in Users, User(u), ppc \notin {"bound", "unregister"}
  PROVE  mem' = mem
<1>1. CASE transfer_ok(u) \/ transfer_failed(u)
  <2>1. pc[u] # "idle"
    BY <1>1 DEF transfer_ok, transfer_failed
  <2>2. loc[u].byte = None
    BY <2>1 DEF DriverInv, StageOK, UserOK
  <2>3. QED
    BY <1>1, <2>2 DEF transfer_ok, transfer_failed
<1>2. QED
  BY <1>1 DEF User, Enter, store_reg_addr, set_reg_addr, show_read_byte, store_write_byte,
     store_unprefixed, load_reg_addr, advance, call_leftover, use_freed, chip

\* Every step preserves ByteInv.
LEMMA ByteNext == DriverInv /\ ByteInv /\ [Next]_vars => ByteInv'
<1> SUFFICES ASSUME DriverInv, ByteInv, [Next]_vars PROVE ByteInv'
  OBVIOUS
<1>1. TestAddr \in Addresses /\ TestAddr \in RegValues /\ ChipAddr(TestAddr) = TestAddr
  <2>1. TestAddr \in Addresses /\ TestAddr \in RegValues
    BY At24Assumption, SizePositive DEF Addresses, RegValues
  <2>2. QED
    BY <2>1, AddressRange
<1>2. \A d : Written(TestAddr, d)[TestAddr] = d
  BY <1>1 DEF Written, DriverInv, TypeOK
<1>3. failed \in BOOLEAN
  BY DEF DriverInv, TypeOK
<1>4. CASE probe_start
  BY <1>4 DEF probe_start, ByteInv
<1>5. CASE test_read
  BY <1>3, <1>5 DEF test_read, ByteInv
<1>6. CASE test_write
  BY <1>3, <1>6 DEF test_write, ByteInv
<1>7. CASE test_reread
  BY <1>3, <1>7 DEF test_reread, ByteInv, chip
<1>8. CASE test_restore
  BY <1>2, <1>3, <1>8 DEF test_restore, ByteInv
<1>9. CASE set_clientdata \/ create_file \/ probe_failed \/ Remove
  BY <1>9 DEF set_clientdata, create_file, probe_failed, Remove, remove_start,
     remove_file, remove_done, unload, chip, ByteInv
<1>10. CASE create_last_file
  <2>1. ppc' \in {"bound", "failed"}
    BY <1>10 DEF create_last_file
  <2>2. QED
    BY <2>1 DEF ByteInv
<1>11. ASSUME NEW u \in Users, User(u) PROVE ByteInv'
  <2>1. UNCHANGED <<before, data_old, failed, ppc>>
    BY <1>11, OthersStay DEF core
  <2>2. CASE ppc \in {"bound", "unregister"}
    BY <2>1, <2>2 DEF ByteInv
  <2>3. CASE ppc \notin {"bound", "unregister"}
    BY <1>11, <2>1, <2>3, NoUserWrites DEF ByteInv
  <2>4. QED
    BY <2>2, <2>3
<1>12. CASE UNCHANGED vars
  BY <1>12 DEF vars, chip, core, ByteInv
<1>13. QED
  BY <1>4, <1>5, <1>6, <1>7, <1>8, <1>9, <1>10, <1>11, <1>12 DEF Next, Probe

\* A test whose first read and last write succeed leaves the memory as it was.
THEOREM TestCorrect == Spec => []ProbePreservesMemory
<1>1. Init => ByteInv
  BY DEF Init, ByteInv
<1>2. ByteInv => ProbePreservesMemory
  BY DEF ByteInv, ProbePreservesMemory
<1>3. QED
  BY <1>1, <1>2, ByteNext, DriverHolds, PTL DEF Spec

-----------------------------------------------------------------------------
(* The address.                                                            *)

\* As long as no two increments have overlapped, whoever has loaded the address
\* from the live data has loaded the expected one.
AddrInv ==
  ~raced => /\ reg_addr = expected
            /\ \A u \in Users \ stale : pc[u] = "advance" => loc[u].tmp = reg_addr

\* While there is no live data, every call inside is stale.
LEMMA NoneLoaded ==
  ASSUME DriverInv, drvdata # "live"
  PROVE  \A u \in Users \ stale : pc[u] # "advance"
BY DEF DriverInv, UserOK, Inside

\* Every step preserves AddrInv.
LEMMA AddrNext == DriverInv /\ AddrInv /\ [Next]_vars => AddrInv'
<1> SUFFICES ASSUME DriverInv, AddrInv, [Next]_vars PROVE AddrInv'
  OBVIOUS
<1>1. ASSUME reg_addr' = expected', \A u \in Users \ stale' : pc'[u] # "advance"
      PROVE  AddrInv'
  BY <1>1 DEF AddrInv
<1>2. CASE probe_start
  <2>1. drvdata # "live" /\ UNCHANGED <<pc, loc, stale>> /\ reg_addr' = expected'
    BY <1>2 DEF probe_start, users, DriverInv, StageOK
  <2>2. QED
    BY <1>1, <2>1, NoneLoaded
<1>3. CASE create_last_file /\ ppc' # "bound"
  <2>1. /\ reg_addr' = expected' /\ pc' = pc /\ stale' = {u \in Users : Inside(u)}
    BY <1>3 DEF create_last_file, NoRegs
  <2>2. QED
    BY <1>1, <2>1 DEF Inside
<1>4. CASE create_last_file /\ ppc' = "bound"
  BY <1>4 DEF create_last_file, regs, AddrInv
<1>5. CASE remove_done
  <2>1. reg_addr' = expected' /\ UNCHANGED <<pc, stale>> /\ n = 4 /\ ppc = "unregister"
    BY <1>5 DEF remove_done, NoRegs, users
  <2>2. files = {}
    BY <2>1, FileNames DEF DriverInv, StageOK, TypeOK
  <2>3. QED
    BY <1>1, <2>1, <2>2, NobodyInside
<1>6. CASE unload
  <2>1. /\ UNCHANGED <<pc, loc, reg_addr, expected, raced>>
        /\ stale' = {u \in Users : Inside(u)}
    BY <1>6 DEF unload, regs
  <2>2. \A u \in Users \ stale' : pc'[u] # "advance"
    BY <2>1 DEF Inside
  <2>3. QED
    BY <2>1, <2>2 DEF AddrInv
<1>7. CASE UNCHANGED <<users, regs>>
  BY <1>7 DEF users, regs, AddrInv
<1>8. ASSUME NEW u \in Users, User(u) PROVE AddrInv'
  <2>1. /\ pc \in [Users -> PcValues] /\ loc \in [Users -> Locals]
    BY DEF DriverInv, TypeOK, Locals, PcValues
  <2>2. \A v \in Users \ {u} : /\ pc'[v] = pc[v] /\ loc'[v] = loc[v]
                               /\ v \in stale' <=> v \in stale
    BY <1>8, OthersStay
  <2>3. CASE set_reg_addr(u)
    <3>1. /\ reg_addr' = expected' /\ raced' = Overlaps(u) /\ pc'[u] = "idle"
      BY <2>1, <2>3 DEF set_reg_addr, Leave
    <3>2. QED
      BY <2>2, <3>1 DEF AddrInv, Overlaps
  <2>4. CASE load_reg_addr(u)
    <3>1. UNCHANGED <<reg_addr, expected, raced>> /\ loc'[u].tmp = reg_addr
      BY <2>1, <2>4 DEF load_reg_addr, regs, Locals
    <3>2. QED
      BY <2>2, <3>1 DEF AddrInv
  <2>5. CASE advance(u)
    <3>1. /\ pc[u] = "advance" /\ pc'[u] = "idle" /\ raced' = (raced \/ Overlaps(u))
          /\ reg_addr' = Advance(loc[u].tmp) /\ expected' = Advance(expected) /\ u \notin stale
      BY <2>1, <2>5 DEF advance, Advance, Leave
    <3>2. ~raced' => \A v \in Users \ {u} : pc[v] # "advance"
      BY <3>1 DEF Overlaps
    <3>3. ~raced' => ~raced
      BY <3>1
    <3>4. QED
      BY <2>2, <3>1, <3>2, <3>3 DEF AddrInv
  <2>6. ASSUME UNCHANGED regs, pc'[u] # "advance"
        PROVE  AddrInv'
    BY <2>2, <2>6 DEF AddrInv, regs
  <2>7. CASE store_reg_addr(u) \/ show_read_byte(u) \/ store_write_byte(u) \/ store_unprefixed(u)
    <3>1. PICK f, l, p : Enter(u, f, l, p) /\ p # "advance"
      <4>1. CASE store_reg_addr(u)
        BY <4>1 DEF store_reg_addr
      <4>2. CASE show_read_byte(u)
        BY <4>2 DEF show_read_byte
      <4>5. CASE store_write_byte(u)
        <5>1. PICK l : Enter(u, "write_byte", l, "transfer")
          BY <4>5 DEF store_write_byte
        <5>2. QED
          BY <5>1
      <4>3. CASE store_unprefixed(u)
        BY <4>3 DEF store_unprefixed
      <4>4. QED
        BY <2>7, <4>1, <4>2, <4>3, <4>5
    <3>2. QED
      BY <2>1, <2>6, <3>1 DEF Enter
  <2>8. CASE transfer_ok(u) \/ transfer_failed(u) \/ call_leftover(u)
    BY <2>1, <2>6, <2>8 DEF transfer_ok, transfer_failed, call_leftover, Leave
  <2>9. CASE use_freed(u)
    <3>1. pc'[u] # "advance" /\ (UNCHANGED regs \/ raced' = TRUE)
      BY <2>1, <2>9 DEF use_freed, Leave
    <3>2. CASE raced' = TRUE
      BY <3>2 DEF AddrInv
    <3>3. QED
      BY <2>6, <3>1, <3>2
  <2>10. QED
    BY <1>8, <2>3, <2>4, <2>5, <2>7, <2>8, <2>9 DEF User
<1>9. QED
  BY <1>2, <1>3, <1>4, <1>5, <1>6, <1>7, <1>8 DEF Next, Probe, Remove, test_read, test_write,
     test_reread, test_restore, set_clientdata, create_file, probe_failed, remove_start,
     remove_file, vars

\* Calls that do not overlap in the increment advance the address one by one.
THEOREM AdvanceCorrect == Spec => []AdvancesOncePerCall
<1>1. Init => AddrInv
  BY DEF Init, AddrInv
<1>2. AddrInv /\ DriverInv => AdvancesOncePerCall
  BY DEF AddrInv, AdvancesOncePerCall
<1>3. QED
  BY <1>1, <1>2, AddrNext, DriverHolds, PTL DEF Spec
=============================================================================
