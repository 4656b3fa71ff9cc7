-------------------------------- MODULE At24c256 --------------------------------
(***************************************************************************)
(* The EEPROM driver device_drivers/at24c256_drv: probe with its test of   *)
(* the chip, the sysfs files reg_addr, read_byte and write_byte, and       *)
(* remove.                                                                 *)
(*                                                                         *)
(* sysfs serialises the calls on one open file only, so several users are  *)
(* inside the driver at a time, and the driver has no lock.  i2c_transfer  *)
(* (external) sleeps and may fail; a write that is reported as failed may  *)
(* or may not have reached the chip.  The user's text is abstracted to     *)
(* what convert_char_to_hex_reg makes of it (module HexConversion).        *)
(* Calls that change nothing (usage, a refused text, a probe that finds no *)
(* memory) are stuttering steps.                                           *)
(***************************************************************************)
EXTENDS Integers, Sequences

CONSTANTS
  Users,
  Data,          \* byte values
  Pattern,       \* the byte the test writes (0xF9)
  PAGE_SIZE,     \* PAGE_SIZE_AT24C256
  PAGE_COUNT,
  TestAddr,      \* the address the test uses (0x0011)
  None

TOTAL_MEM_SIZE == PAGE_SIZE * PAGE_COUNT

Addresses == 0 .. TOTAL_MEM_SIZE - 1

\* The values of uint16_t: twice the memory.
RegValues == 0 .. 2 * TOTAL_MEM_SIZE - 1

ASSUME At24Assumption ==
  /\ PAGE_SIZE \in Nat \ {0} /\ PAGE_COUNT \in Nat \ {0}
  /\ TestAddr \in Addresses
  /\ Pattern \in Data
  /\ None \notin Data

VARIABLES
  mem,       \* the chip's memory
  reg_addr,  \* prv_data->reg_addr
  drvdata,   \* the client data: "null", "live", or "freed" with prv_data freed
  files,     \* the sysfs files that exist
  gone,      \* those of them whose functions are in a module that was unloaded
  ppc, n,    \* where probe and remove are, and how many files they have done
  data_old,  \* dummy_read_write's local
  pc,        \* where each user is
  loc,       \* the file of each call, and its locals: address, byte, loaded reg_addr
  stale,     \* the calls whose prv_data, or code, was freed while they were inside
  before,    \* the byte at TestAddr when probe started
  failed,    \* the first read or the last write of the test has failed
  expected,  \* the address if the calls came one at a time
  raced,     \* calls have overlapped since the address was last stored
  leftover   \* history: the files that a failed probe left behind

chip  == <<mem, before, data_old, failed>>
core  == <<drvdata, files, gone, ppc, n, leftover>>
users == <<pc, loc, stale>>
regs  == <<reg_addr, expected, raced>>
vars  == <<chip, core, users, regs>>

\* The order in which the files are created, and removed.
FileSeq == <<"usage", "reg_addr", "read_byte", "write_byte">>
Files   == {FileSeq[i] : i \in 1 .. 4}
NoLoc == [file |-> None, addr |-> 0, byte |-> None, tmp |-> 0]

Init ==
  /\ mem \in [Addresses -> Data]
  /\ reg_addr = 0 /\ expected = 0 /\ raced = FALSE
  /\ drvdata = "null" /\ files = {} /\ gone = {} /\ leftover = {} /\ ppc = "unbound" /\ n = 0
  /\ data_old = Pattern /\ before = Pattern /\ failed = FALSE
  /\ pc = [u \in Users |-> "idle"]
  /\ loc = [u \in Users |-> NoLoc]
  /\ stale = {}

\* The chip ignores the highest bit of the address.
ChipAddr(addr) == addr % TOTAL_MEM_SIZE

\* A write to the chip; failing or not, the byte may have arrived.
Written(addr, byte) == [mem EXCEPT ![ChipAddr(addr)] = byte]

-----------------------------------------------------------------------------
(* Probe.  devm_kmalloc leaves reg_addr as it finds it.                    *)

probe_start ==
  /\ ppc = "unbound"
  /\ \E a \in RegValues : reg_addr' = a /\ expected' = a
  /\ raced' = FALSE
  /\ before' = mem[TestAddr]
  /\ failed' = FALSE
  /\ ppc' = "test_read"
  /\ UNCHANGED <<mem, data_old, drvdata, files, gone, n, leftover, users>>

\* A test that keeps no byte when its read fails.
test_read_unset ==
  /\ ppc = "test_read"
  /\ \/ data_old' = mem[TestAddr] /\ failed' = failed
     \/ data_old' = None /\ failed' = TRUE
  /\ ppc' = "test_write"
  /\ UNCHANGED <<mem, before, drvdata, files, gone, n, leftover, users, regs>>

\* The first transfer of dummy_read_write; data is uninitialised if it fails.
test_read ==
  /\ ppc = "test_read"
  /\ \/ data_old' = mem[TestAddr] /\ failed' = failed
     \/ data_old' \in Data /\ failed' = TRUE
  /\ ppc' = "test_write"
  /\ UNCHANGED <<mem, before, drvdata, files, gone, n, leftover, users, regs>>

\* Whether it arrives or not, the test goes on.
test_write ==
  /\ ppc = "test_write"
  /\ mem' \in {mem, Written(TestAddr, Pattern)}
  /\ ppc' = "test_reread"
  /\ UNCHANGED <<before, data_old, failed, drvdata, files, gone, n, leftover, users, regs>>

\* The second read; its byte is only printed.
test_reread ==
  /\ ppc = "test_reread"
  /\ ppc' = "test_restore"
  /\ UNCHANGED <<chip, drvdata, files, gone, n, leftover, users, regs>>

\* A test that forgets to put the old byte back.
test_restore_forgotten ==
  /\ ppc = "test_restore"
  /\ ppc' = "set_clientdata"
  /\ UNCHANGED <<chip, drvdata, files, gone, n, leftover, users, regs>>

\* "restoring old data", which is not the old data if the first read failed.
\* (Locals and histories that are no longer used get a fixed value.)
test_restore ==
  /\ ppc = "test_restore"
  /\ \/ mem' = Written(TestAddr, data_old) /\ failed' = failed
     \/ mem' \in {mem, Written(TestAddr, data_old)} /\ failed' = TRUE
  /\ data_old' = Pattern
  /\ ppc' = "set_clientdata"
  /\ UNCHANGED <<before, drvdata, files, gone, n, leftover, users, regs>>

set_clientdata ==
  /\ ppc = "set_clientdata"
  /\ drvdata' = "live"
  /\ ppc' = "register" /\ n' = 0
  /\ UNCHANGED <<chip, files, gone, leftover, users, regs>>

\* device_create_file for the first three files: a failure is only printed, and
\* an old file of that name stays.
create_file ==
  /\ ppc = "register"
  /\ n < 3
  /\ files' \in {files, files \cup {FileSeq[n + 1]}}
  /\ n' = n + 1
  /\ UNCHANGED <<chip, drvdata, gone, ppc, leftover, users, regs>>

Inside(u) == pc[u] \notin {"idle", "oops"}

\* prv_data has been freed: there is no address any more.
NoRegs == reg_addr' = 0 /\ expected' = 0 /\ raced' = FALSE

\* The last file decides: on failure prv_data is freed, ...
create_last_file ==
  /\ ppc = "register"
  /\ n = 3
  /\ \/ /\ files' = files \cup {FileSeq[4]}
        /\ ppc' = "bound"
        /\ UNCHANGED <<drvdata, stale, leftover, regs>>
     \/ /\ drvdata' = "freed"
        /\ stale' = {u \in Users : Inside(u)}
        /\ leftover' = files
        /\ ppc' = "failed"
        /\ NoRegs
        /\ UNCHANGED files
  /\ n' = 0
  /\ before' = Pattern /\ failed' = FALSE
  /\ UNCHANGED <<mem, data_old, gone, pc, loc>>

\* ... and then the driver core clears the client data.
probe_failed ==
  /\ ppc = "failed"
  /\ drvdata' = "null"
  /\ ppc' = "unbound"
  /\ UNCHANGED <<chip, files, gone, n, leftover, users, regs>>

Probe ==
  \/ probe_start \/ test_read \/ test_write \/ test_reread \/ test_restore
  \/ set_clientdata \/ create_file \/ create_last_file \/ probe_failed

-----------------------------------------------------------------------------
(* Remove, and the end of the module.                                      *)

remove_start ==
  /\ ppc = "bound"
  /\ ppc' = "unregister"
  /\ UNCHANGED <<chip, drvdata, files, gone, n, leftover, users, regs>>

\* A remove_file that does not wait for the calls in progress.
remove_file_at_once ==
  /\ ppc = "unregister"
  /\ n < 4
  /\ files' = files \ {FileSeq[n + 1]}
  /\ gone' = gone \ {FileSeq[n + 1]}
  /\ n' = n + 1
  /\ UNCHANGED <<chip, drvdata, ppc, leftover, users, regs>>

\* device_remove_file waits for the calls that are in progress, for ever if one
\* of them has crashed.
remove_file ==
  /\ ppc = "unregister"
  /\ n < 4
  /\ \A u \in Users : pc[u] # "idle" => loc[u].file # FileSeq[n + 1]
  /\ files' = files \ {FileSeq[n + 1]}
  /\ gone' = gone \ {FileSeq[n + 1]}
  /\ n' = n + 1
  /\ UNCHANGED <<chip, drvdata, ppc, leftover, users, regs>>

\* After remove the driver core frees prv_data and clears the client data.
remove_done ==
  /\ ppc = "unregister"
  /\ n = 4
  /\ drvdata' = "null"
  /\ leftover' = {}
  /\ NoRegs
  /\ ppc' = "unbound" /\ n' = 0
  /\ UNCHANGED <<chip, files, gone, users>>

\* The module is unloaded while the device is not bound, and may be loaded again.
\* Files that a failed probe has left keep pointing to its functions.
unload ==
  /\ ppc = "unbound"
  /\ gone' = files
  /\ stale' = {u \in Users : Inside(u)}
  /\ UNCHANGED <<chip, drvdata, files, ppc, n, leftover, pc, loc, regs>>

Remove == remove_start \/ remove_file \/ remove_done \/ unload

-----------------------------------------------------------------------------
(* Users.                                                                  *)

Accepted(a) == a < TOTAL_MEM_SIZE

\* Another user has loaded reg_addr and not yet stored it.
Overlaps(u) == \E v \in Users \ {u} : pc[v] = "advance"

\* A call of a file: it takes the client data, which may just have been freed.
Enter(u, f, l, p) ==
  /\ pc[u] = "idle"
  /\ f \in files \ gone
  /\ drvdata # "null"
  /\ loc' = [loc EXCEPT ![u] = l]
  /\ pc' = [pc EXCEPT ![u] = p]
  /\ stale' = IF drvdata = "freed" THEN stale \cup {u} ELSE stale
  /\ UNCHANGED <<chip, core, regs>>

\* A call returns.
Leave(u) ==
  /\ pc' = [pc EXCEPT ![u] = "idle"]
  /\ loc' = [loc EXCEPT ![u] = NoLoc]
  /\ stale' = stale \ {u}

\* An address outside the memory is refused, and the call succeeds.
store_reg_addr(u) ==
  \E a \in RegValues : /\ Accepted(a)
                       /\ Enter(u, "reg_addr",
                                [NoLoc EXCEPT !.file = "reg_addr", !.addr = a], "store")

set_reg_addr(u) ==
  /\ pc[u] = "store"
  /\ u \notin stale
  /\ reg_addr' = loc[u].addr /\ expected' = loc[u].addr
  /\ raced' = Overlaps(u)
  /\ Leave(u)
  /\ UNCHANGED <<chip, core>>

\* What byte is read does not matter here.
show_read_byte(u) == Enter(u, "read_byte", [NoLoc EXCEPT !.file = "read_byte"], "transfer")

\* The address is passed by value: what happens to reg_addr later is not seen.
store_write_byte(u) ==
  \E d \in Data :
    Enter(u, "write_byte",
          [NoLoc EXCEPT !.file = "write_byte", !.addr = reg_addr, !.byte = d], "transfer")

\* A text without 0x: nothing is written, but the address moves on.
store_unprefixed(u) ==
  Enter(u, "write_byte", [NoLoc EXCEPT !.file = "write_byte"], "load")

transfer_ok(u) ==
  /\ pc[u] = "transfer"
  /\ mem' = IF loc[u].byte = None THEN mem ELSE Written(loc[u].addr, loc[u].byte)
  /\ pc' = [pc EXCEPT ![u] = "load"]
  /\ loc' = [loc EXCEPT ![u].addr = 0]
  /\ UNCHANGED <<before, data_old, failed, core, stale, regs>>

\* A call that advances reg_addr although its transfer failed.
transfer_failed_advancing(u) ==
  /\ pc[u] = "transfer"
  /\ mem' \in {mem, IF loc[u].byte = None THEN mem ELSE Written(loc[u].addr, loc[u].byte)}
  /\ Leave(u)
  /\ reg_addr' = (reg_addr + 1) % TOTAL_MEM_SIZE
  /\ UNCHANGED <<before, data_old, failed, core, expected, raced>>

\* at24c256_i2c_byte_read or _write returns -1, and so does the call.
transfer_failed(u) ==
  /\ pc[u] = "transfer"
  /\ mem' \in {mem, IF loc[u].byte = None THEN mem ELSE Written(loc[u].addr, loc[u].byte)}
  /\ Leave(u)
  /\ UNCHANGED <<before, data_old, failed, core, regs>>

\* The increment of reg_addr is a load and a store.
load_reg_addr(u) ==
  /\ pc[u] = "load"
  /\ u \notin stale
  /\ loc' = [loc EXCEPT ![u].tmp = reg_addr]
  /\ pc' = [pc EXCEPT ![u] = "advance"]
  /\ UNCHANGED <<chip, core, stale, regs>>

\* (a + 1) & 0x7FFF
Advance(a) == (a + 1) % TOTAL_MEM_SIZE

advance(u) ==
  /\ pc[u] = "advance"
  /\ u \notin stale
  /\ reg_addr' = Advance(loc[u].tmp)
  /\ expected' = (expected + 1) % TOTAL_MEM_SIZE
  /\ raced' = (raced \/ Overlaps(u))
  /\ Leave(u)
  /\ UNCHANGED <<chip, core>>

\* A call of a file that a failed probe has left behind dereferences NULL, or,
\* when the module was unloaded, runs code that is not there.
call_leftover(u) ==
  /\ pc[u] = "idle"
  /\ \E f \in files :
       /\ f \in gone \/ (drvdata = "null" /\ f # "usage")
       /\ loc' = [loc EXCEPT ![u] = [NoLoc EXCEPT !.file = f]]
  /\ pc' = [pc EXCEPT ![u] = "oops"]
  /\ UNCHANGED <<chip, core, stale, regs>>

\* A call that goes on with freed memory crashes, or ends and may have written
\* into what the next probe has allocated.
use_freed(u) ==
  /\ u \in stale
  /\ Inside(u)
  /\ \/ /\ pc' = [pc EXCEPT ![u] = "oops"]
        /\ stale' = stale \ {u}
        /\ UNCHANGED <<loc, regs>>
     \/ Leave(u) /\ UNCHANGED regs
     \/ /\ Leave(u)
        /\ ppc \notin {"failed", "unbound"}
        /\ \E a \in RegValues : reg_addr' = a /\ expected' = a
        /\ raced' = TRUE
  /\ UNCHANGED <<chip, core>>

User(u) ==
  \/ store_reg_addr(u) \/ set_reg_addr(u)
  \/ show_read_byte(u) \/ store_write_byte(u) \/ store_unprefixed(u)
  \/ transfer_ok(u) \/ transfer_failed(u) \/ load_reg_addr(u) \/ advance(u)
  \/ call_leftover(u) \/ use_freed(u)

Next == Probe \/ Remove \/ \E u \in Users : User(u)

Spec == Init /\ [][Next]_vars

-----------------------------------------------------------------------------
(* Properties.                                                             *)

Stages == {"unbound", "test_read", "test_write", "test_reread", "test_restore",
           "set_clientdata", "register", "failed", "bound", "unregister"}

\* The type of the state; reg_addr is a uint16_t.
TypeOK ==
  /\ mem \in [Addresses -> Data]
  /\ reg_addr \in RegValues
  /\ expected \in RegValues /\ raced \in BOOLEAN
  /\ drvdata \in {"null", "live", "freed"}
  /\ files \subseteq Files /\ gone \subseteq files /\ leftover \subseteq Files
  /\ ppc \in Stages /\ n \in 0 .. 4
  /\ data_old \in Data /\ before \in Data /\ failed \in BOOLEAN
  /\ pc \in [Users -> {"idle", "store", "transfer", "load", "advance", "oops"}]
  /\ loc \in [Users -> [file : Files \cup {None}, addr : RegValues,
                        byte : Data \cup {None}, tmp : RegValues]]
  /\ stale \subseteq Users

(***************************************************************************)
(* A call is inside the driver without live private data, or crashes, only *)
(* in a file that a failed probe has left behind: set_clientdata comes     *)
(* before the files, and remove waits for the calls.  Only such files can  *)
(* be called while no driver is bound, also while the device is probed     *)
(* again, and write_byte is never among them.                              *)
(***************************************************************************)
CallsHaveData ==
  /\ \A u \in Users :
       pc[u] # "idle" /\ (drvdata # "live" \/ u \in stale \/ pc[u] = "oops") =>
         loc[u].file \in leftover
  /\ drvdata # "live" => files \subseteq leftover
  /\ "write_byte" \notin leftover

(***************************************************************************)
(* A call that succeeds moves the address by exactly one byte, and a call  *)
(* that fails leaves it alone, as long as nobody changes reg_addr between  *)
(* another call's load and store of it (what is changed then is lost).     *)
(* The sleeping transfer before that does no harm.  The address wraps at   *)
(* the end of the memory, as the code has it for reads and writes alike;   *)
(* for writes the usage text has it wrap in its page, see                  *)
(* WriteRollsOverInPage.                                                   *)
(***************************************************************************)
AdvancesOncePerCall ==
  (\A u \in Users : pc[u] = "idle") /\ ~raced => reg_addr = expected

(***************************************************************************)
(* The test leaves the memory as it was if its first read and its last     *)
(* write succeed, whatever happens to the other two transfers, and also    *)
(* while calls of an earlier, failed probe are still inside the driver.    *)
(***************************************************************************)
ProbePreservesMemory ==
  ppc \in {"set_clientdata", "register"} /\ ~failed => mem[TestAddr] = before

(***************************************************************************)
(* "address roll over happens from last byte of the page to first byte of  *)
(* the same page": after a write the address stays in its page.            *)
(***************************************************************************)
WriteRollsOverInPage ==
  \A u \in Users : pc[u] = "advance" /\ loc[u].byte # None =>
    Advance(loc[u].tmp) \div PAGE_SIZE = loc[u].tmp \div PAGE_SIZE
=============================================================================
