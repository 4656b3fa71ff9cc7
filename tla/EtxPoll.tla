-------------------------------- MODULE EtxPoll --------------------------------
(***************************************************************************)
(* The poll example 17_poll_example_prog: sysfs_store and sysfs_show give  *)
(* the permission to read and to write, etx_poll reports the permissions   *)
(* and takes them back, and the two demo applications wait for them with   *)
(* poll() and with epoll.                                                  *)
(*                                                                         *)
(* The driver has no lock.  Each of its statements on can_read and         *)
(* can_write is a step of its own.  Of etx_value only one thing is kept:   *)
(* whether it has been read since sysfs_store last filled it.              *)
(* poll_wait, poll(), epoll and wake_up are external; they are modelled as *)
(* this driver and these programs use them (Linux 4.14).                   *)
(***************************************************************************)
EXTENDS Integers

CONSTANTS
  Sysfs,      \* processes that read and write the sysfs file
  Apps        \* processes that run one of the two demo applications

VARIABLES
  can_read, can_write,
  unread,     \* sysfs_store has filled etx_value and no application has read it since
  unused,     \* a write permission was given that no application has used
  spc,        \* where each sysfs process is
  apc,        \* where each application is
  from,       \* the kernel function etx_poll returns to: "poll" for good, or first
              \* "ctl" and then "wait"
  mask,       \* the events an application is being told
  queued,     \* the application has an entry in wait_queue_etx_data
  woken,      \* pwq->triggered, or for epoll: the file is on the ready list
  timed_out   \* poll()'s 5 seconds are over

flags   == <<can_read, can_write>>
ghosts  == <<unread, unused>>
waiting == <<queued, woken, timed_out>>
vars    == <<flags, ghosts, spc, apc, from, mask, waiting>>

\* Who runs application_poll_demo, and who application_epoll_demo.
PollApps  == {a \in Apps : from[a] = "poll"}
EpollApps == Apps \ PollApps

\* Any mixture of the two programs.
Init ==
  /\ can_read = FALSE /\ can_write = FALSE
  /\ unread = FALSE /\ unused = FALSE
  /\ spc = [s \in Sysfs |-> "idle"]
  /\ from \in [Apps -> {"poll", "ctl"}]
  /\ apc = [a \in Apps |-> IF from[a] = "poll" THEN "idle" ELSE "new"]
  /\ mask = [a \in Apps |-> {}]
  /\ queued = [a \in Apps |-> FALSE]
  /\ woken = [a \in Apps |-> FALSE]
  /\ timed_out = [a \in Apps |-> FALSE]

-----------------------------------------------------------------------------
(* sysfs_store and sysfs_show.                                             *)

\* strcpy(etx_value, buf)
store_copy(s) ==
  /\ spc[s] = "idle"
  /\ unread' = TRUE
  /\ spc' = [spc EXCEPT ![s] = "flag_in"]
  /\ UNCHANGED <<flags, unused, apc, from, mask, waiting>>

store_flag(s) ==
  /\ spc[s] = "flag_in"
  /\ can_read' = TRUE
  /\ spc' = [spc EXCEPT ![s] = "wake"]
  /\ UNCHANGED <<can_write, ghosts, apc, from, mask, waiting>>

show_flag(s) ==
  /\ spc[s] = "idle"
  /\ can_write' = TRUE
  /\ unused' = TRUE
  /\ spc' = [spc EXCEPT ![s] = "wake"]
  /\ UNCHANGED <<can_read, unread, apc, from, mask, waiting>>

\* wake_up calls the function of every entry: none of them is exclusive.
wake_up(s) ==
  /\ spc[s] = "wake"
  /\ woken' = [a \in Apps |-> woken[a] \/ queued[a]]
  /\ spc' = [spc EXCEPT ![s] = "idle"]
  /\ UNCHANGED <<flags, ghosts, apc, from, mask, queued, timed_out>>

-----------------------------------------------------------------------------
(* etx_poll, called with a poll table ("register") or without one.         *)

\* An etx_poll without the call of poll_wait.
poll_wait_forgotten(a) ==
  /\ apc[a] = "register"
  /\ apc' = [apc EXCEPT ![a] = "test_in"]
  /\ UNCHANGED <<flags, ghosts, spc, from, mask, waiting>>

poll_wait(a) ==
  /\ apc[a] = "register"
  /\ queued' = [queued EXCEPT ![a] = TRUE]
  /\ apc' = [apc EXCEPT ![a] = "test_in"]
  /\ UNCHANGED <<flags, ghosts, spc, from, mask, woken, timed_out>>

\* if( can_read )
test_can_read(a) ==
  /\ apc[a] = "test_in"
  /\ apc' = [apc EXCEPT ![a] = IF can_read THEN "clear_in" ELSE "test_out"]
  /\ UNCHANGED <<flags, ghosts, spc, from, mask, waiting>>

\* The flag cleared and the event not reported.
clear_can_read_silently(a) ==
  /\ apc[a] = "clear_in"
  /\ can_read' = FALSE
  /\ apc' = [apc EXCEPT ![a] = "test_out"]
  /\ UNCHANGED <<can_write, ghosts, spc, from, mask, waiting>>

\* The wrong event bit.
clear_can_read_pri(a) ==
  /\ apc[a] = "clear_in"
  /\ can_read' = FALSE
  /\ mask' = [mask EXCEPT ![a] = @ \cup {"pri"}]
  /\ apc' = [apc EXCEPT ![a] = "test_out"]
  /\ UNCHANGED <<can_write, ghosts, spc, from, waiting>>

clear_can_read(a) ==
  /\ apc[a] = "clear_in"
  /\ can_read' = FALSE
  /\ mask' = [mask EXCEPT ![a] = @ \cup {"in"}]
  /\ apc' = [apc EXCEPT ![a] = "test_out"]
  /\ UNCHANGED <<can_write, ghosts, spc, from, waiting>>

\* if( can_write )
test_can_write(a) ==
  /\ apc[a] = "test_out"
  /\ apc' = [apc EXCEPT ![a] = IF can_write THEN "clear_out" ELSE "back"]
  /\ UNCHANGED <<flags, ghosts, spc, from, mask, waiting>>

clear_can_write(a) ==
  /\ apc[a] = "clear_out"
  /\ can_write' = FALSE
  /\ mask' = [mask EXCEPT ![a] = @ \cup {"out"}]
  /\ apc' = [apc EXCEPT ![a] = "back"]
  /\ UNCHANGED <<can_read, ghosts, spc, from, waiting>>

etx_poll(a) ==
  \/ poll_wait(a) \/ test_can_read(a) \/ clear_can_read(a)
  \/ test_can_write(a) \/ clear_can_write(a)

-----------------------------------------------------------------------------
(* The poll() of application_poll_demo.                                    *)

\* poll(&pfd, 1, 5000)
poll_call(a) ==
  /\ a \in PollApps
  /\ apc[a] = "idle"
  /\ apc' = [apc EXCEPT ![a] = "register"]
  /\ UNCHANGED <<flags, ghosts, spc, from, mask, waiting>>

\* poll() returns: the entry leaves the wait queue.
poll_return(a) ==
  /\ apc[a] = "back"
  /\ from[a] = "poll"
  /\ mask[a] # {} \/ timed_out[a]
  /\ queued' = [queued EXCEPT ![a] = FALSE]
  /\ woken' = [woken EXCEPT ![a] = FALSE]
  /\ timed_out' = [timed_out EXCEPT ![a] = FALSE]
  /\ apc' = [apc EXCEPT ![a] = "use_in"]
  /\ UNCHANGED <<flags, ghosts, spc, from, mask>>

poll_sleep(a) ==
  /\ apc[a] = "back"
  /\ from[a] = "poll"
  /\ mask[a] = {}
  /\ ~timed_out[a]
  /\ apc' = [apc EXCEPT ![a] = "sleep"]
  /\ UNCHANGED <<flags, ghosts, spc, from, mask, waiting>>

\* After a wake-up, and once after the timeout, etx_poll is called again.
poll_wakes(a) ==
  /\ apc[a] = "sleep"
  /\ from[a] = "poll"
  /\ woken[a]
  /\ woken' = [woken EXCEPT ![a] = FALSE]
  /\ apc' = [apc EXCEPT ![a] = "test_in"]
  /\ UNCHANGED <<flags, ghosts, spc, from, mask, queued, timed_out>>

poll_timeout(a) ==
  /\ apc[a] = "sleep"
  /\ from[a] = "poll"
  /\ ~woken[a]
  /\ timed_out' = [timed_out EXCEPT ![a] = TRUE]
  /\ apc' = [apc EXCEPT ![a] = "test_in"]
  /\ UNCHANGED <<flags, ghosts, spc, from, mask, queued, woken>>

-----------------------------------------------------------------------------
(* The epoll of application_epoll_demo.  The file stays in the wait queue  *)
(* from epoll_ctl on, and a file on the ready list is asked again with     *)
(* etx_poll before its events are reported.                                *)

\* epoll_ctl(EPOLL_CTL_ADD)
epoll_ctl_add(a) ==
  /\ apc[a] = "new"
  /\ apc' = [apc EXCEPT ![a] = "register"]
  /\ UNCHANGED <<flags, ghosts, spc, from, mask, waiting>>

epoll_ctl_return(a) ==
  /\ apc[a] = "back"
  /\ from[a] = "ctl"
  /\ woken' = [woken EXCEPT ![a] = @ \/ mask[a] # {}]
  /\ mask' = [mask EXCEPT ![a] = {}]
  /\ apc' = [apc EXCEPT ![a] = "idle"]
  /\ UNCHANGED <<flags, ghosts, spc, from, queued, timed_out>>

\* epoll_wait(epoll_fd, events, MAX_EVENTS, 5000)
epoll_wait(a) ==
  /\ a \in EpollApps
  /\ apc[a] = "idle"
  /\ apc' = [apc EXCEPT ![a] = "sleep"]
  /\ from' = [from EXCEPT ![a] = "wait"]
  /\ UNCHANGED <<flags, ghosts, spc, mask, waiting>>

\* The file is taken off the ready list and asked for its events.
ep_send_events(a) ==
  /\ apc[a] = "sleep"
  /\ from[a] = "wait"
  /\ woken[a]
  /\ woken' = [woken EXCEPT ![a] = FALSE]
  /\ apc' = [apc EXCEPT ![a] = "test_in"]
  /\ UNCHANGED <<flags, ghosts, spc, from, mask, queued, timed_out>>

\* A reported file goes back to the ready list; without events: wait again.
epoll_return(a) ==
  /\ apc[a] = "back"
  /\ from[a] = "wait"
  /\ woken' = [woken EXCEPT ![a] = @ \/ mask[a] # {}]
  /\ apc' = [apc EXCEPT ![a] = IF mask[a] # {} THEN "use_in" ELSE "sleep"]
  /\ UNCHANGED <<flags, ghosts, spc, from, mask, queued, timed_out>>

epoll_timeout(a) ==
  /\ apc[a] = "sleep"
  /\ from[a] = "wait"
  /\ ~woken[a]
  /\ apc' = [apc EXCEPT ![a] = "idle"]
  /\ UNCHANGED <<flags, ghosts, spc, from, mask, waiting>>

-----------------------------------------------------------------------------
(* What both programs do with the events: read first, then write.          *)

\* A program that handles one event only.
use_pollin_only(a) ==
  /\ apc[a] = "use_in"
  /\ unread' = (unread /\ "in" \notin mask[a])
  /\ mask' = [mask EXCEPT ![a] = IF "in" \in @ THEN {} ELSE @]
  /\ apc' = [apc EXCEPT ![a] = "use_out"]
  /\ UNCHANGED <<flags, unused, spc, from, waiting>>

\* etx_read
use_pollin(a) ==
  /\ apc[a] = "use_in"
  /\ unread' = (unread /\ "in" \notin mask[a])
  /\ mask' = [mask EXCEPT ![a] = @ \ {"in"}]
  /\ apc' = [apc EXCEPT ![a] = "use_out"]
  /\ UNCHANGED <<flags, unused, spc, from, waiting>>

\* etx_write
use_pollout(a) ==
  /\ apc[a] = "use_out"
  /\ unused' = (unused /\ "out" \notin mask[a])
  /\ mask' = [mask EXCEPT ![a] = {}]
  /\ apc' = [apc EXCEPT ![a] = "idle"]
  /\ UNCHANGED <<flags, unread, spc, from, waiting>>

-----------------------------------------------------------------------------
SysfsStep(s) == store_flag(s) \/ wake_up(s)

AppStep(a) ==
  \/ etx_poll(a)
  \/ poll_call(a) \/ poll_return(a) \/ poll_sleep(a) \/ poll_wakes(a)
  \/ epoll_ctl_add(a) \/ epoll_ctl_return(a)
  \/ epoll_wait(a) \/ ep_send_events(a) \/ epoll_return(a)
  \/ use_pollin(a) \/ use_pollout(a)

Timeout(a) == poll_timeout(a) \/ epoll_timeout(a)

Next ==
  \/ \E s \in Sysfs : store_copy(s) \/ show_flag(s) \/ SysfsStep(s)
  \/ \E a \in Apps : AppStep(a) \/ Timeout(a)

Spec == Init /\ [][Next]_vars

(***************************************************************************)
(* Processes inside the kernel and the loops of the programs keep running. *)
(* Nobody has to use sysfs, and no timeout has to expire.                  *)
(***************************************************************************)
Fairness ==
  /\ \A s \in Sysfs : WF_vars(SysfsStep(s))
  /\ \A a \in Apps : WF_vars(AppStep(a))

FairSpec == Spec /\ Fairness

-----------------------------------------------------------------------------
(* Properties.                                                             *)

AppSteps == {"new", "idle", "register", "test_in", "clear_in", "test_out",
             "clear_out", "back", "sleep", "use_in", "use_out"}

\* The type of the flags, of the wait queue and of the processes' places.
TypeOK ==
  /\ can_read \in BOOLEAN /\ can_write \in BOOLEAN
  /\ unread \in BOOLEAN /\ unused \in BOOLEAN
  /\ spc \in [Sysfs -> {"idle", "flag_in", "wake"}]
  /\ apc \in [Apps -> AppSteps]
  /\ from \in [Apps -> {"poll", "ctl", "wait"}]
  /\ mask \in [Apps -> SUBSET {"in", "out"}]
  /\ queued \in [Apps -> BOOLEAN]
  /\ woken \in [Apps -> BOOLEAN]
  /\ timed_out \in [Apps -> BOOLEAN]

\* Somebody has set a flag and not yet called wake_up.
WakePending == \E s \in Sysfs : spc[s] = "wake"

(***************************************************************************)
(* No application sleeps through a permission: while a flag is set, an     *)
(* application that sleeps has been woken or wake_up is about to be        *)
(* called.  etx_poll enters the wait queue before it tests the flags, and  *)
(* sysfs_store and sysfs_show set the flag before they wake the queue.     *)
(***************************************************************************)
NoLostWakeup ==
  \A a \in Apps :
    apc[a] = "sleep" /\ (can_read \/ can_write) => woken[a] \/ WakePending

\* A stored text that nobody has read, and a write permission that nobody has
\* used, is announced: the flag is set or about to be, or an application has been
\* told or is about to be.
Announced ==
  /\ unread => \/ can_read
               \/ \E s \in Sysfs : spc[s] = "flag_in"
               \/ \E a \in Apps : "in" \in mask[a] \/ apc[a] = "clear_in"
  /\ unused => \/ can_write
               \/ \E a \in Apps : "out" \in mask[a] \/ apc[a] = "clear_out"

(***************************************************************************)
(* With poll() applications only, every permission stays announced until   *)
(* it is used, although etx_poll tests and clears a flag in two            *)
(* statements, without a lock, while sysfs_store may set it and other      *)
(* applications may clear it.                                              *)
(***************************************************************************)
NoPermissionLost == EpollApps = {} => Announced

\* epoll_ctl throws away the events that etx_poll has just reported to it.
CtlDiscards == \E a \in EpollApps : apc[a] = "back" /\ from[a] = "ctl" /\ apc'[a] = "idle"

(***************************************************************************)
(* With epoll applications a permission can get lost in one way only: in   *)
(* the etx_poll that epoll_ctl calls, which has cleared the flag.          *)
(***************************************************************************)
LostOnlyByCtl == [][Announced /\ ~Announced' => CtlDiscards]_vars

(***************************************************************************)
(* With poll() applications only, one of them reads etx_value after every  *)
(* sysfs_store, and one writes it after every sysfs_show, without the help *)
(* of a timeout.                                                           *)
(***************************************************************************)
PermissionsAreUsed ==
  /\ EpollApps = {} /\ unread ~> ~unread
  /\ EpollApps = {} /\ unused ~> ~unused
=============================================================================
