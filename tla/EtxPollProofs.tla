----------------------------- MODULE EtxPollProofs -----------------------------
(***************************************************************************)
(* No lost wake-up and no lost permission in EtxPoll, for any number of    *)
(* sysfs processes, poll() and epoll applications; a permission is lost    *)
(* only where epoll_ctl discards one.                                      *)
(*                                                                         *)
(* NoLostWakeup speaks of sleeping applications.  To be inductive it must  *)
(* also speak of the applications on their way to sleep: from the test of  *)
(* a flag on, an application that was not told of the permission is awake  *)
(* whenever the flag is set (Tested).  That needs the entry in the wait    *)
(* queue to be there already at the test (InQueue).                        *)
(***************************************************************************)
EXTENDS EtxPoll, TLAPS

Awake(a) == woken[a] \/ WakePending

\* Past poll_wait, and until poll() has removed the entry again.
InQueue(a) ==
  /\ apc[a] \in {"test_in", "clear_in", "test_out", "clear_out", "back", "sleep"} => queued[a]
  /\ a \in EpollApps /\ apc[a] \in {"idle", "use_in", "use_out"} => queued[a]

\* Which program an application runs, and when it has events to report.
Program(a) ==
  /\ apc[a] \in {"test_in", "clear_in", "sleep", "register", "idle", "new"} => mask[a] = {}
  /\ apc[a] = "new" => a \in EpollApps

Tested(a) ==
  /\ apc[a] \in {"test_out", "clear_out", "back", "sleep"} /\ "in" \notin mask[a] /\ can_read
       => Awake(a)
  /\ apc[a] \in {"back", "sleep"} /\ "out" \notin mask[a] /\ can_write
       => Awake(a)
  /\ a \in EpollApps /\ apc[a] \in {"idle", "use_in", "use_out"} /\ (can_read \/ can_write)
       => Awake(a)

AppInv(a) == InQueue(a) /\ Program(a) /\ Tested(a)

\* The inductive invariant.
IInv == TypeOK /\ \A a \in Apps : AppInv(a)

-----------------------------------------------------------------------------
(***************************************************************************)
(* The invariant holds when the module is loaded.                          *)
(***************************************************************************)
LEMMA InitIInv == Init => IInv
<1> SUFFICES ASSUME Init
             PROVE  IInv
  OBVIOUS
<1>1. TypeOK
  BY DEF Init, TypeOK, AppSteps
<1>2. ASSUME NEW a \in Apps
      PROVE  AppInv(a)
  BY DEF Init, AppInv, InQueue, Program, Tested, EpollApps, PollApps
<1> QED
  BY <1>1, <1>2 DEF IInv

(***************************************************************************)
(* Every step keeps the types.                                             *)
(***************************************************************************)
LEMMA SysfsType ==
  ASSUME TypeOK, NEW s \in Sysfs, store_copy(s) \/ show_flag(s) \/ SysfsStep(s)
  PROVE  TypeOK'
BY DEF TypeOK, store_copy, show_flag, SysfsStep, store_flag, wake_up,
       flags, ghosts, waiting

(***************************************************************************)
(* Every step of an application keeps the types.                           *)
(***************************************************************************)
LEMMA AppType ==
  ASSUME TypeOK, NEW a \in Apps, AppStep(a) \/ Timeout(a)
  PROVE  TypeOK'
<1> USE DEF TypeOK, AppSteps, flags, ghosts, waiting
<1>1. CASE etx_poll(a)
  <2>1. CASE poll_wait(a) \/ test_can_read(a) \/ test_can_write(a)
    BY <2>1 DEF poll_wait, test_can_read, test_can_write
  <2>2. CASE clear_can_read(a)
    <3>1. mask' \in [Apps -> SUBSET {"in", "out"}]
      BY <2>2 DEF clear_can_read
    <3> QED
      BY <2>2, <3>1 DEF clear_can_read
  <2>3. CASE clear_can_write(a)
    <3>1. mask' \in [Apps -> SUBSET {"in", "out"}]
      BY <2>3 DEF clear_can_write
    <3> QED
      BY <2>3, <3>1 DEF clear_can_write
  <2> QED
    BY <1>1, <2>1, <2>2, <2>3 DEF etx_poll
<1>2. CASE \/ poll_call(a) \/ poll_return(a) \/ poll_sleep(a) \/ poll_wakes(a)
           \/ poll_timeout(a)
  BY <1>2 DEF poll_call, poll_return, poll_sleep, poll_wakes, poll_timeout
<1>3. CASE \/ epoll_ctl_add(a) \/ epoll_ctl_return(a) \/ epoll_wait(a)
           \/ ep_send_events(a) \/ epoll_return(a) \/ epoll_timeout(a)
  BY <1>3 DEF epoll_ctl_add, epoll_ctl_return, epoll_wait, ep_send_events,
              epoll_return, epoll_timeout
<1>4. CASE use_pollin(a)
  <2>1. unread' \in BOOLEAN
    BY <1>4 DEF use_pollin
  <2>2. mask' \in [Apps -> SUBSET {"in", "out"}]
    BY <1>4 DEF use_pollin
  <2> QED
    BY <1>4, <2>1, <2>2 DEF use_pollin
<1>5. CASE use_pollout(a)
  <2>1. unused' \in BOOLEAN
    BY <1>5 DEF use_pollout
  <2> QED
    BY <1>5, <2>1 DEF use_pollout
<1> QED
  BY <1>1, <1>2, <1>3, <1>4, <1>5 DEF AppStep, Timeout

(***************************************************************************)
(* A flag is set before wake_up is called, and wake_up reaches every       *)
(* application that has tested the flag.                                   *)
(***************************************************************************)
LEMMA SysfsApp ==
  ASSUME IInv, NEW s \in Sysfs, store_copy(s) \/ show_flag(s) \/ SysfsStep(s),
         NEW a \in Apps
  PROVE  AppInv(a)'
<1>1. AppInv(a)
  BY DEF IInv
<1>2. CASE store_copy(s)
  BY <1>1, <1>2 DEF IInv, TypeOK, AppInv, InQueue, Program, Tested, Awake, WakePending,
                    EpollApps, PollApps, store_copy, flags, waiting
<1>3. CASE show_flag(s) \/ store_flag(s)
  <2>1. WakePending'
    BY <1>3 DEF IInv, TypeOK, WakePending, show_flag, store_flag
  <2> QED
    BY <1>1, <1>3, <2>1 DEF AppInv, InQueue, Program, Tested, EpollApps, PollApps, Awake,
                            show_flag, store_flag, waiting
<1>4. CASE wake_up(s)
  <2>1. queued[a] => woken'[a]
    BY <1>4 DEF wake_up
  <2> QED
    BY <1>1, <1>4, <2>1 DEF AppInv, InQueue, Program, Tested, Awake, EpollApps,
                            PollApps, wake_up, flags
<1> QED
  BY <1>2, <1>3, <1>4 DEF SysfsStep

(***************************************************************************)
(* A step of one application can only clear flags, which asks less of the  *)
(* others.                                                                 *)
(***************************************************************************)
LEMMA OtherApp ==
  ASSUME IInv, NEW b \in Apps, AppStep(b) \/ Timeout(b), NEW a \in Apps, a # b
  PROVE  AppInv(a)'
<1>1. /\ spc' = spc /\ (can_read' => can_read) /\ (can_write' => can_write)
      /\ apc'[a] = apc[a] /\ from'[a] = from[a] /\ mask'[a] = mask[a]
      /\ queued'[a] = queued[a] /\ woken'[a] = woken[a]
  <2>1. CASE etx_poll(b)
    BY <2>1 DEF IInv, TypeOK, etx_poll, poll_wait, test_can_read, clear_can_read,
                test_can_write, clear_can_write, flags, ghosts, waiting
  <2>2. CASE \/ poll_call(b) \/ poll_return(b) \/ poll_sleep(b) \/ poll_wakes(b)
             \/ poll_timeout(b)
    BY <2>2 DEF IInv, TypeOK, poll_call, poll_return, poll_sleep, poll_wakes,
                poll_timeout, flags, ghosts, waiting
  <2>3. CASE \/ epoll_ctl_add(b) \/ epoll_ctl_return(b) \/ epoll_wait(b)
             \/ ep_send_events(b) \/ epoll_return(b) \/ epoll_timeout(b)
    BY <2>3 DEF IInv, TypeOK, epoll_ctl_add, epoll_ctl_return, epoll_wait,
                ep_send_events, epoll_return, epoll_timeout, flags, ghosts, waiting
  <2>4. CASE use_pollin(b) \/ use_pollout(b)
    BY <2>4 DEF IInv, TypeOK, use_pollin, use_pollout, flags, ghosts, waiting
  <2> QED
    BY <2>1, <2>2, <2>3, <2>4 DEF AppStep, Timeout
<1>2. AppInv(a)
  BY DEF IInv
<1> QED
  BY <1>1, <1>2 DEF AppInv, InQueue, Program, Tested, EpollApps, PollApps, Awake, WakePending

(***************************************************************************)
(* The application's own steps.                                            *)
(***************************************************************************)
LEMMA OwnApp ==
  ASSUME IInv, NEW a \in Apps, AppStep(a) \/ Timeout(a)
  PROVE  AppInv(a)'
<1> USE DEF IInv, TypeOK, AppInv, InQueue, Program, Tested, Awake, WakePending,
            EpollApps, PollApps, flags, ghosts, waiting
<1>1. CASE poll_wait(a)
  BY <1>1 DEF poll_wait
<1>2. CASE test_can_read(a)
  BY <1>2 DEF test_can_read
<1>3. CASE clear_can_read(a)
  BY <1>3 DEF clear_can_read
<1>4. CASE test_can_write(a)
  BY <1>4 DEF test_can_write
<1>5. CASE clear_can_write(a)
  BY <1>5 DEF clear_can_write
<1>6. CASE poll_call(a)
  BY <1>6 DEF poll_call
<1>7. CASE poll_return(a)
  BY <1>7 DEF poll_return
<1>8. CASE poll_sleep(a)
  BY <1>8 DEF poll_sleep
<1>9. CASE poll_wakes(a) \/ poll_timeout(a)
  BY <1>9 DEF poll_wakes, poll_timeout
<1>10. CASE epoll_ctl_add(a)
  BY <1>10 DEF epoll_ctl_add
<1>11. CASE epoll_ctl_return(a)
  BY <1>11 DEF epoll_ctl_return
<1>12. CASE epoll_wait(a)
  BY <1>12 DEF epoll_wait
<1>13. CASE ep_send_events(a) \/ epoll_timeout(a)
  BY <1>13 DEF ep_send_events, epoll_timeout
<1>14. CASE epoll_return(a)
  BY <1>14 DEF epoll_return
<1>15. CASE use_pollin(a) \/ use_pollout(a)
  BY <1>15 DEF use_pollin, use_pollout
<1> QED
  BY <1>1, <1>2, <1>3, <1>4, <1>5, <1>6, <1>7, <1>8, <1>9, <1>10, <1>11, <1>12,
     <1>13, <1>14, <1>15 DEF AppStep, Timeout, etx_poll

(***************************************************************************)
(* Every step of every process keeps the invariant.                        *)
(***************************************************************************)
LEMMA NextIInv == IInv /\ [Next]_vars => IInv'
<1> SUFFICES ASSUME IInv, [Next]_vars
             PROVE  IInv'
  OBVIOUS
<1>1. CASE UNCHANGED vars
  BY <1>1 DEF IInv, TypeOK, AppInv, InQueue, Program, Tested, Awake, WakePending,
              EpollApps, PollApps, vars, flags, ghosts, waiting
<1>2. ASSUME NEW s \in Sysfs, store_copy(s) \/ show_flag(s) \/ SysfsStep(s)
      PROVE  IInv'
  BY <1>2, SysfsType, SysfsApp DEF IInv
<1>3. ASSUME NEW b \in Apps, AppStep(b) \/ Timeout(b)
      PROVE  IInv'
  <2>1. TypeOK'
    BY <1>3, AppType DEF IInv
  <2>2. ASSUME NEW a \in Apps
        PROVE  AppInv(a)'
    BY <1>3, OwnApp, OtherApp
  <2> QED
    BY <2>1, <2>2 DEF IInv
<1> QED
  BY <1>1, <1>2, <1>3 DEF Next

(***************************************************************************)
(* The inductive invariant holds in every reachable state.                 *)
(***************************************************************************)
THEOREM Invariance == Spec => []IInv
BY InitIInv, NextIInv, PTL DEF Spec

(***************************************************************************)
(* An application that sleeps while a flag is set has been woken or is     *)
(* about to be, however many applications and sysfs processes there are.   *)
(***************************************************************************)
THEOREM NoLostWakeupCorrect == Spec => []NoLostWakeup
<1>1. IInv => NoLostWakeup
  BY DEF IInv, TypeOK, AppInv, Program, Tested, Awake, NoLostWakeup
<1> QED
  BY <1>1, Invariance, PTL

(***************************************************************************)
(* Types: the driver's flags, the wait queue and the processes' places.    *)
(***************************************************************************)
THEOREM TypesCorrect == Spec => []TypeOK
<1>1. IInv => TypeOK
  BY DEF IInv
<1> QED
  BY <1>1, Invariance, PTL
-----------------------------------------------------------------------------
(* No permission is lost except by epoll_ctl.                              *)

\* An application that has read has no text left to read.
UseInv == \A a \in Apps : apc[a] = "use_out" => "in" \notin mask[a]

(***************************************************************************)
(* Only use_pollin leads to use_out, and it removes the event.             *)
(***************************************************************************)
LEMMA NextUseInv == IInv /\ UseInv /\ [Next]_vars => UseInv'
<1> SUFFICES ASSUME IInv, UseInv, [Next]_vars
             PROVE  UseInv'
  OBVIOUS
<1> USE DEF IInv, TypeOK, UseInv
<1>1. CASE UNCHANGED vars
  BY <1>1 DEF vars
<1>2. ASSUME NEW s \in Sysfs, store_copy(s) \/ show_flag(s) \/ SysfsStep(s)
      PROVE  UseInv'
  BY <1>2 DEF store_copy, show_flag, SysfsStep, store_flag, wake_up
<1>3. ASSUME NEW a \in Apps, AppStep(a) \/ Timeout(a)
      PROVE  UseInv'
  <2>1. \A b \in Apps \ {a} : apc'[b] = apc[b] /\ mask'[b] = mask[b]
    BY <1>3 DEF AppStep, Timeout, etx_poll, poll_wait, test_can_read, clear_can_read,
       test_can_write, clear_can_write, poll_call, poll_return, poll_sleep, poll_wakes,
       poll_timeout, epoll_ctl_add, epoll_ctl_return, epoll_wait, ep_send_events,
       epoll_return, epoll_timeout, use_pollin, use_pollout
  <2>2. apc'[a] = "use_out" => "in" \notin mask'[a]
    BY <1>3 DEF AppStep, Timeout, etx_poll, poll_wait, test_can_read, clear_can_read,
       test_can_write, clear_can_write, poll_call, poll_return, poll_sleep, poll_wakes,
       poll_timeout, epoll_ctl_add, epoll_ctl_return, epoll_wait, ep_send_events,
       epoll_return, epoll_timeout, use_pollin, use_pollout
  <2> QED
    BY <2>1, <2>2
<1> QED
  BY <1>1, <1>2, <1>3 DEF Next

(***************************************************************************)
(* sysfs_store and sysfs_show announce what they give.                     *)
(***************************************************************************)
LEMMA SysfsPerm ==
  ASSUME IInv, Announced, NEW s \in Sysfs,
         store_copy(s) \/ show_flag(s) \/ SysfsStep(s)
  PROVE  Announced'
<1> USE DEF IInv, TypeOK, Announced, flags, ghosts, waiting
<1>1. CASE store_copy(s)
  BY <1>1 DEF store_copy
<1>2. CASE show_flag(s)
  BY <1>2 DEF show_flag
<1>3. CASE store_flag(s)
  BY <1>3 DEF store_flag
<1>4. CASE wake_up(s)
  BY <1>4 DEF wake_up
<1> QED
  BY <1>1, <1>2, <1>3, <1>4 DEF SysfsStep

(***************************************************************************)
(* An application that takes a permission back from the driver has been    *)
(* told of it, or is about to be, until it has used it; the end of         *)
(* epoll_ctl is the exception.                                             *)
(***************************************************************************)
LEMMA AppPerm ==
  ASSUME IInv, UseInv, Announced, ~CtlDiscards,
         NEW a \in Apps, AppStep(a) \/ Timeout(a)
  PROVE  Announced'
<1>1. apc[a] \in {"new", "test_in", "clear_in", "sleep", "register", "idle"} => mask[a] = {}
  BY DEF IInv, AppInv, Program
<1>2. apc[a] = "use_out" => "in" \notin mask[a]
  BY DEF UseInv
<1>3. ~epoll_ctl_return(a)
  BY DEF CtlDiscards, epoll_ctl_return, IInv, TypeOK, EpollApps, PollApps
<1> USE DEF IInv, TypeOK, Announced, flags, ghosts, waiting
<1>4. CASE poll_wait(a) \/ poll_call(a) \/ epoll_ctl_add(a) \/ epoll_wait(a)
  BY <1>4 DEF poll_wait, poll_call, epoll_ctl_add, epoll_wait
<1>5. CASE test_can_read(a)
  BY <1>5 DEF test_can_read
<1>6. CASE clear_can_read(a)
  BY <1>6 DEF clear_can_read
<1>7. CASE test_can_write(a)
  BY <1>7 DEF test_can_write
<1>8. CASE clear_can_write(a)
  BY <1>8 DEF clear_can_write
<1>9. CASE poll_return(a) \/ poll_sleep(a) \/ epoll_return(a)
  BY <1>9 DEF poll_return, poll_sleep, epoll_return
<1>10. CASE poll_wakes(a) \/ poll_timeout(a) \/ ep_send_events(a) \/ epoll_timeout(a)
  BY <1>10 DEF poll_wakes, poll_timeout, ep_send_events, epoll_timeout
<1>11. CASE use_pollin(a)
  BY <1>11 DEF use_pollin
<1>12. CASE use_pollout(a)
  BY <1>2, <1>12 DEF use_pollout
<1> QED
  BY <1>3, <1>4, <1>5, <1>6, <1>7, <1>8, <1>9, <1>10, <1>11, <1>12
     DEF AppStep, Timeout, etx_poll

(***************************************************************************)
(* A step that is not the end of an epoll_ctl loses no permission.         *)
(***************************************************************************)
LEMMA NextPerm ==
  IInv /\ UseInv /\ [Next]_vars /\ Announced /\ ~CtlDiscards => Announced'
<1> SUFFICES ASSUME IInv, UseInv, [Next]_vars, Announced, ~CtlDiscards
             PROVE  Announced'
  OBVIOUS
<1>1. CASE UNCHANGED vars
  BY <1>1 DEF Announced, vars, flags, ghosts
<1> QED
  BY <1>1, SysfsPerm, AppPerm DEF Next

(***************************************************************************)
(* An application stays with its program.                                  *)
(***************************************************************************)
LEMMA SamePrograms ==
  ASSUME IInv, [Next]_vars
  PROVE  EpollApps' = EpollApps
<1> USE DEF IInv, TypeOK, EpollApps, PollApps
<1>1. CASE UNCHANGED vars
  BY <1>1 DEF vars
<1>2. ASSUME NEW s \in Sysfs, store_copy(s) \/ show_flag(s) \/ SysfsStep(s)
      PROVE  EpollApps' = EpollApps
  BY <1>2 DEF store_copy, show_flag, SysfsStep, store_flag, wake_up
<1>3. ASSUME NEW a \in Apps, AppStep(a) \/ Timeout(a)
      PROVE  EpollApps' = EpollApps
  <2>1. from' = from \/ epoll_wait(a)
    BY <1>3 DEF AppStep, Timeout, etx_poll, poll_wait, test_can_read, clear_can_read,
       test_can_write, clear_can_write, poll_call, poll_return, poll_sleep, poll_wakes,
       poll_timeout, epoll_ctl_add, epoll_ctl_return, ep_send_events, epoll_return,
       epoll_timeout, use_pollin, use_pollout
  <2> QED
    BY <2>1 DEF epoll_wait
<1> QED
  BY <1>1, <1>2, <1>3 DEF Next

(***************************************************************************)
(* With poll() applications only, no stored text and no permission to      *)
(* write is forgotten before an application has used it.                   *)
(***************************************************************************)
THEOREM NoPermissionLostCorrect == Spec => []NoPermissionLost
<1>1. Init => UseInv /\ NoPermissionLost
  BY DEF Init, UseInv, NoPermissionLost, Announced
<1>2. ASSUME IInv, UseInv, NoPermissionLost, [Next]_vars
      PROVE  NoPermissionLost'
  <2> SUFFICES ASSUME EpollApps' = {}
               PROVE  Announced'
    BY DEF NoPermissionLost
  <2>1. EpollApps = {}
    BY <1>2, SamePrograms
  <2>2. Announced /\ ~CtlDiscards
    BY <1>2, <2>1 DEF NoPermissionLost, CtlDiscards
  <2> QED
    BY <1>2, <2>2, NextPerm
<1> QED
  BY <1>1, <1>2, NextUseInv, Invariance, PTL DEF Spec

(***************************************************************************)
(* With any mixture of applications, the only step that forgets a text or  *)
(* a permission is the end of an epoll_ctl, which drops what etx_poll has  *)
(* reported to it.                                                         *)
(***************************************************************************)
THEOREM LostCorrect == Spec => LostOnlyByCtl
<1>1. Init => UseInv
  BY DEF Init, UseInv
<1>2. IInv /\ UseInv /\ [Next]_vars => [Announced /\ ~Announced' => CtlDiscards]_vars
  BY NextPerm
<1> QED
  BY <1>1, <1>2, NextUseInv, Invariance, PTL DEF Spec, LostOnlyByCtl
=============================================================================
