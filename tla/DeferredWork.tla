------------------------------ MODULE DeferredWork ------------------------------
(***************************************************************************)
(* The examples 03 to 10 and 16: a module whose init function starts       *)
(* something that runs later - a work item, a timer, a high-resolution     *)
(* timer or a tasklet - and whose exit function may or may not stop it.    *)
(* In 16 these are the probe and remove functions, which also run while    *)
(* the module stays loaded.                                                *)
(*                                                                         *)
(* Two activities: "main", the process that loads and removes the module   *)
(* (its init and exit functions), and "handler", the deferred function.    *)
(* A definition per function lists its statements in order; each kind of   *)
(* statement is an action.  A function that only prints has no statement.  *)
(* kmalloc, locks, wait queues, work queues and timers are external.       *)
(***************************************************************************)
EXTENDS Integers, Sequences

CONSTANTS
  Programs,    \* the examples to consider
  LEN          \* length of the names, with the final '\0'

AllPrograms == {"wait_queue", "std_timer", "hr_timer", "mutex", "spinlock",
                "tasklet", "shared_wq", "dedicated_wq", "gpio_interrupt"}

ASSUME DeferredAssumption ==
  /\ Programs \subseteq AllPrograms
  /\ LEN \in Nat \ {0, 1}

-----------------------------------------------------------------------------
(* The functions.  "queue" starts the deferred function: schedule_work,    *)
(* queue_work, mod_timer, hrtimer_start or tasklet_schedule.               *)

wait_queue_prog_init == <<"queue", "prepare", "test">>

\* A handler that wakes the module before it sets the condition.
wait_queue_handler_reversed == <<"wake_up", "set_condition">>

wait_queue_handler == <<"set_condition", "wake_up">>

wait_queue_prog_exit == << >>

std_timer_prog_init == <<"queue">>
std_timer_callback  == << >>
std_timer_prog_exit == <<"del_timer">>

hr_timer_prog_init       == <<"queue">>
hrtimer_restart_callback == << >>

\* hrtimer_try_to_cancel, which does not wait for the callback.
hr_timer_prog_exit_try   == <<"del_timer">>

hr_timer_prog_exit       == <<"hrtimer_cancel">>

mutex_prog_init    == <<"queue", "lock", "fill", "unlock">>
mutex_work_handler == <<"lock", "fill", "unlock">>
mutex_prog_exit    == << >>

spinlock_prog_init    == <<"queue", "lock", "fill", "unlock">>
spinlock_work_handler == <<"lock", "fill", "unlock">>
spinlock_prog_exit    == << >>

tasklet_prog_init == <<"queue">>
tasklet_handler   == << >>
tasklet_prog_exit == <<"tasklet_kill">>

shared_wq_init    == <<"wrk_data", "attr", "fill", "queue">>

\* A work handler that does not free its structure.
shared_wq_handler_leaky == << >>

shared_wq_handler == <<"kfree">>
shared_wq_exit    == << >>

dedicated_workqueue_init == <<"wrkqueue", "wrk_data", "attr", "fill", "queue">>
dedicated_handler        == <<"kfree">>
dedicated_workqueue_exit == <<"flush_workqueue", "destroy_workqueue">>

\* A probe function that starts the timer before it has the interrupt.
gpio_interrupt_prog_probe_early == <<"pinctrl", "gpio", "queue", "irq">>

gpio_interrupt_prog_probe  == <<"pinctrl", "gpio", "irq", "queue">>
gpio_timer_callback        == <<"gpiod_get_value", "mod_timer">>
gpio_interrupt_prog_remove == <<"del_timer", "free_irq", "gpiod_put">>

InitOf ==
  [wait_queue |-> wait_queue_prog_init, std_timer |-> std_timer_prog_init,
   hr_timer |-> hr_timer_prog_init, mutex |-> mutex_prog_init,
   spinlock |-> spinlock_prog_init, tasklet |-> tasklet_prog_init,
   shared_wq |-> shared_wq_init, dedicated_wq |-> dedicated_workqueue_init,
   gpio_interrupt |-> gpio_interrupt_prog_probe]

HandlerOf ==
  [wait_queue |-> wait_queue_handler, std_timer |-> std_timer_callback,
   hr_timer |-> hrtimer_restart_callback, mutex |-> mutex_work_handler,
   spinlock |-> spinlock_work_handler, tasklet |-> tasklet_handler,
   shared_wq |-> shared_wq_handler, dedicated_wq |-> dedicated_handler,
   gpio_interrupt |-> gpio_timer_callback]

ExitOf ==
  [wait_queue |-> wait_queue_prog_exit, std_timer |-> std_timer_prog_exit,
   hr_timer |-> hr_timer_prog_exit, mutex |-> mutex_prog_exit,
   spinlock |-> spinlock_prog_exit, tasklet |-> tasklet_prog_exit,
   shared_wq |-> shared_wq_exit, dedicated_wq |-> dedicated_workqueue_exit,
   gpio_interrupt |-> gpio_interrupt_prog_remove]

-----------------------------------------------------------------------------
VARIABLES
  prog,         \* the example
  mod,          \* "out", "loading", "loaded", "unbinding", "unloading" or "oops"
  todo,         \* the statements main and handler have still to execute
  h,            \* the deferred function: "none", "queued", "running" or, if it
                \* is queued again while it runs, "rearmed"
  old,          \* one of an earlier load is still queued or running
  escaped,      \* it was running when del_timer was called
  lock,         \* who holds data_mutex or data_spinlock
  data,         \* who has written each character of data
  i,            \* the loop counters
  condition,
  sleeper,      \* the init function on my_wq: "no", "awake" or "asleep"
  interrupted,  \* a signal has ended the wait of this load
  heap          \* what this load has allocated and not freed

vars == <<prog, mod, todo, h, old, escaped, lock, data, i, condition, sleeper, interrupted,
          heap>>

lockVars == <<lock, data, i>>
waitVars == <<condition, sleeper, interrupted>>

Actors == {"main", "handler"}

Unwritten == [k \in 0 .. LEN - 1 |-> "ROSHAN"]

Init ==
  /\ prog \in Programs
  /\ mod = "out" /\ h = "none" /\ old = FALSE /\ escaped = FALSE
  /\ todo = [a \in Actors |-> << >>]
  /\ lock = "free" /\ data = Unwritten
  /\ i = [a \in Actors |-> 0]
  /\ condition = FALSE /\ sleeper = "no" /\ interrupted = FALSE
  /\ heap = {}

Running(a) == IF a = "main" THEN mod \in {"loading", "unbinding", "unloading"}
                            ELSE h \in {"running", "rearmed"} /\ mod \notin {"out", "oops"}

\* The next statement of a is s.
At(a, s) == Running(a) /\ todo[a] # << >> /\ Head(todo[a]) = s

Done(a) == todo' = [todo EXCEPT ![a] = Tail(@)]

-----------------------------------------------------------------------------
(* Loading and removing.  A load finds fresh data, and leaves alone a      *)
(* deferred function that was not stopped before.                          *)

load ==
  /\ mod = "out"
  /\ mod' = "loading"
  /\ h' = "none" /\ old' = (old \/ h # "none")
  /\ todo' = [todo EXCEPT !["main"] = InitOf[prog], !["handler"] = << >>]
  /\ lock' = "free" /\ data' = Unwritten
  /\ i' = [a \in Actors |-> 0]
  /\ condition' = FALSE /\ sleeper' = "no" /\ interrupted' = FALSE
  /\ heap' = {} /\ escaped' = FALSE
  /\ UNCHANGED prog

init_return ==
  /\ mod \in {"loading", "unbinding"}
  /\ todo["main"] = << >>
  /\ mod' = "loaded"
  /\ UNCHANGED <<prog, old, escaped, todo, h, lockVars, waitVars, heap>>

\* In 16 probe may have failed, or there was no device.
Bound == prog = "gpio_interrupt" => "irq" \in heap

start_exit ==
  /\ mod = "loaded"
  /\ mod' = "unloading"
  /\ todo' = [todo EXCEPT !["main"] = IF Bound THEN ExitOf[prog] ELSE << >>]
  /\ UNCHANGED <<prog, old, escaped, h, lockVars, waitVars, heap>>

\* The device of 16 is unbound from its driver and bound to it again.
start_remove ==
  /\ mod = "loaded" /\ prog = "gpio_interrupt" /\ Bound
  /\ mod' = "unbinding"
  /\ todo' = [todo EXCEPT !["main"] = ExitOf[prog]]
  /\ UNCHANGED <<prog, old, escaped, h, lockVars, waitVars, heap>>

start_probe ==
  /\ mod = "loaded" /\ ~Bound
  /\ mod' = "loading"
  /\ todo' = [todo EXCEPT !["main"] = InitOf[prog]]
  /\ UNCHANGED <<prog, old, escaped, h, lockVars, waitVars, heap>>

\* The kernel frees the module's code and data.
exit_return ==
  /\ mod = "unloading"
  /\ todo["main"] = << >>
  /\ mod' = "out"
  /\ UNCHANGED <<prog, old, escaped, todo, h, lockVars, waitVars, heap>>

-----------------------------------------------------------------------------
(* The deferred function.                                                  *)

\* queue_work on the NULL of a failed create_singlethread_workqueue faults;
\* timer_setup of a timer that is still pending from an earlier binding may.
queue ==
  /\ At("main", "queue")
  /\ \/ /\ prog = "dedicated_wq" => "wrkqueue" \in heap
        /\ h' = IF h \in {"running", "rearmed"} THEN "rearmed" ELSE "queued"
        /\ Done("main")
        /\ mod' = mod
     \/ /\ \/ prog = "dedicated_wq" /\ "wrkqueue" \notin heap
           \/ h \in {"queued", "rearmed"}
        /\ mod' = "oops"
        /\ UNCHANGED <<h, todo>>
  /\ UNCHANGED <<prog, old, escaped, lockVars, waitVars, heap>>

\* A worker, the timer interrupt or the softirq calls it.
run ==
  /\ h = "queued"
  /\ mod \notin {"out", "oops"}
  /\ h' = "running"
  /\ todo' = [todo EXCEPT !["handler"] = HandlerOf[prog]]
  /\ UNCHANGED <<prog, old, escaped, mod, lockVars, waitVars, heap>>

handler_return ==
  /\ Running("handler")
  /\ todo["handler"] = << >>
  /\ h' = IF h = "rearmed" THEN "queued" ELSE "none"
  /\ UNCHANGED <<prog, old, escaped, mod, todo, lockVars, waitVars, heap>>

\* The code and the data of the handler are gone: it faults, or comes through
\* because the pages are still mapped; the callback of 16 then starts over.
stray ==
  /\ mod = "out" /\ h # "none"
  /\ \/ mod' = "oops" /\ UNCHANGED <<h, todo, heap>>
     \/ /\ mod' = mod /\ h' = IF prog = "gpio_interrupt" THEN "queued" ELSE "none"
        /\ todo' = [todo EXCEPT !["handler"] = << >>]
        /\ heap' = heap \ {"wrk_data"}
  /\ UNCHANGED <<prog, old, escaped, lockVars, waitVars>>

\* The same of an earlier load, whatever this one is doing.
old_stray ==
  /\ old /\ mod # "oops"
  /\ \/ mod' = "oops" /\ old' = old
     \/ mod' = mod /\ old' = (prog = "gpio_interrupt")
  /\ UNCHANGED <<prog, escaped, todo, h, lockVars, waitVars, heap>>

-----------------------------------------------------------------------------
(* The exit functions.                                                     *)

\* A timer that is pending is cancelled, one that is running is not waited for.
del_timer ==
  /\ At("main", "del_timer")
  /\ h' = IF h \in {"running", "rearmed"} THEN "running" ELSE "none"
  /\ escaped' = (h \in {"running", "rearmed"})
  /\ Done("main")
  /\ UNCHANGED <<prog, old, mod, lockVars, waitVars, heap>>

hrtimer_cancel ==
  /\ At("main", "hrtimer_cancel")
  /\ h # "running"
  /\ h' = "none"
  /\ Done("main")
  /\ UNCHANGED <<prog, old, escaped, mod, lockVars, waitVars, heap>>

\* These wait until what is queued has run.
wait_until_idle ==
  /\ \E s \in {"tasklet_kill", "flush_workqueue", "destroy_workqueue"} : At("main", s)
  /\ h = "none"
  /\ Done("main")
  /\ heap' = IF At("main", "destroy_workqueue") THEN heap \ {"wrkqueue"} ELSE heap
  /\ UNCHANGED <<prog, old, escaped, mod, h, lockVars, waitVars>>

-----------------------------------------------------------------------------
(* The lock and the loop of 06 and 07, and the loop that fills attr.       *)

\* mutex_lock_interruptible with its result ignored.
lock_data_ignored(a) ==
  /\ At(a, "lock")
  /\ lock' = a
  /\ Done(a)
  /\ UNCHANGED <<prog, old, escaped, mod, h, data, i, waitVars, heap>>

lock_data(a) ==
  /\ At(a, "lock")
  /\ lock = "free"
  /\ lock' = a
  /\ Done(a)
  /\ UNCHANGED <<prog, old, escaped, mod, h, data, i, waitVars, heap>>

\* A signal ends the init function's wait for the mutex: -ERESTARTSYS, and the
\* module is not loaded.  A worker ignores signals.
lock_interrupted ==
  /\ At("main", "lock")
  /\ prog = "mutex" /\ lock = "handler"
  /\ mod' = "out"
  /\ todo' = [todo EXCEPT !["main"] = << >>]
  /\ UNCHANGED <<prog, old, escaped, h, lockVars, waitVars, heap>>

\* A loop up to LEN instead of LEN-1, and the '\0' after it.
FillEndLate == LEN + 1

\* LEN-1 characters and the '\0'.
FillEnd == LEN

fill(a) ==
  /\ At(a, "fill")
  /\ data' = IF prog \in {"mutex", "spinlock"}
             THEN [data EXCEPT ![i[a]] = IF i[a] = LEN - 1 THEN "ROSHAN" ELSE a]
             ELSE data
  /\ i' = [i EXCEPT ![a] = @ + 1]
  /\ IF i[a] + 1 = FillEnd THEN Done(a) ELSE todo' = todo
  /\ UNCHANGED <<prog, old, escaped, mod, h, lock, waitVars, heap>>

unlock(a) ==
  /\ At(a, "unlock")
  /\ lock' = "free"
  /\ Done(a)
  /\ UNCHANGED <<prog, old, escaped, mod, h, data, i, waitVars, heap>>

-----------------------------------------------------------------------------
(* wait_event_interruptible of 03: the init function enters the queue,     *)
(* tests the condition and sleeps if it does not hold.                     *)

prepare ==
  /\ At("main", "prepare")
  /\ sleeper' = "awake"
  /\ Done("main")
  /\ UNCHANGED <<prog, old, escaped, mod, h, lockVars, condition, interrupted, heap>>

test ==
  /\ At("main", "test")
  /\ sleeper = "awake"
  /\ \/ condition /\ sleeper' = "no" /\ Done("main")
     \/ ~condition /\ sleeper' = "asleep" /\ todo' = todo
  /\ UNCHANGED <<prog, old, escaped, mod, h, lockVars, condition, interrupted, heap>>

\* The result of wait_event_interruptible is ignored.
wait_interrupted ==
  /\ At("main", "test")
  /\ sleeper' = "no"
  /\ interrupted' = ~condition
  /\ Done("main")
  /\ UNCHANGED <<prog, old, escaped, mod, h, lockVars, condition, heap>>

set_condition ==
  /\ At("handler", "set_condition")
  /\ condition' = TRUE
  /\ Done("handler")
  /\ UNCHANGED <<prog, old, escaped, mod, h, lockVars, sleeper, interrupted, heap>>

wake_up ==
  /\ At("handler", "wake_up")
  /\ sleeper' = IF sleeper = "asleep" THEN "awake" ELSE sleeper
  /\ Done("handler")
  /\ UNCHANGED <<prog, old, escaped, mod, h, lockVars, condition, interrupted, heap>>

-----------------------------------------------------------------------------
(* The memory of 09 and 10: what is allocated, not how much.  No result of *)
(* kmalloc is tested: the statement after it faults.                       *)

alloc(s) ==
  /\ At("main", s)
  /\ heap' = heap \cup {s}
  /\ Done("main")
  /\ UNCHANGED <<prog, old, escaped, mod, h, lockVars, waitVars>>

alloc_failed(s) ==
  /\ At("main", s)
  /\ \/ s = "wrkqueue" /\ Done("main") /\ mod' = mod
     \/ s # "wrkqueue" /\ mod' = "oops" /\ todo' = todo
  /\ UNCHANGED <<prog, old, escaped, h, lockVars, waitVars, heap>>

kfree ==
  /\ At("handler", "kfree")
  /\ heap' = heap \ {"wrk_data"}
  /\ Done("handler")
  /\ UNCHANGED <<prog, old, escaped, mod, h, lockVars, waitVars>>

-----------------------------------------------------------------------------
(* The GPIO and the interrupt of 16.  Its interrupt handler only prints.   *)

\* A failure of "pinctrl" also stands for a board without the device.
gpio_probe(s) ==
  /\ At("main", s)
  /\ \/ heap' = heap \cup ({s} \ {"pinctrl"}) /\ Done("main")
     \/ heap' = heap \ {"gpio"} /\ todo' = [todo EXCEPT !["main"] = << >>]
  /\ UNCHANGED <<prog, old, escaped, mod, h, lockVars, waitVars>>

gpio_remove(s) ==
  /\ At("main", s)
  /\ heap' = heap \ (IF s = "free_irq" THEN {"irq"} ELSE {"gpio"})
  /\ Done("main")
  /\ UNCHANGED <<prog, old, escaped, mod, h, lockVars, waitVars>>

gpiod_get_value ==
  /\ At("handler", "gpiod_get_value")
  /\ Done("handler")
  /\ UNCHANGED <<prog, old, escaped, mod, h, lockVars, waitVars, heap>>

mod_timer ==
  /\ At("handler", "mod_timer")
  /\ h' = "rearmed"
  /\ Done("handler")
  /\ UNCHANGED <<prog, old, escaped, mod, lockVars, waitVars, heap>>

-----------------------------------------------------------------------------
Allocations == {"wrkqueue", "wrk_data", "attr"}

Main ==
  \/ init_return \/ exit_return \/ queue \/ del_timer \/ hrtimer_cancel \/ wait_until_idle
  \/ prepare \/ test \/ lock_data("main") \/ fill("main") \/ unlock("main")
  \/ \E s \in Allocations : alloc(s) \/ alloc_failed(s)
  \/ \E s \in {"pinctrl", "gpio", "irq"} : gpio_probe(s)
  \/ \E s \in {"free_irq", "gpiod_put"} : gpio_remove(s)

Handler ==
  \/ run \/ handler_return \/ set_condition \/ wake_up \/ kfree
  \/ gpiod_get_value \/ mod_timer
  \/ lock_data("handler") \/ fill("handler") \/ unlock("handler")

Next ==
  \/ load \/ start_exit \/ start_probe \/ start_remove \/ Main \/ Handler
  \/ lock_interrupted \/ wait_interrupted \/ stray \/ old_stray

Spec == Init /\ [][Next]_vars

(***************************************************************************)
(* The process inside the kernel, the worker, and the timer keep going.    *)
(* Nobody has to load or remove a module or send a signal.                 *)
(***************************************************************************)
FairSpec == Spec /\ WF_vars(Main) /\ WF_vars(Handler)

-----------------------------------------------------------------------------
(* Properties.                                                             *)

\* The type of the state.  The loops never count beyond LEN, which is the size of
\* data in 06 and 07; the attr of 09 and 10 has only sizeof(LEN) bytes.
TypeOK ==
  /\ prog \in Programs
  /\ mod \in {"out", "loading", "loaded", "unbinding", "unloading", "oops"}
  /\ h \in {"none", "queued", "running", "rearmed"}
  /\ old \in BOOLEAN /\ escaped \in BOOLEAN
  /\ lock \in Actors \cup {"free"}
  /\ data \in [0 .. LEN - 1 -> {"ROSHAN"} \cup Actors]
  /\ i \in [Actors -> 0 .. LEN]
  /\ condition \in BOOLEAN /\ interrupted \in BOOLEAN
  /\ sleeper \in {"no", "awake", "asleep"}
  /\ heap \subseteq Allocations \cup {"gpio", "irq"}

(***************************************************************************)
(* Outside the critical sections of 06 and 07, data holds one whole name:  *)
(* the characters the init function and the work handler store one by one  *)
(* never mix.                                                              *)
(***************************************************************************)
DataWhole == lock = "free" => \A j, k \in 0 .. LEN - 2 : data[j] = data[k]

(***************************************************************************)
(* When may a module be gone while its deferred function is still queued   *)
(* or running?  Never with hrtimer_cancel, tasklet_kill or                 *)
(* flush_workqueue.  With del_timer (04, 16) only if the callback had      *)
(* already started; that of 16 may be pending again.  In 03 only if a      *)
(* signal ended the wait or the handler had set the condition and not yet  *)
(* returned.  In 06, 07 and 09 nothing prevents it.                        *)
(***************************************************************************)
OnlyKnownStrays ==
  mod = "out" /\ h # "none" =>
    \/ prog \in {"mutex", "spinlock", "shared_wq"}
    \/ prog = "std_timer" /\ h = "running"
    \/ prog = "gpio_interrupt" /\ escaped
    \/ prog = "wait_queue" /\ (interrupted \/ (condition /\ h = "running"))

(***************************************************************************)
(* The callback of 16 reads a GPIO that has been put, and probe sets up a  *)
(* timer that is in use, only if a callback was running when remove called *)
(* del_timer; no other failure or order of steps leads there.              *)
(***************************************************************************)
StaleTimerOnlyEscaped ==
  prog = "gpio_interrupt" =>
    /\ h \in {"running", "rearmed"} /\ "gpio" \notin heap => escaped
    /\ At("main", "queue") /\ h # "none" => escaped

(***************************************************************************)
(* After a load and removal of 09, 10 or 16, however probe failed, once    *)
(* the work has run, nothing is left allocated but the attr string, which  *)
(* the work handlers never free.                                           *)
(***************************************************************************)
LeaksOnlyAttr == mod = "out" /\ h = "none" => heap \subseteq {"attr"}

(***************************************************************************)
(* Loading and removing a module ends: the init function that sleeps on    *)
(* my_wq is woken, whoever waits for the lock gets it, and the exit        *)
(* functions that wait for the deferred function see it end.               *)
(***************************************************************************)
LoadsAndUnloads ==
  mod \in {"loading", "unbinding", "unloading"} ~> mod \in {"loaded", "out", "oops"}
=============================================================================
