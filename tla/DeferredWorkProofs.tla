-------------------------- MODULE DeferredWorkProofs --------------------------
(***************************************************************************)
(* Theorems about DeferredWork, for every set of examples and every length *)
(* of the names.                                                           *)
(*                                                                         *)
(* None of the properties is inductive: what a step may do depends on the  *)
(* statements both activities have still to execute.  The invariant says   *)
(* for each group of examples what holds before each statement of the      *)
(* init and exit functions, and before each statement of the deferred one. *)
(***************************************************************************)
EXTENDS DeferredWork, TLAPS

Timers == {"std_timer", "hr_timer", "tasklet"}
Locks  == {"mutex", "spinlock"}
Works  == {"shared_wq", "dedicated_wq"}

Types == TypeOK /\ todo = [a \in Actors |-> todo[a]]

\* The module is in state s and main has the statements l before it.
M(s, l) == mod = s /\ todo["main"] = l

\* The deferred function is in one of the states S, with the statements l.
H(S, l) == h \in S /\ todo["handler"] = l

Quiet == lock = "free" /\ data = Unwritten

-----------------------------------------------------------------------------
(* 04, 05 and 08: the deferred function has no statement.                  *)

\* All that the exit function may leave behind.
Stopped == h = "none" \/ (prog = "std_timer" /\ h = "running")

TimerInv ==
  /\ Quiet /\ heap = {} /\ todo["handler"] = << >> /\ h # "rearmed"
  /\ \/ mod = "out" /\ Stopped
     \/ M("loading", <<"queue">>) /\ h = "none"
     \/ M("loading", << >>)
     \/ mod = "loaded"
     \/ M("unloading", ExitOf[prog])
     \/ M("unloading", << >>) /\ Stopped
     \/ mod = "oops"

-----------------------------------------------------------------------------
(* 03: the init function goes on only if it has seen the condition or a    *)
(* signal.                                                                 *)

Over == h # "none" => interrupted \/ (condition /\ h = "running")

WaitHandler ==
  \/ H({"none"}, << >>)
  \/ H({"queued"}, << >>) /\ ~condition
  \/ H({"running"}, <<"set_condition", "wake_up">>)
  \/ H({"running"}, <<"wake_up">>) /\ condition
  \/ H({"running"}, << >>) /\ condition

WaitMain ==
  \/ mod = "out" /\ Over
  \/ M("loading", <<"queue", "prepare", "test">>) /\ h = "none" /\ ~condition
  \/ M("loading", <<"prepare", "test">>)
  \/ M("loading", <<"test">>)
  \/ M("loading", << >>) /\ Over
  \/ mod = "loaded" /\ Over
  \/ M("unloading", << >>) /\ Over
  \/ mod = "oops"

WaitInv == Quiet /\ heap = {} /\ WaitHandler /\ WaitMain

-----------------------------------------------------------------------------
(* 06 and 07: the critical sections.                                       *)

Whole(a) == \A k \in 0 .. LEN - 2 : data[k] = a

\* What a has done, told from what it has still to do.
Section(a) ==
  /\ todo[a] = <<"lock", "fill", "unlock">> => lock # a /\ i[a] = 0
  /\ todo[a] = <<"fill", "unlock">> =>
       /\ lock = a /\ i[a] < LEN
       /\ \A k \in 0 .. LEN - 2 : k < i[a] => data[k] = a
  /\ todo[a] = <<"unlock">> => lock = a /\ Whole(a)
  /\ todo[a] = << >> => lock # a

LockHandler ==
  \/ H({"none", "queued"}, << >>)
  \/ H({"running"}, <<"lock", "fill", "unlock">>)
  \/ H({"running"}, <<"fill", "unlock">>)
  \/ H({"running"}, <<"unlock">>)
  \/ H({"running"}, << >>)

LockMain ==
  \/ mod \in {"out", "oops"}
  \/ M("loading", <<"queue", "lock", "fill", "unlock">>)
       /\ h = "none" /\ lock = "free" /\ i["main"] = 0 /\ i["handler"] = 0
  \/ M("loading", <<"lock", "fill", "unlock">>)
  \/ M("loading", <<"fill", "unlock">>)
  \/ M("loading", <<"unlock">>)
  \/ M("loading", << >>)
  \/ M("loaded", << >>)
  \/ M("unloading", << >>)

\* When the module is gone nobody enters the critical sections any more; a
\* load starts with a free lock.
Sections ==
  mod \notin {"out", "oops"} =>
    /\ Section("main") /\ Section("handler")
    /\ h = "queued" => i["handler"] = 0

LockInv == heap = {} /\ DataWhole /\ LockHandler /\ LockMain /\ Sections

-----------------------------------------------------------------------------
(* 09 and 10: the work and its memory.                                     *)

Freed == h = "none" \/ H({"running"}, << >>) => "wrk_data" \notin heap

WorkHandler ==
  \/ H({"none", "queued"}, << >>)
  \/ H({"running"}, <<"kfree">>)
  \/ H({"running"}, << >>)

\* What is left when exit_return comes.
WorkEnd == Freed /\ "wrkqueue" \notin heap /\ (prog = "dedicated_wq" => h = "none")

WorkMain ==
  \/ mod = "out" /\ WorkEnd
  \/ M("loading", <<"wrkqueue", "wrk_data", "attr", "fill", "queue">>)
       /\ h = "none" /\ i["main"] = 0 /\ prog = "dedicated_wq"
  \/ M("loading", <<"wrk_data", "attr", "fill", "queue">>) /\ h = "none" /\ i["main"] = 0
  \/ M("loading", <<"attr", "fill", "queue">>) /\ h = "none" /\ i["main"] = 0
  \/ M("loading", <<"fill", "queue">>) /\ h = "none" /\ i["main"] < LEN
  \/ M("loading", <<"queue">>) /\ h = "none"
  \/ M("loading", << >>) /\ Freed
  \/ mod = "loaded" /\ Freed
  \/ M("unloading", <<"flush_workqueue", "destroy_workqueue">>) /\ Freed /\ prog = "dedicated_wq"
  \/ M("unloading", <<"destroy_workqueue">>) /\ Freed /\ h = "none" /\ prog = "dedicated_wq"
  \/ M("unloading", << >>) /\ WorkEnd
  \/ mod = "oops"

WorkInv ==
  /\ Quiet /\ heap \subseteq Allocations
  /\ prog = "shared_wq" => "wrkqueue" \notin heap
  /\ WorkHandler /\ WorkMain

-----------------------------------------------------------------------------
(* 16: a timer that outlives its GPIO has escaped del_timer.               *)

Idle == h # "none" => escaped

GpioHandler ==
  \/ H({"none", "queued"}, << >>)
  \/ H({"running", "rearmed"}, <<"gpiod_get_value", "mod_timer">>)
  \/ H({"running", "rearmed"}, <<"mod_timer">>)
  \/ H({"running", "rearmed"}, << >>)

Removing(l) == mod \in {"unbinding", "unloading"} /\ todo["main"] = l

GpioMain ==
  \/ mod = "out" /\ heap = {} /\ Idle
  \/ M("loading", <<"pinctrl", "gpio", "irq", "queue">>) /\ heap = {} /\ Idle
  \/ M("loading", <<"gpio", "irq", "queue">>) /\ heap = {} /\ Idle
  \/ M("loading", <<"irq", "queue">>) /\ heap = {"gpio"} /\ Idle
  \/ M("loading", <<"queue">>) /\ heap = {"gpio", "irq"} /\ Idle
  \/ (mod = "loaded" \/ M("loading", << >>)) /\ heap = {"gpio", "irq"}
  \/ (mod = "loaded" \/ M("loading", << >>)) /\ heap = {} /\ Idle
  \/ Removing(<<"del_timer", "free_irq", "gpiod_put">>) /\ heap = {"gpio", "irq"}
  \/ Removing(<<"free_irq", "gpiod_put">>) /\ heap = {"gpio", "irq"} /\ Idle
  \/ Removing(<<"gpiod_put">>) /\ heap = {"gpio"} /\ Idle
  \/ Removing(<< >>) /\ heap = {} /\ Idle
  \/ mod = "oops"

GpioInv == Quiet /\ ("gpio" \in heap \/ Idle) /\ GpioHandler /\ GpioMain

-----------------------------------------------------------------------------
Groups ==
  /\ prog \in Timers => TimerInv
  /\ prog = "wait_queue" => WaitInv
  /\ prog \in Locks => LockInv
  /\ prog \in Works => WorkInv
  /\ prog = "gpio_interrupt" => GpioInv

Inv == Types /\ Groups

-----------------------------------------------------------------------------
(* Which statement each step executes.                                     *)

\* What the steps of Main do, with the statement each executes.
MainStep ==
  \/ init_return \/ exit_return
  \/ At("main", "queue") /\ queue
  \/ At("main", "del_timer") /\ del_timer
  \/ At("main", "hrtimer_cancel") /\ hrtimer_cancel
  \/ /\ \E s \in {"tasklet_kill", "flush_workqueue", "destroy_workqueue"} : At("main", s)
     /\ wait_until_idle
  \/ At("main", "prepare") /\ prepare
  \/ At("main", "test") /\ (test \/ wait_interrupted)
  \/ At("main", "lock") /\ (lock_data("main") \/ lock_interrupted)
  \/ At("main", "fill") /\ fill("main")
  \/ At("main", "unlock") /\ unlock("main")
  \/ \E s \in Allocations : At("main", s) /\ (alloc(s) \/ alloc_failed(s))
  \/ \E s \in {"pinctrl", "gpio", "irq"} : At("main", s) /\ gpio_probe(s)
  \/ \E s \in {"free_irq", "gpiod_put"} : At("main", s) /\ gpio_remove(s)

\* The same for the handler.
HandlerStep ==
  \/ run \/ handler_return
  \/ At("handler", "set_condition") /\ set_condition
  \/ At("handler", "wake_up") /\ wake_up
  \/ At("handler", "kfree") /\ kfree
  \/ At("handler", "gpiod_get_value") /\ gpiod_get_value
  \/ At("handler", "mod_timer") /\ mod_timer
  \/ At("handler", "lock") /\ lock_data("handler")
  \/ At("handler", "fill") /\ fill("handler")
  \/ At("handler", "unlock") /\ unlock("handler")

\* Every step is a load or removal, a statement of one activity, or a stray
\* execution: Next, with the statement each action executes.
LEMMA Kinds ==
  ASSUME Next
  PROVE  \/ load \/ start_exit \/ start_probe \/ start_remove \/ stray \/ old_stray
         \/ MainStep \/ HandlerStep
<1>1. /\ queue => At("main", "queue")
      /\ del_timer => At("main", "del_timer")
      /\ hrtimer_cancel => At("main", "hrtimer_cancel")
  BY DEF queue, del_timer, hrtimer_cancel
<1>2. /\ prepare => At("main", "prepare")
      /\ test => At("main", "test")
      /\ wait_interrupted => At("main", "test")
      /\ lock_interrupted => At("main", "lock")
  BY DEF prepare, test, wait_interrupted, lock_interrupted
<1>3. \A a \in Actors : /\ lock_data(a) => At(a, "lock")
                        /\ fill(a) => At(a, "fill")
                        /\ unlock(a) => At(a, "unlock")
  BY DEF lock_data, fill, unlock
<1>4. \A s \in Allocations : alloc(s) \/ alloc_failed(s) => At("main", s)
  BY DEF alloc, alloc_failed
<1>5. /\ \A s \in {"pinctrl", "gpio", "irq"} : gpio_probe(s) => At("main", s)
      /\ \A s \in {"free_irq", "gpiod_put"} : gpio_remove(s) => At("main", s)
  BY DEF gpio_probe, gpio_remove
<1>6. /\ set_condition => At("handler", "set_condition")
      /\ wake_up => At("handler", "wake_up")
      /\ kfree => At("handler", "kfree")
      /\ gpiod_get_value => At("handler", "gpiod_get_value")
      /\ mod_timer => At("handler", "mod_timer")
  BY DEF set_condition, wake_up, kfree, gpiod_get_value, mod_timer
<1>7. wait_until_idle =>
        \E s \in {"tasklet_kill", "flush_workqueue", "destroy_workqueue"} : At("main", s)
  BY DEF wait_until_idle
<1>8. CASE Main
  BY <1>1, <1>2, <1>3, <1>4, <1>5, <1>7, <1>8 DEF Main, MainStep, Actors
<1>9. CASE Handler
  BY <1>3, <1>6, <1>9 DEF Handler, HandlerStep, Actors
<1>10. CASE lock_interrupted \/ wait_interrupted
  BY <1>2, <1>10 DEF MainStep
<1> QED
  BY <1>8, <1>9, <1>10 DEF Next

-----------------------------------------------------------------------------
(* The lists of statements.                                                *)

\* Done(a) removes a statement of a and leaves the other list alone.
LEMMA DoneLists ==
  ASSUME Types, NEW a \in Actors, Done(a)
  PROVE  /\ todo'[a] = Tail(todo[a])
         /\ \A b \in Actors \ {a} : todo'[b] = todo[b]
         /\ todo' = [b \in Actors |-> todo'[b]]
BY DEF Types, Done

\* The lists have no more entries than Actors.
LEMMA TodoStep ==
  ASSUME Types, Next
  PROVE  todo' = [b \in Actors |-> todo'[b]]
<1> USE DEF Types, Done, Actors
<1>1. CASE load \/ start_exit \/ start_probe \/ start_remove \/ stray \/ old_stray
  BY <1>1 DEF load, start_exit, start_probe, start_remove, stray, old_stray
<1>2. CASE init_return \/ exit_return \/ queue \/ del_timer \/ hrtimer_cancel \/ wait_until_idle
  BY <1>2 DEF init_return, exit_return, queue, del_timer, hrtimer_cancel, wait_until_idle
<1>3. CASE prepare \/ test \/ wait_interrupted \/ lock_interrupted
  BY <1>3 DEF prepare, test, wait_interrupted, lock_interrupted
<1>4. CASE \E a \in Actors : lock_data(a) \/ fill(a) \/ unlock(a)
  BY <1>4 DEF lock_data, fill, unlock
<1>5. CASE \E s \in Allocations : alloc(s) \/ alloc_failed(s)
  BY <1>5 DEF alloc, alloc_failed
<1>6. CASE \/ \E s \in {"pinctrl", "gpio", "irq"} : gpio_probe(s)
           \/ \E s \in {"free_irq", "gpiod_put"} : gpio_remove(s)
  BY <1>6 DEF gpio_probe, gpio_remove
<1>7. CASE run \/ handler_return \/ set_condition \/ wake_up \/ kfree
           \/ gpiod_get_value \/ mod_timer
  BY <1>7 DEF run, handler_return, set_condition, wake_up, kfree, gpiod_get_value, mod_timer
<1> QED
  BY <1>1, <1>2, <1>3, <1>4, <1>5, <1>6, <1>7 DEF Next, Main, Handler

-----------------------------------------------------------------------------
(* 04, 05 and 08.                                                          *)

\* What TimerInv says where main is about to execute statement s.
TimerMainAt(s) ==
  \/ s = "queue" /\ M("loading", <<s>>) /\ h = "none"
  \/ s = "del_timer" /\ M("unloading", <<s>>) /\ prog = "std_timer"
  \/ s = "hrtimer_cancel" /\ M("unloading", <<s>>) /\ prog = "hr_timer"
  \/ s = "tasklet_kill" /\ M("unloading", <<s>>) /\ prog = "tasklet"

\* Where each statement of the three modules is; their handlers have none.
LEMMA TimerStatements ==
  ASSUME prog \in Timers, TimerInv
  PROVE  /\ \A s : At("main", s) => TimerMainAt(s)
         /\ \A s : ~At("handler", s)
BY DEF TimerMainAt, Timers, TimerInv, M, At, Running, ExitOf, std_timer_prog_exit,
   hr_timer_prog_exit, tasklet_prog_exit

\* Each step of the timer and tasklet examples keeps TimerInv.
LEMMA TimerStep ==
  ASSUME Types, prog \in Timers, TimerInv, Next
  PROVE  TimerInv'
<1>a. \A s : At("main", s) => TimerMainAt(s)
  BY TimerStatements
<1>b. Done("main") => todo'["main"] = Tail(todo["main"]) /\ todo'["handler"] = todo["handler"]
  BY DoneLists DEF Actors
<1> USE DEF TimerMainAt
<1> USE DEF TimerInv, M, Quiet, Stopped, lockVars, waitVars, Actors
<1>1. CASE load
  BY <1>1 DEF load, InitOf, std_timer_prog_init, hr_timer_prog_init, tasklet_prog_init, Types,
     Timers, M
<1>2. CASE start_exit
  BY <1>2 DEF start_exit, Bound, Timers, Types, M
<1>3. ~start_probe /\ ~start_remove
  BY DEF start_probe, start_remove, Bound, Timers
<1>4. CASE stray
  BY <1>4 DEF stray, Timers, Types, M
<1>o. CASE old_stray
  BY <1>o DEF old_stray
<1>5. CASE init_return \/ exit_return
  BY <1>5 DEF init_return, exit_return, ExitOf, std_timer_prog_exit, hr_timer_prog_exit,
     tasklet_prog_exit, Timers, M
<1>6. CASE queue
  <2>1. M("loading", <<"queue">>) /\ h = "none"
    BY <1>6, <1>a DEF queue
  <2>2. /\ mod' = mod /\ h' = "queued" /\ prog' = prog
        /\ todo'["main"] = << >> /\ todo'["handler"] = todo["handler"]
    BY <1>6, <1>b, <2>1 DEF queue, Timers
  <2> QED
    BY <1>6, <2>1, <2>2 DEF queue
<1>7. CASE del_timer
  <2>1. M("unloading", <<"del_timer">>) /\ prog = "std_timer"
    BY <1>7, <1>a DEF del_timer
  <2>2. todo'["main"] = << >> /\ todo'["handler"] = todo["handler"]
    BY <1>7, <1>b, <2>1 DEF del_timer
  <2> QED
    BY <1>7, <2>1, <2>2 DEF del_timer
<1>8. CASE hrtimer_cancel
  <2>1. M("unloading", <<"hrtimer_cancel">>)
    BY <1>8, <1>a DEF hrtimer_cancel
  <2>2. todo'["main"] = << >> /\ todo'["handler"] = todo["handler"]
    BY <1>8, <1>b, <2>1 DEF hrtimer_cancel
  <2> QED
    BY <1>8, <2>1, <2>2 DEF hrtimer_cancel
<1>9. CASE wait_until_idle
  <2>1. M("unloading", <<"tasklet_kill">>)
    BY <1>9, <1>a DEF wait_until_idle
  <2>2. todo'["main"] = << >> /\ todo'["handler"] = todo["handler"]
    BY <1>9, <1>b, <2>1 DEF wait_until_idle
  <2> QED
    BY <1>9, <2>1, <2>2 DEF wait_until_idle
<1>10. CASE run
  BY <1>10 DEF run, HandlerOf, std_timer_callback, hrtimer_restart_callback, tasklet_handler,
     Timers, Types, M
<1>11. CASE handler_return
  BY <1>11 DEF handler_return, Running, Timers, M
<1> HIDE DEF TimerInv, Quiet, Stopped, lockVars, waitVars, Actors
<1>12. CASE MainStep
  BY TimerStatements, <1>5, <1>6, <1>7, <1>8, <1>9, <1>12 DEF MainStep, Allocations
<1>13. CASE HandlerStep
  BY TimerStatements, <1>10, <1>11, <1>13 DEF HandlerStep
<1> QED
  BY <1>1, <1>2, <1>3, <1>4, <1>o, <1>12, <1>13, Kinds
-----------------------------------------------------------------------------
(* 03.                                                                     *)

\* What WaitInv says where main is about to execute statement s.
WaitMainAt(s) ==
  \/ s = "queue" /\ M("loading", <<s, "prepare", "test">>) /\ h = "none" /\ ~condition
  \/ s = "prepare" /\ M("loading", <<s, "test">>)
  \/ s = "test" /\ M("loading", <<s>>)

\* The same for the handler.
WaitHandlerAt(s) ==
  \/ s = "set_condition" /\ H({"running"}, <<s, "wake_up">>)
  \/ s = "wake_up" /\ H({"running"}, <<s>>) /\ condition

\* Where each statement of the init function and of the handler is.
LEMMA WaitStatements ==
  ASSUME WaitInv
  PROVE  /\ \A s : At("main", s) => WaitMainAt(s)
         /\ \A s : At("handler", s) => WaitHandlerAt(s)
BY DEF WaitMainAt, WaitHandlerAt, WaitInv, WaitMain, WaitHandler, M, H, At, Running

\* Each step of the wait queue example keeps WaitInv.
LEMMA WaitStep ==
  ASSUME Types, prog = "wait_queue", WaitInv, Next
  PROVE  WaitInv'
<1>a. \A s : At("main", s) => WaitMainAt(s)
  BY WaitStatements
<1>b. \A s : At("handler", s) => WaitHandlerAt(s)
  BY WaitStatements
<1>c. Done("main") => todo'["main"] = Tail(todo["main"]) /\ todo'["handler"] = todo["handler"]
  BY DoneLists DEF Actors
<1>d. Done("handler") => todo'["handler"] = Tail(todo["handler"]) /\ todo'["main"] = todo["main"]
  BY DoneLists DEF Actors
<1> USE DEF WaitMainAt, WaitHandlerAt
<1> USE DEF WaitInv, WaitHandler, WaitMain, M, H, Over, Quiet, lockVars, waitVars
<1>1. CASE load
  BY <1>1 DEF load, InitOf, wait_queue_prog_init, Types, Actors
<1>2. CASE start_exit
  BY <1>2 DEF start_exit, Bound, ExitOf, wait_queue_prog_exit, Types, Actors
<1>3. ~start_probe /\ ~start_remove
  BY DEF start_probe, start_remove, Bound
<1>4. CASE stray
  BY <1>4 DEF stray, Types, Actors
<1>o. CASE old_stray
  BY <1>o DEF old_stray
<1>5. CASE init_return \/ exit_return
  BY <1>5 DEF init_return, exit_return
<1>6. CASE queue
  <2>1. M("loading", <<"queue", "prepare", "test">>) /\ h = "none" /\ ~condition
    BY <1>6, <1>a DEF queue
  <2>2. /\ mod' = mod /\ h' = "queued"
        /\ todo'["main"] = <<"prepare", "test">> /\ todo'["handler"] = todo["handler"]
    BY <1>6, <1>c, <2>1 DEF queue
  <2> QED
    BY <1>6, <2>1, <2>2 DEF queue
<1>7. CASE prepare
  <2>1. M("loading", <<"prepare", "test">>)
    BY <1>7, <1>a DEF prepare
  <2>2. todo'["main"] = <<"test">> /\ todo'["handler"] = todo["handler"]
    BY <1>7, <1>c, <2>1 DEF prepare
  <2> QED
    BY <1>7, <2>1, <2>2 DEF prepare
<1>8. CASE test
  <2>1. M("loading", <<"test">>)
    BY <1>8, <1>a DEF test
  <2>2. /\ todo'["main"] = <<"test">> \/ (condition /\ todo'["main"] = << >>)
        /\ todo'["handler"] = todo["handler"]
    BY <1>8, <1>c, <2>1 DEF test
  <2> QED
    BY <1>8, <2>1, <2>2 DEF test
<1>9. CASE wait_interrupted
  <2>1. M("loading", <<"test">>)
    BY <1>9, <1>a DEF wait_interrupted
  <2>2. todo'["main"] = << >> /\ todo'["handler"] = todo["handler"]
    BY <1>9, <1>c, <2>1 DEF wait_interrupted
  <2> QED
    BY <1>9, <2>1, <2>2 DEF wait_interrupted
<1>10. CASE run
  BY <1>10 DEF run, HandlerOf, wait_queue_handler, Types, Actors
<1>11. CASE handler_return
  BY <1>11 DEF handler_return, Running
<1>12. CASE set_condition
  <2>1. H({"running"}, <<"set_condition", "wake_up">>)
    BY <1>12, <1>b DEF set_condition
  <2>2. todo'["handler"] = <<"wake_up">> /\ todo'["main"] = todo["main"]
    BY <1>12, <1>d, <2>1 DEF set_condition
  <2> QED
    BY <1>12, <2>1, <2>2 DEF set_condition
<1>13. CASE wake_up
  <2>1. H({"running"}, <<"wake_up">>) /\ condition
    BY <1>13, <1>b DEF wake_up
  <2>2. todo'["handler"] = << >> /\ todo'["main"] = todo["main"]
    BY <1>13, <1>d, <2>1 DEF wake_up
  <2> QED
    BY <1>13, <2>1, <2>2 DEF wake_up
<1> HIDE DEF WaitInv, WaitHandler, WaitMain, M, H, Over, Quiet, lockVars, waitVars
<1>14. CASE MainStep
  <2>1. \A s : At("main", s) => s \in {"queue", "prepare", "test"}
    BY <1>a
  <2> QED
    BY <2>1, <1>5, <1>6, <1>7, <1>8, <1>9, <1>14 DEF MainStep, Allocations
<1>15. CASE HandlerStep
  <2>1. \A s : At("handler", s) => s \in {"set_condition", "wake_up"}
    BY <1>b
  <2> QED
    BY <2>1, <1>10, <1>11, <1>12, <1>13, <1>15 DEF HandlerStep
<1> QED
  BY <1>1, <1>2, <1>3, <1>4, <1>o, <1>14, <1>15, Kinds
-----------------------------------------------------------------------------
(* 09 and 10.                                                              *)

\* What WorkInv says where main is about to execute statement s.
WorkMainAt(s) ==
  \/ s = "wrkqueue" /\ M("loading", <<s, "wrk_data", "attr", "fill", "queue">>)
       /\ h = "none" /\ i["main"] = 0 /\ prog = "dedicated_wq"
  \/ s = "wrk_data" /\ M("loading", <<s, "attr", "fill", "queue">>)
       /\ h = "none" /\ i["main"] = 0
  \/ s = "attr" /\ M("loading", <<s, "fill", "queue">>) /\ h = "none" /\ i["main"] = 0
  \/ s = "fill" /\ M("loading", <<s, "queue">>) /\ h = "none" /\ i["main"] < LEN
  \/ s = "queue" /\ M("loading", <<s>>) /\ h = "none"
  \/ s = "flush_workqueue" /\ M("unloading", <<s, "destroy_workqueue">>)
       /\ prog = "dedicated_wq"
  \/ s = "destroy_workqueue" /\ M("unloading", <<s>>) /\ prog = "dedicated_wq"

\* Where each statement of the init and exit functions is.
LEMMA WorkStatements ==
  ASSUME WorkInv
  PROVE  /\ \A s : At("main", s) => WorkMainAt(s)
         /\ \A s : At("handler", s) => s = "kfree" /\ H({"running"}, <<s>>)
<1> USE DEF WorkMainAt, WorkInv, WorkMain, WorkHandler, M, H, At, Running
<1>1. ASSUME NEW s, At("handler", s)
      PROVE  s = "kfree" /\ H({"running"}, <<s>>)
  BY <1>1
<1>2. ASSUME NEW s, At("main", s)
      PROVE  WorkMainAt(s)
  BY <1>2
<1> QED
  BY <1>1, <1>2

\* Each step of the work queue examples keeps WorkInv.
LEMMA WorkStep ==
  ASSUME Types, prog \in Works, WorkInv, Next
  PROVE  WorkInv'
<1>a. \A s : At("main", s) => WorkMainAt(s)
  BY WorkStatements
<1>b. \A s : At("handler", s) => s = "kfree" /\ H({"running"}, <<s>>)
  BY WorkStatements
<1>c. Done("main") => todo'["main"] = Tail(todo["main"]) /\ todo'["handler"] = todo["handler"]
  BY DoneLists DEF Actors
<1>d. Done("handler") => todo'["handler"] = Tail(todo["handler"]) /\ todo'["main"] = todo["main"]
  BY DoneLists DEF Actors
<1> USE DEF WorkMainAt
<1> USE DEF WorkInv, WorkHandler, WorkMain, WorkEnd, Freed, M, H, Quiet, lockVars, waitVars
<1>1. CASE load
  <2>1. /\ \/ prog = "shared_wq" /\ todo'["main"] = <<"wrk_data", "attr", "fill", "queue">>
           \/ prog = "dedicated_wq"
              /\ todo'["main"] = <<"wrkqueue", "wrk_data", "attr", "fill", "queue">>
        /\ todo'["handler"] = << >>
    BY <1>1 DEF load, InitOf, shared_wq_init, dedicated_workqueue_init, Works, Types, Actors
  <2> QED
    BY <1>1, <2>1 DEF load, Actors
<1>2. CASE start_exit
  <2>1. /\ \/ prog = "shared_wq" /\ todo'["main"] = << >>
           \/ prog = "dedicated_wq"
              /\ todo'["main"] = <<"flush_workqueue", "destroy_workqueue">>
        /\ todo'["handler"] = todo["handler"]
    BY <1>2 DEF start_exit, Bound, ExitOf, shared_wq_exit, dedicated_workqueue_exit, Works, Types,
       Actors
  <2> QED
    BY <1>2, <2>1 DEF start_exit
<1>3. ~start_probe /\ ~start_remove
  BY DEF start_probe, start_remove, Bound, Works
<1>4. CASE stray
  BY <1>4 DEF stray, Works, Types, Actors
<1>o. CASE old_stray
  BY <1>o DEF old_stray
<1>5. CASE init_return \/ exit_return
  BY <1>5 DEF init_return, exit_return
<1>6. CASE queue
  <2>1. M("loading", <<"queue">>) /\ h = "none"
    BY <1>6, <1>a DEF queue
  <2>2. \/ /\ mod' = mod /\ h' = "queued"
           /\ todo'["main"] = << >> /\ todo'["handler"] = todo["handler"]
        \/ mod' = "oops" /\ h' = h /\ todo' = todo
    BY <1>6, <1>c, <2>1 DEF queue
  <2> QED
    BY <1>6, <2>1, <2>2 DEF queue
<1>7. CASE \E s \in Allocations : At("main", s) /\ (alloc(s) \/ alloc_failed(s))
  <2> PICK s \in Allocations : At("main", s) /\ (alloc(s) \/ alloc_failed(s))
    BY <1>7
  <2>1. \/ s = "wrkqueue" /\ M("loading", <<"wrkqueue", "wrk_data", "attr", "fill", "queue">>)
             /\ prog = "dedicated_wq"
        \/ s = "wrk_data" /\ M("loading", <<"wrk_data", "attr", "fill", "queue">>)
        \/ s = "attr" /\ M("loading", <<"attr", "fill", "queue">>)
    BY <1>a DEF Allocations
  <2>2. h = "none" /\ i["main"] = 0
    BY <1>a DEF Allocations
  <2>3. CASE mod' = "oops"
    <3>1. alloc_failed(s) /\ todo' = todo
      BY <2>1, <2>3 DEF alloc, alloc_failed
    <3> QED
      BY <2>3, <3>1 DEF alloc_failed
  <2>4. CASE Done("main") /\ mod' = mod
    <3>1. /\ todo'["main"] = Tail(todo["main"]) /\ todo'["handler"] = todo["handler"]
      BY <1>c, <2>4
    <3>2. /\ heap' = heap \cup {s} \/ heap' = heap
          /\ UNCHANGED <<prog, h, lockVars>>
      BY DEF alloc, alloc_failed
    <3>3. WorkMain'
      <4>1. CASE s = "wrkqueue"
        <5>0. M("loading", <<"wrkqueue", "wrk_data", "attr", "fill", "queue">>)
          BY <2>1, <4>1
        <5>1. M("loading", <<"wrk_data", "attr", "fill", "queue">>)'
          BY <2>4, <3>1, <5>0
        <5> QED
          BY <2>2, <3>2, <5>1
      <4>2. CASE s = "wrk_data"
        <5>0. M("loading", <<"wrk_data", "attr", "fill", "queue">>)
          BY <2>1, <4>2
        <5>1. M("loading", <<"attr", "fill", "queue">>)'
          BY <2>4, <3>1, <5>0
        <5> QED
          BY <2>2, <3>2, <5>1
      <4>3. CASE s = "attr"
        <5>0. M("loading", <<"attr", "fill", "queue">>)
          BY <2>1, <4>3
        <5>1. M("loading", <<"fill", "queue">>)'
          BY <2>4, <3>1, <5>0
        <5> QED
          BY <2>2, <3>2, <5>1, DeferredAssumption
      <4> QED
        BY <4>1, <4>2, <4>3 DEF Allocations
    <3>4. prog = "shared_wq" => "wrkqueue" \notin heap'
      BY <2>1, <3>2
    <3> QED
      BY <2>2, <2>4, <3>1, <3>2, <3>3, <3>4 DEF Allocations
  <2> QED
    BY <2>3, <2>4 DEF alloc, alloc_failed
<1>8. CASE fill("main")
  <2>1. M("loading", <<"fill", "queue">>) /\ h = "none" /\ i["main"] < LEN
    BY <1>8, <1>a DEF fill
  <2>2. /\ i'["main"] = i["main"] + 1
        /\ \/ i'["main"] = LEN /\ todo'["main"] = <<"queue">> /\ todo'["handler"] = todo["handler"]
           \/ i'["main"] # LEN /\ todo' = todo
    <3>1. i'["main"] = i["main"] + 1
      BY <1>8 DEF fill, Types, TypeOK, Actors
    <3>2. IF i["main"] + 1 = LEN THEN Done("main") ELSE todo' = todo
      BY <1>8 DEF fill, FillEnd
    <3>3. Tail(todo["main"]) = <<"queue">>
      BY <2>1
    <3> QED
      BY <1>c, <3>1, <3>2, <3>3
  <2>3. i'["main"] < LEN \/ i'["main"] = LEN
    BY <2>1, <2>2, DeferredAssumption DEF Types, TypeOK, Actors
  <2> QED
    BY <1>8, <2>1, <2>2, <2>3 DEF fill, Works
<1>9. CASE wait_until_idle
  <2>1. CASE M("unloading", <<"flush_workqueue", "destroy_workqueue">>)
    <3>1. todo'["main"] = <<"destroy_workqueue">> /\ todo'["handler"] = todo["handler"]
      BY <1>9, <1>c, <2>1 DEF wait_until_idle
    <3>2. ~At("main", "destroy_workqueue")
      BY <2>1 DEF At
    <3>3. prog = "dedicated_wq"
      BY <2>1
    <3> QED
      BY <1>9, <2>1, <3>1, <3>2, <3>3 DEF wait_until_idle
  <2>2. CASE M("unloading", <<"destroy_workqueue">>)
    <3>1. todo'["main"] = << >> /\ todo'["handler"] = todo["handler"]
      BY <1>9, <1>c, <2>2 DEF wait_until_idle
    <3>2. At("main", "destroy_workqueue")
      BY <2>2 DEF At, Running
    <3> QED
      BY <1>9, <2>2, <3>1, <3>2 DEF wait_until_idle
  <2> QED
    BY <1>9, <1>a, <2>1, <2>2 DEF wait_until_idle
<1>10. CASE run
  <2>1. todo'["handler"] = <<"kfree">> /\ todo'["main"] = todo["main"]
    BY <1>10 DEF run, HandlerOf, shared_wq_handler, dedicated_handler, Works, Types, Actors
  <2> QED
    BY <1>10, <2>1 DEF run
<1>11. CASE handler_return
  BY <1>11 DEF handler_return, Running
<1>12. CASE kfree
  <2>1. H({"running"}, <<"kfree">>)
    BY <1>12, <1>b DEF kfree
  <2>2. todo'["handler"] = << >> /\ todo'["main"] = todo["main"]
    BY <1>12, <1>d, <2>1 DEF kfree
  <2> QED
    BY <1>12, <2>1, <2>2 DEF kfree
<1> HIDE DEF WorkInv, WorkHandler, WorkMain, WorkEnd, Freed, M, H, Quiet, lockVars, waitVars
<1>13. CASE MainStep
  <2>1. \A s : At("main", s) => s \in Allocations \cup {"fill", "queue", "flush_workqueue",
                                                        "destroy_workqueue"}
    BY <1>a DEF Allocations
  <2> QED
    BY <2>1, <1>5, <1>6, <1>7, <1>8, <1>9, <1>13 DEF MainStep, Allocations
<1>14. CASE HandlerStep
  <2>1. \A s : At("handler", s) => s = "kfree"
    BY <1>b
  <2> QED
    BY <2>1, <1>10, <1>11, <1>12, <1>14 DEF HandlerStep
<1> QED
  BY <1>1, <1>2, <1>3, <1>4, <1>o, <1>13, <1>14, Kinds
-----------------------------------------------------------------------------
(* 16.                                                                     *)

\* What GpioInv says where probe or remove is about to execute s.
GpioMainAt(s) ==
  \/ s = "pinctrl" /\ M("loading", <<s, "gpio", "irq", "queue">>) /\ heap = {} /\ Idle
  \/ s = "gpio" /\ M("loading", <<s, "irq", "queue">>) /\ heap = {} /\ Idle
  \/ s = "irq" /\ M("loading", <<s, "queue">>) /\ heap = {"gpio"} /\ Idle
  \/ s = "queue" /\ M("loading", <<s>>) /\ heap = {"gpio", "irq"} /\ Idle
  \/ s = "del_timer" /\ Removing(<<s, "free_irq", "gpiod_put">>) /\ heap = {"gpio", "irq"}
  \/ s = "free_irq" /\ Removing(<<s, "gpiod_put">>) /\ heap = {"gpio", "irq"} /\ Idle
  \/ s = "gpiod_put" /\ Removing(<<s>>) /\ heap = {"gpio"} /\ Idle

\* The same for the timer callback.
GpioHandlerAt(s) ==
  \/ s = "gpiod_get_value" /\ H({"running", "rearmed"}, <<s, "mod_timer">>)
  \/ s = "mod_timer" /\ H({"running", "rearmed"}, <<s>>)

\* Where each statement of probe, remove and the callback is.
LEMMA GpioStatements ==
  ASSUME GpioInv
  PROVE  /\ \A s : At("main", s) => GpioMainAt(s)
         /\ \A s : At("handler", s) => GpioHandlerAt(s)
<1> USE DEF GpioMainAt, GpioHandlerAt, GpioInv, GpioMain, GpioHandler, M, H, Removing, At, Running
<1>1. ASSUME NEW s, At("handler", s)
      PROVE  GpioHandlerAt(s)
  BY <1>1
<1>2. ASSUME NEW s, At("main", s)
      PROVE  GpioMainAt(s)
  BY <1>2
<1> QED
  BY <1>1, <1>2

\* Each step of the GPIO example keeps GpioInv.
LEMMA GpioStep ==
  ASSUME Types, prog = "gpio_interrupt", GpioInv, Next
  PROVE  GpioInv'
<1>a. \A s : At("main", s) => GpioMainAt(s)
  BY GpioStatements
<1>b. \A s : At("handler", s) => GpioHandlerAt(s)
  BY GpioStatements
<1>c. Done("main") => todo'["main"] = Tail(todo["main"]) /\ todo'["handler"] = todo["handler"]
  BY DoneLists DEF Actors
<1>d. Done("handler") => todo'["handler"] = Tail(todo["handler"]) /\ todo'["main"] = todo["main"]
  BY DoneLists DEF Actors
<1> USE DEF GpioMainAt, GpioHandlerAt
<1> USE DEF GpioInv, GpioHandler, GpioMain, Removing, Idle, M, H, Quiet, lockVars, waitVars
<1>1. CASE load
  BY <1>1 DEF load, InitOf, gpio_interrupt_prog_probe, Types, Actors
<1>2. CASE start_exit \/ start_remove
  <2>1. /\ \/ heap = {"gpio", "irq"} /\ todo'["main"] = <<"del_timer", "free_irq", "gpiod_put">>
           \/ heap = {} /\ Idle /\ todo'["main"] = << >>
        /\ mod' \in {"unbinding", "unloading"}
        /\ todo'["handler"] = todo["handler"]
    BY <1>2 DEF start_exit, start_remove, Bound, ExitOf, gpio_interrupt_prog_remove, Types, Actors
  <2> QED
    BY <1>2, <2>1 DEF start_exit, start_remove
<1>3. CASE start_probe
  <2>1. /\ heap = {} /\ Idle /\ mod' = "loading"
        /\ todo'["main"] = <<"pinctrl", "gpio", "irq", "queue">>
        /\ todo'["handler"] = todo["handler"]
    BY <1>3 DEF start_probe, Bound, InitOf, gpio_interrupt_prog_probe, Types, Actors
  <2> QED
    BY <1>3, <2>1 DEF start_probe
<1>4. CASE stray
  <2>1. /\ heap = {} /\ Idle /\ h # "none"
        /\ \/ mod' = "oops" /\ h' = h /\ todo' = todo
           \/ mod' = mod /\ h' = "queued" /\ todo'["handler"] = << >>
        /\ heap' = {}
    BY <1>4 DEF stray, Types, Actors
  <2> QED
    BY <1>4, <2>1 DEF stray
<1>o. CASE old_stray
  BY <1>o DEF old_stray
<1>5. CASE init_return \/ exit_return
  BY <1>5 DEF init_return, exit_return
<1>6. CASE queue
  <2>1. M("loading", <<"queue">>) /\ heap = {"gpio", "irq"} /\ Idle
    BY <1>6, <1>a DEF queue
  <2>2. /\ todo'["handler"] = todo["handler"]
        /\ \/ mod' = "oops" /\ h' = h
           \/ /\ mod' = mod /\ todo'["main"] = << >>
              /\ h' = IF h \in {"running", "rearmed"} THEN "rearmed" ELSE "queued"
    BY <1>6, <1>c, <2>1 DEF queue
  <2>3. GpioHandler'
    BY <2>2, <2>1, <1>6 DEF queue
  <2> QED
    BY <1>6, <2>1, <2>2, <2>3 DEF queue
<1>7. CASE del_timer
  <2>1. Removing(<<"del_timer", "free_irq", "gpiod_put">>) /\ heap = {"gpio", "irq"}
    BY <1>7, <1>a DEF del_timer
  <2>2. todo'["main"] = <<"free_irq", "gpiod_put">> /\ todo'["handler"] = todo["handler"]
    BY <1>7, <1>c, <2>1 DEF del_timer
  <2>3. Idle'
    BY <1>7 DEF del_timer
  <2>4. GpioHandler'
    BY <1>7, <2>2 DEF del_timer, Types, TypeOK
  <2> QED
    BY <1>7, <2>1, <2>2, <2>3, <2>4 DEF del_timer
<1>8. ASSUME NEW s \in {"pinctrl", "gpio", "irq"}, gpio_probe(s)
      PROVE  GpioInv'
  <2>1. At("main", s)
    BY <1>8 DEF gpio_probe
  <2>2. Idle /\ mod = "loading"
    BY <1>8, <1>a, <2>1
  <2>3. CASE heap' = heap \ {"gpio"} /\ todo' = [todo EXCEPT !["main"] = << >>]
    <3>1. heap' = {}
      BY <1>8, <1>a, <2>1, <2>3
    <3>2. todo'["main"] = << >> /\ todo'["handler"] = todo["handler"]
      BY <2>3 DEF Types, Actors
    <3> QED
      BY <1>8, <2>2, <3>1, <3>2 DEF gpio_probe
  <2>4. CASE heap' = heap \cup ({s} \ {"pinctrl"}) /\ Done("main")
    <3>1. CASE s = "pinctrl"
      <4>1. M("loading", <<"pinctrl", "gpio", "irq", "queue">>) /\ heap = {}
        BY <1>a, <2>1, <3>1
      <4>2. heap' = {} /\ todo'["main"] = <<"gpio", "irq", "queue">>
            /\ todo'["handler"] = todo["handler"]
        BY <1>c, <2>4, <3>1, <4>1
      <4> QED
        BY <1>8, <2>2, <4>2 DEF gpio_probe
    <3>2. CASE s = "gpio"
      <4>1. M("loading", <<"gpio", "irq", "queue">>) /\ heap = {}
        BY <1>a, <2>1, <3>2
      <4>2. heap' = {"gpio"} /\ todo'["main"] = <<"irq", "queue">>
            /\ todo'["handler"] = todo["handler"]
        BY <1>c, <2>4, <3>2, <4>1
      <4> QED
        BY <1>8, <2>2, <4>2 DEF gpio_probe
    <3>3. CASE s = "irq"
      <4>1. M("loading", <<"irq", "queue">>) /\ heap = {"gpio"}
        BY <1>a, <2>1, <3>3
      <4>2. heap' = {"gpio", "irq"} /\ todo'["main"] = <<"queue">>
            /\ todo'["handler"] = todo["handler"]
        BY <1>c, <2>4, <3>3, <4>1
      <4> QED
        BY <1>8, <2>2, <4>2 DEF gpio_probe
    <3> QED
      BY <3>1, <3>2, <3>3, <1>8
  <2> QED
    BY <1>8, <2>3, <2>4 DEF gpio_probe
<1>9. ASSUME NEW s \in {"free_irq", "gpiod_put"}, gpio_remove(s)
      PROVE  GpioInv'
  <2>1. At("main", s)
    BY <1>9 DEF gpio_remove
  <2>2. CASE s = "free_irq"
    <3>1. Removing(<<"free_irq", "gpiod_put">>) /\ heap = {"gpio", "irq"} /\ Idle
      BY <1>a, <2>1, <2>2
    <3>2. heap' = {"gpio"} /\ todo'["main"] = <<"gpiod_put">> /\ todo'["handler"] = todo["handler"]
      BY <1>9, <1>c, <2>2, <3>1 DEF gpio_remove
    <3> QED
      BY <1>9, <3>1, <3>2 DEF gpio_remove
  <2>3. CASE s = "gpiod_put"
    <3>1. Removing(<<"gpiod_put">>) /\ heap = {"gpio"} /\ Idle
      BY <1>a, <2>1, <2>3
    <3>2. heap' = {} /\ todo'["main"] = << >> /\ todo'["handler"] = todo["handler"]
      BY <1>9, <1>c, <2>3, <3>1 DEF gpio_remove
    <3> QED
      BY <1>9, <3>1, <3>2 DEF gpio_remove
  <2> QED
    BY <1>9, <2>2, <2>3
<1>10. CASE run
  <2>1. /\ todo'["handler"] = <<"gpiod_get_value", "mod_timer">>
        /\ todo'["main"] = todo["main"]
    BY <1>10 DEF run, HandlerOf, gpio_timer_callback, Types, Actors
  <2> QED
    BY <1>10, <2>1 DEF run
<1>11. CASE handler_return
  BY <1>11 DEF handler_return, Running
<1>12. CASE gpiod_get_value
  <2>1. H({"running", "rearmed"}, <<"gpiod_get_value", "mod_timer">>)
    BY <1>12, <1>b DEF gpiod_get_value
  <2>2. todo'["handler"] = <<"mod_timer">> /\ todo'["main"] = todo["main"]
    BY <1>12, <1>d, <2>1 DEF gpiod_get_value
  <2> QED
    BY <1>12, <2>1, <2>2 DEF gpiod_get_value
<1>13. CASE mod_timer
  <2>1. H({"running", "rearmed"}, <<"mod_timer">>)
    BY <1>13, <1>b DEF mod_timer
  <2>2. todo'["handler"] = << >> /\ todo'["main"] = todo["main"]
    BY <1>13, <1>d, <2>1 DEF mod_timer
  <2> QED
    BY <1>13, <2>1, <2>2 DEF mod_timer
<1> HIDE DEF GpioInv, GpioHandler, GpioMain, Removing, Idle, M, H, Quiet, lockVars, waitVars
<1>14. CASE MainStep
  <2>1. \A s : At("main", s) => s \in {"pinctrl", "gpio", "irq", "queue", "del_timer", "free_irq",
                                       "gpiod_put"}
    BY <1>a
  <2> QED
    BY <2>1, <1>5, <1>6, <1>7, <1>8, <1>9, <1>14 DEF MainStep, Allocations
<1>15. CASE HandlerStep
  <2>1. \A s : At("handler", s) => s \in {"gpiod_get_value", "mod_timer"}
    BY <1>b
  <2> QED
    BY <2>1, <1>10, <1>11, <1>12, <1>13, <1>15 DEF HandlerStep
<1> QED
  BY <1>1, <1>2, <1>3, <1>4, <1>o, <1>14, <1>15, Kinds
-----------------------------------------------------------------------------
(* 06 and 07.  First the critical sections of two activities a and b.      *)

\* A section depends only on the lists, the lock, the data and the counters.
LEMMA SectionKept ==
  ASSUME NEW a \in Actors, Section(a), todo'[a] = todo[a], UNCHANGED lockVars
  PROVE  Section(a)'
BY DEF Section, Whole, lockVars

\* Who takes the lock finds nobody inside.
LEMMA SectionEntered ==
  ASSUME Types, NEW a \in Actors, NEW b \in Actors, a # b, Section(a), Section(b),
         todo[a] = <<"lock", "fill", "unlock">>, lock_data(a)
  PROVE  todo'[a] = <<"fill", "unlock">> /\ todo'[b] = todo[b] /\ Section(a)' /\ Section(b)'
<1>1. todo'[a] = <<"fill", "unlock">> /\ todo'[b] = todo[b]
  <2>1. todo'[a] = Tail(todo[a]) /\ todo'[b] = todo[b]
    BY DoneLists DEF lock_data
  <2> QED
    BY <2>1
<1>2. lock = "free" /\ lock' = a /\ data' = data /\ i' = i /\ i[a] = 0
  BY DEF lock_data, Section
<1>3. Section(a)'
  BY <1>1, <1>2, DeferredAssumption DEF Section
<1>4. todo[b] # <<"fill", "unlock">> /\ todo[b] # <<"unlock">>
  BY <1>2 DEF Section, Actors
<1>5. Section(b)'
  BY <1>1, <1>2, <1>4 DEF Section
<1> QED
  BY <1>1, <1>3, <1>5

\* A character is stored by the holder of the lock, at the next position.
LEMMA SectionFilled ==
  ASSUME Types, prog \in Locks, NEW a \in Actors, NEW b \in Actors, a # b, Section(a), Section(b),
         todo[a] = <<"fill", "unlock">>, fill(a)
  PROVE  /\ todo'[a] \in {<<"fill", "unlock">>, <<"unlock">>} /\ todo'[b] = todo[b]
         /\ i'[b] = i[b] /\ lock' = lock /\ lock = a
         /\ Section(a)' /\ Section(b)'
<1>1. /\ i' = [i EXCEPT ![a] = i[a] + 1] /\ lock' = lock
      /\ data' = [data EXCEPT ![i[a]] = IF i[a] = LEN - 1 THEN "ROSHAN" ELSE a]
      /\ IF i[a] + 1 = LEN THEN Done(a) ELSE todo' = todo
  BY DEF fill, FillEnd, Locks
<1>2. /\ lock = a /\ i[a] < LEN /\ i[a] \in Nat
      /\ \A k \in 0 .. LEN - 2 : k < i[a] => data[k] = a
  BY DeferredAssumption DEF Section, Types, TypeOK
<1>3. i'[a] = i[a] + 1 /\ i'[b] = i[b]
  BY <1>1 DEF Types, TypeOK
<1>4. \A k \in 0 .. LEN - 2 : k < i'[a] => data'[k] = a
  <2> SUFFICES ASSUME NEW k \in 0 .. LEN - 2, k < i[a] + 1
               PROVE  data'[k] = a
    BY <1>3
  <2>1. k \in 0 .. LEN - 1 /\ k # LEN - 1 /\ DOMAIN data = 0 .. LEN - 1
    BY DeferredAssumption DEF Types, TypeOK
  <2>2. CASE k = i[a]
    BY <1>1, <2>1, <2>2
  <2>3. CASE k < i[a]
    BY <1>1, <1>2, <2>1, <2>3
  <2> QED
    BY <1>2, <2>2, <2>3, DeferredAssumption
<1>5. CASE i[a] + 1 = LEN
  <2>1. todo'[a] = <<"unlock">> /\ todo'[b] = todo[b]
    <3>1. todo'[a] = Tail(todo[a]) /\ todo'[b] = todo[b]
      BY <1>1, <1>5, DoneLists
    <3> QED
      BY <3>1
  <2>2. Whole(a)'
    BY <1>3, <1>4, <1>5, DeferredAssumption DEF Whole
  <2>3. Section(a)'
    BY <1>1, <1>2, <2>1, <2>2 DEF Section
  <2> QED
    BY <1>1, <1>2, <1>3, <2>1, <2>3 DEF Section
<1>6. CASE i[a] + 1 # LEN
  <2>1. todo' = todo /\ i'[a] < LEN
    BY <1>1, <1>2, <1>3, <1>6, DeferredAssumption
  <2>2. todo'[a] = <<"fill", "unlock">> /\ lock' = a
    BY <1>1, <1>2, <2>1
  <2>3. Section(a)'
    <3>1. /\ todo'[a] # <<"lock", "fill", "unlock">> /\ todo'[a] # <<"unlock">>
          /\ todo'[a] # << >>
      BY <2>2
    <3>2. i'[a] < LEN
      BY <2>1
    <3> QED
      BY <1>4, <2>2, <3>1, <3>2 DEF Section
  <2> QED
    BY <1>1, <1>2, <1>3, <2>1, <2>3 DEF Section
<1> QED
  BY <1>5, <1>6

\* Who leaves the section leaves a whole name behind.
LEMMA SectionLeft ==
  ASSUME Types, NEW a \in Actors, NEW b \in Actors, a # b, Section(a), Section(b),
         todo[a] = <<"unlock">>, unlock(a)
  PROVE  todo'[a] = << >> /\ todo'[b] = todo[b] /\ Section(a)' /\ Section(b)' /\ DataWhole'
<1>1. todo'[a] = << >> /\ todo'[b] = todo[b]
  <2>1. todo'[a] = Tail(todo[a]) /\ todo'[b] = todo[b]
    BY DoneLists DEF unlock
  <2> QED
    BY <2>1
<1>2. lock = a /\ Whole(a) /\ lock' = "free" /\ data' = data /\ i' = i
  BY DEF unlock, Section
<1>3. Section(a)'
  BY <1>1, <1>2 DEF Section, Actors
<1>4. todo[b] # <<"fill", "unlock">> /\ todo[b] # <<"unlock">>
  BY <1>2 DEF Section
<1>5. Section(b)'
  BY <1>1, <1>2, <1>4 DEF Section, Actors
<1>6. DataWhole'
  BY <1>2 DEF DataWhole, Whole
<1> QED
  BY <1>1, <1>3, <1>5, <1>6

\* What LockInv says where main is about to execute statement s.
LockMainAt(s) ==
  \/ s = "queue" /\ M("loading", <<s, "lock", "fill", "unlock">>)
       /\ h = "none" /\ lock = "free" /\ i["main"] = 0 /\ i["handler"] = 0
  \/ s = "lock" /\ M("loading", <<s, "fill", "unlock">>)
  \/ s = "fill" /\ M("loading", <<s, "unlock">>)
  \/ s = "unlock" /\ M("loading", <<s>>)

\* The same for the handler.
LockHandlerAt(s) ==
  \/ s = "lock" /\ H({"running"}, <<s, "fill", "unlock">>)
  \/ s = "fill" /\ H({"running"}, <<s, "unlock">>)
  \/ s = "unlock" /\ H({"running"}, <<s>>)

\* Where each statement of the init function and of the handler is.
LEMMA LockStatements ==
  ASSUME LockInv
  PROVE  /\ \A s : At("main", s) => LockMainAt(s)
         /\ \A s : At("handler", s) => LockHandlerAt(s)
         /\ \A a, s : At(a, s) => mod \notin {"out", "oops"}
<1> USE DEF LockMainAt, LockHandlerAt, LockInv, LockMain, LockHandler, M, H, At, Running
<1>1. ASSUME NEW s, At("handler", s)
      PROVE  LockHandlerAt(s)
  BY <1>1
<1>2. ASSUME NEW s, At("main", s)
      PROVE  LockMainAt(s)
  BY <1>2
<1>3. \A a, s : At(a, s) => mod \notin {"out", "oops"}
  OBVIOUS
<1> QED
  BY <1>1, <1>2, <1>3

\* Each step of the mutex and spinlock examples keeps LockInv.
LEMMA LockStep ==
  ASSUME Types, prog \in Locks, LockInv, Next
  PROVE  LockInv'
<1>a. \A s : At("main", s) => LockMainAt(s)
  BY LockStatements
<1>b. \A s : At("handler", s) => LockHandlerAt(s)
  BY LockStatements
<1>c. Done("main") => todo'["main"] = Tail(todo["main"]) /\ todo'["handler"] = todo["handler"]
  BY DoneLists DEF Actors
<1>d. ASSUME NEW a, NEW s, At(a, s)
      PROVE  /\ mod \notin {"out", "oops"} /\ Section("main") /\ Section("handler")
             /\ h = "queued" => i["handler"] = 0
  BY <1>d, LockStatements DEF LockInv, Sections
<1>e. "main" \in Actors /\ "handler" \in Actors /\ "main" # "handler"
  BY DEF Actors
<1>f. heap = {} /\ DataWhole /\ LockHandler /\ LockMain /\ Sections
  BY DEF LockInv
<1> USE DEF LockMainAt, LockHandlerAt
<1> USE DEF LockHandler, LockMain, M, H, lockVars, waitVars
<1>1. CASE load
  <2>1. /\ todo'["main"] = <<"queue", "lock", "fill", "unlock">> /\ todo'["handler"] = << >>
        /\ mod' = "loading" /\ h' = "none" /\ lock' = "free" /\ heap' = {}
        /\ i'["main"] = 0 /\ i'["handler"] = 0
    BY <1>1, <1>f DEF load, InitOf, mutex_prog_init, spinlock_prog_init, Locks, Types, Actors
  <2>2. DataWhole'
    BY <1>1, DeferredAssumption DEF load, DataWhole, Unwritten
  <2>3. Sections'
    BY <2>1 DEF Sections, Section
  <2> QED
    BY <2>1, <2>2, <2>3 DEF LockInv
<1>2. CASE start_exit
  <2>1. /\ todo'["main"] = << >> /\ todo'["handler"] = todo["handler"] /\ mod' = "unloading"
        /\ UNCHANGED <<h, lock, data, i, heap>>
    BY <1>2 DEF start_exit, Bound, ExitOf, mutex_prog_exit, spinlock_prog_exit, Locks, Types, Actors
  <2>2. todo["main"] = << >> /\ mod \notin {"out", "oops"}
    BY <1>2, <1>f DEF start_exit
  <2>3. Section("main")' /\ Section("handler")'
    BY <1>e, <1>f, <2>1, <2>2, SectionKept DEF Sections
  <2> QED
    BY <1>f, <2>1, <2>2, <2>3 DEF LockInv, Sections, DataWhole
<1>3. ~start_probe /\ ~start_remove
  BY DEF start_probe, start_remove, Bound, Locks
<1>4. CASE stray
  <2>1. /\ \/ mod' = "oops" /\ h' = h /\ todo' = todo
           \/ mod' = "out" /\ h' = "none" /\ todo'["handler"] = << >>
        /\ heap' = {} /\ UNCHANGED <<lock, data, i>>
    BY <1>4, <1>f DEF stray, Locks, Types, Actors
  <2> QED
    BY <1>f, <2>1 DEF LockInv, Sections, DataWhole
<1>o. CASE old_stray
  <2>1. mod' \in {mod, "oops"} /\ UNCHANGED <<h, todo, lock, data, i, heap>>
    BY <1>o DEF old_stray
  <2>2. Sections'
    BY <1>f, <2>1 DEF Sections, Section, Whole
  <2> QED
    BY <1>f, <2>1, <2>2 DEF LockInv, DataWhole
<1>5. CASE init_return \/ exit_return
  <2>1. /\ todo' = todo /\ UNCHANGED <<h, lock, data, i, heap>> /\ todo["main"] = << >>
        /\ mod' \in {"loaded", "out"} /\ mod \notin {"out", "oops"}
    BY <1>5 DEF init_return, exit_return
  <2>2. Section("main")' /\ Section("handler")'
    BY <1>e, <1>f, <2>1, SectionKept DEF Sections
  <2> QED
    BY <1>f, <2>1, <2>2 DEF LockInv, Sections, DataWhole
<1>6. CASE queue
  <2>1. /\ M("loading", <<"queue", "lock", "fill", "unlock">>)
        /\ h = "none" /\ lock = "free" /\ i["main"] = 0 /\ i["handler"] = 0
    BY <1>6, <1>a DEF queue
  <2>2. /\ mod' = mod /\ h' = "queued" /\ UNCHANGED <<lock, data, i, heap>>
        /\ todo'["main"] = <<"lock", "fill", "unlock">> /\ todo'["handler"] = todo["handler"]
    BY <1>6, <1>c, <2>1 DEF queue, Locks
  <2>3. Section("handler")'
    BY <1>e, <1>f, <2>1, <2>2, SectionKept DEF Sections
  <2>4. Section("main")'
    BY <2>1, <2>2 DEF Section
  <2> QED
    BY <1>f, <2>1, <2>2, <2>3, <2>4 DEF LockInv, Sections, DataWhole
<1>7. CASE lock_interrupted
  <2>1. mod' = "out" /\ UNCHANGED <<h, lock, data, i, heap>> /\ todo'["handler"] = todo["handler"]
    BY <1>7 DEF lock_interrupted, Types, Actors
  <2> QED
    BY <1>f, <2>1 DEF LockInv, Sections, DataWhole
<1>8. CASE run
  <2>1. /\ todo'["main"] = todo["main"] /\ todo'["handler"] = <<"lock", "fill", "unlock">>
        /\ h = "queued" /\ h' = "running" /\ mod \notin {"out", "oops"}
        /\ UNCHANGED <<mod, lock, data, i, heap>>
    BY <1>8 DEF run, HandlerOf, mutex_work_handler, spinlock_work_handler, Locks, Types, Actors
  <2>2. Section("main")'
    BY <1>e, <1>f, <2>1, SectionKept DEF Sections
  <2>3. Section("handler")'
    BY <1>f, <2>1 DEF Sections, Section
  <2> QED
    BY <1>f, <2>1, <2>2, <2>3 DEF LockInv, Sections, DataWhole
<1>9. CASE handler_return
  <2>1. /\ todo' = todo /\ h' = "none" /\ todo["handler"] = << >> /\ mod \notin {"out", "oops"}
        /\ UNCHANGED <<mod, lock, data, i, heap>>
    BY <1>9, <1>f DEF handler_return, Running
  <2>2. Section("main")' /\ Section("handler")'
    BY <1>e, <1>f, <2>1, SectionKept DEF Sections
  <2> QED
    BY <1>f, <2>1, <2>2 DEF LockInv, Sections, DataWhole
<1>10. CASE lock_data("main")
  <2>0. At("main", "lock")
    BY <1>10 DEF lock_data
  <2>1. M("loading", <<"lock", "fill", "unlock">>) /\ UNCHANGED <<mod, h, heap, i, data>>
    BY <1>10, <1>a, <2>0 DEF lock_data
  <2>2. /\ todo'["main"] = <<"fill", "unlock">> /\ todo'["handler"] = todo["handler"]
        /\ Section("main")' /\ Section("handler")'
    BY <1>10, <1>d, <1>e, <2>0, <2>1, SectionEntered
  <2>3. DataWhole'
    BY <1>10 DEF lock_data, DataWhole
  <2> QED
    BY <1>d, <1>f, <2>0, <2>1, <2>2, <2>3 DEF LockInv, Sections
<1>11. CASE fill("main")
  <2>0. At("main", "fill")
    BY <1>11 DEF fill
  <2>1. M("loading", <<"fill", "unlock">>) /\ UNCHANGED <<mod, h, heap>>
    BY <1>11, <1>a, <2>0 DEF fill
  <2>2. /\ todo'["main"] \in {<<"fill", "unlock">>, <<"unlock">>}
        /\ todo'["handler"] = todo["handler"]
        /\ i'["handler"] = i["handler"] /\ lock' = "main"
        /\ Section("main")' /\ Section("handler")'
    BY <1>11, <1>d, <1>e, <2>0, <2>1, SectionFilled
  <2>3. DataWhole'
    BY <2>2 DEF DataWhole
  <2> QED
    BY <1>d, <1>f, <2>0, <2>1, <2>2, <2>3 DEF LockInv, Sections
<1>12. CASE unlock("main")
  <2>0. At("main", "unlock")
    BY <1>12 DEF unlock
  <2>1. M("loading", <<"unlock">>) /\ UNCHANGED <<mod, h, heap, i>>
    BY <1>12, <1>a, <2>0 DEF unlock
  <2>2. /\ todo'["main"] = << >> /\ todo'["handler"] = todo["handler"]
        /\ Section("main")' /\ Section("handler")' /\ DataWhole'
    BY <1>12, <1>d, <1>e, <2>0, <2>1, SectionLeft
  <2> QED
    BY <1>d, <1>f, <2>0, <2>1, <2>2 DEF LockInv, Sections
<1>13. CASE lock_data("handler")
  <2>0. At("handler", "lock")
    BY <1>13 DEF lock_data
  <2>1. H({"running"}, <<"lock", "fill", "unlock">>) /\ UNCHANGED <<mod, h, heap, i, data>>
    BY <1>13, <1>b, <2>0 DEF lock_data
  <2>2. /\ todo'["handler"] = <<"fill", "unlock">> /\ todo'["main"] = todo["main"]
        /\ Section("main")' /\ Section("handler")'
    BY <1>13, <1>d, <1>e, <2>0, <2>1, SectionEntered
  <2>3. DataWhole'
    BY <1>13 DEF lock_data, DataWhole
  <2> QED
    BY <1>d, <1>f, <2>0, <2>1, <2>2, <2>3 DEF LockInv, Sections
<1>14. CASE fill("handler")
  <2>0. At("handler", "fill")
    BY <1>14 DEF fill
  <2>1. H({"running"}, <<"fill", "unlock">>) /\ UNCHANGED <<mod, h, heap>>
    BY <1>14, <1>b, <2>0 DEF fill
  <2>2. /\ todo'["handler"] \in {<<"fill", "unlock">>, <<"unlock">>}
        /\ todo'["main"] = todo["main"]
        /\ i'["main"] = i["main"] /\ lock' = "handler"
        /\ Section("main")' /\ Section("handler")'
    BY <1>14, <1>d, <1>e, <2>0, <2>1, SectionFilled
  <2>3. DataWhole'
    BY <2>2 DEF DataWhole
  <2> QED
    BY <1>d, <1>f, <2>0, <2>1, <2>2, <2>3 DEF LockInv, Sections
<1>15. CASE unlock("handler")
  <2>0. At("handler", "unlock")
    BY <1>15 DEF unlock
  <2>1. H({"running"}, <<"unlock">>) /\ UNCHANGED <<mod, h, heap, i>>
    BY <1>15, <1>b, <2>0 DEF unlock
  <2>2. /\ todo'["handler"] = << >> /\ todo'["main"] = todo["main"]
        /\ Section("main")' /\ Section("handler")' /\ DataWhole'
    BY <1>15, <1>d, <1>e, <2>0, <2>1, SectionLeft
  <2> QED
    BY <1>d, <1>f, <2>0, <2>1, <2>2 DEF LockInv, Sections
<1> HIDE DEF LockHandler, LockMain, M, H, lockVars, waitVars
<1>16. CASE MainStep
  <2>1. \A s : At("main", s) => s \in {"queue", "lock", "fill", "unlock"}
    BY <1>a
  <2> QED
    BY <2>1, <1>5, <1>6, <1>7, <1>10, <1>11, <1>12, <1>16 DEF MainStep, Allocations
<1>17. CASE HandlerStep
  <2>1. \A s : At("handler", s) => s \in {"lock", "fill", "unlock"}
    BY <1>b
  <2> QED
    BY <2>1, <1>8, <1>9, <1>13, <1>14, <1>15, <1>17 DEF HandlerStep
<1> QED
  BY <1>1, <1>2, <1>3, <1>4, <1>o, <1>16, <1>17, Kinds
-----------------------------------------------------------------------------
(* The invariant.                                                          *)

\* No loop goes on when its counter has reached LEN.
LEMMA FillBound ==
  ASSUME Inv, NEW a \in Actors, At(a, "fill")
  PROVE  i[a] < LEN
<1>1. CASE prog \in Locks
  <2>1. LockInv
    BY <1>1 DEF Inv, Groups
  <2>2. todo[a] = <<"fill", "unlock">>
    BY <2>1, LockStatements DEF LockMainAt, LockHandlerAt, Actors, M, H
  <2>3. Section(a)
    BY <2>1, LockStatements DEF LockInv, Sections, Actors
  <2> QED
    BY <2>2, <2>3 DEF Section
<1>2. CASE prog \in Works
  <2>1. WorkInv
    BY <1>2 DEF Inv, Groups
  <2>2. ~At("handler", "fill") /\ (At("main", "fill") => i["main"] < LEN)
    BY <2>1, WorkStatements DEF WorkMainAt, M, H
  <2> QED
    BY <2>2 DEF Actors
<1>3. CASE prog \in Timers
  <2>1. TimerInv
    BY <1>3 DEF Inv, Groups
  <2>2. ~At("handler", "fill") /\ ~At("main", "fill")
    BY <1>3, <2>1, TimerStatements DEF TimerMainAt, M
  <2> QED
    BY <2>2 DEF Actors
<1>4. CASE prog = "wait_queue"
  <2>1. WaitInv
    BY <1>4 DEF Inv, Groups
  <2>2. ~At("handler", "fill") /\ ~At("main", "fill")
    BY <1>4, <2>1, WaitStatements DEF WaitMainAt, WaitHandlerAt, M, H
  <2> QED
    BY <2>2 DEF Actors
<1>5. CASE prog = "gpio_interrupt"
  <2>1. GpioInv
    BY <1>5 DEF Inv, Groups
  <2>2. ~At("handler", "fill") /\ ~At("main", "fill")
    BY <1>5, <2>1, GpioStatements DEF GpioMainAt, GpioHandlerAt, M, H, Removing
  <2> QED
    BY <2>2 DEF Actors
<1> QED
  BY <1>1, <1>2, <1>3, <1>4, <1>5, DeferredAssumption
     DEF Inv, Types, TypeOK, AllPrograms, Locks, Works, Timers

\* Each step keeps the types.
LEMMA TypeStep ==
  ASSUME Inv, Next
  PROVE  TypeOK' /\ prog' = prog
<1>1. TypeOK
  BY DEF Inv, Types
<1> USE DEF TypeOK, lockVars, waitVars, Allocations
<1>2. CASE load
  <2>1. i' \in [Actors -> 0 .. LEN]
    BY <1>2, DeferredAssumption DEF load
  <2>2. data' \in [0 .. LEN - 1 -> {"ROSHAN"} \cup Actors]
    BY <1>2 DEF load, Unwritten
  <2> QED
    BY <1>1, <1>2, <2>1, <2>2 DEF load
<1>3. CASE start_exit \/ start_probe \/ start_remove \/ stray \/ old_stray
  <2>1. CASE start_exit
    BY <1>1, <2>1 DEF start_exit
  <2>2. CASE start_probe
    BY <1>1, <2>2 DEF start_probe
  <2>3. CASE start_remove
    BY <1>1, <2>3 DEF start_remove
  <2>4. CASE stray
    BY <1>1, <2>4 DEF stray
  <2>5. CASE old_stray
    BY <1>1, <2>5 DEF old_stray
  <2> QED
    BY <1>3, <2>1, <2>2, <2>3, <2>4, <2>5
<1>4. CASE init_return \/ exit_return \/ queue \/ del_timer \/ hrtimer_cancel \/ wait_until_idle
  <2>1. CASE init_return \/ exit_return
    BY <1>1, <2>1 DEF init_return, exit_return
  <2>2. CASE queue
    BY <1>1, <2>2 DEF queue
  <2>3. CASE del_timer
    BY <1>1, <2>3 DEF del_timer
  <2>4. CASE hrtimer_cancel
    BY <1>1, <2>4 DEF hrtimer_cancel
  <2>5. CASE wait_until_idle
    BY <1>1, <2>5 DEF wait_until_idle
  <2> QED
    BY <1>4, <2>1, <2>2, <2>3, <2>4, <2>5
<1>5. CASE prepare \/ test \/ wait_interrupted \/ lock_interrupted
  <2>1. CASE prepare
    BY <1>1, <2>1 DEF prepare
  <2>2. CASE test
    BY <1>1, <2>2 DEF test
  <2>3. CASE wait_interrupted
    BY <1>1, <2>3 DEF wait_interrupted
  <2>4. CASE lock_interrupted
    BY <1>1, <2>4 DEF lock_interrupted
  <2> QED
    BY <1>5, <2>1, <2>2, <2>3, <2>4
<1>6. ASSUME NEW a \in Actors, lock_data(a) \/ unlock(a)
      PROVE  TypeOK' /\ prog' = prog
  <2>1. CASE lock_data(a)
    BY <1>1, <2>1 DEF lock_data
  <2>2. CASE unlock(a)
    BY <1>1, <2>2 DEF unlock
  <2> QED
    BY <1>6, <2>1, <2>2
<1>7. ASSUME NEW a \in Actors, fill(a)
      PROVE  TypeOK' /\ prog' = prog
  <2>1. i[a] < LEN
    BY <1>7, FillBound DEF fill
  <2>2. i' \in [Actors -> 0 .. LEN]
    BY <1>1, <1>7, <2>1, DeferredAssumption DEF fill
  <2>3. data' \in [0 .. LEN - 1 -> {"ROSHAN"} \cup Actors]
    BY <1>1, <1>7 DEF fill
  <2> QED
    BY <1>1, <1>7, <2>2, <2>3 DEF fill
<1>8. ASSUME NEW s \in Allocations, alloc(s) \/ alloc_failed(s)
      PROVE  TypeOK' /\ prog' = prog
  <2>1. CASE alloc(s)
    BY <1>1, <2>1 DEF alloc
  <2>2. CASE alloc_failed(s)
    BY <1>1, <2>2 DEF alloc_failed
  <2> QED
    BY <1>8, <2>1, <2>2
<1>9. ASSUME NEW s \in {"pinctrl", "gpio", "irq"}, gpio_probe(s)
      PROVE  TypeOK' /\ prog' = prog
  <2>1. heap' \subseteq Allocations \cup {"gpio", "irq"}
    BY <1>1, <1>9 DEF gpio_probe
  <2>2. UNCHANGED <<prog, old, escaped, mod, h, lock, data, i, condition, sleeper, interrupted>>
    BY <1>9 DEF gpio_probe
  <2> QED
    BY <1>1, <2>1, <2>2
<1>10. ASSUME NEW s \in {"free_irq", "gpiod_put"}, gpio_remove(s)
       PROVE  TypeOK' /\ prog' = prog
  <2>1. heap' \subseteq Allocations \cup {"gpio", "irq"}
    BY <1>1, <1>10 DEF gpio_remove
  <2>2. UNCHANGED <<prog, old, escaped, mod, h, lock, data, i, condition, sleeper, interrupted>>
    BY <1>10 DEF gpio_remove
  <2> QED
    BY <1>1, <2>1, <2>2
<1>11. CASE run \/ handler_return \/ set_condition \/ wake_up
  <2>1. CASE run
    BY <1>1, <2>1 DEF run
  <2>2. CASE handler_return
    BY <1>1, <2>2 DEF handler_return
  <2>3. CASE set_condition
    BY <1>1, <2>3 DEF set_condition
  <2>4. CASE wake_up
    BY <1>1, <2>4 DEF wake_up
  <2> QED
    BY <1>11, <2>1, <2>2, <2>3, <2>4
<1>12. CASE kfree \/ gpiod_get_value \/ mod_timer
  <2>1. CASE kfree
    BY <1>1, <2>1 DEF kfree
  <2>2. CASE gpiod_get_value
    BY <1>1, <2>2 DEF gpiod_get_value
  <2>3. CASE mod_timer
    BY <1>1, <2>3 DEF mod_timer
  <2> QED
    BY <1>12, <2>1, <2>2, <2>3
<1> HIDE DEF TypeOK, lockVars, waitVars, Allocations
<1> QED
  BY <1>2, <1>3, <1>4, <1>5, <1>6, <1>7, <1>8, <1>9, <1>10, <1>11, <1>12
     DEF Next, Main, Handler, Actors

\* The examples start with nothing loaded.
LEMMA InvInit == Init => Inv
<1> SUFFICES ASSUME Init PROVE Inv
  OBVIOUS
<1>1. TypeOK
  BY DeferredAssumption DEF Init, TypeOK, Unwritten
<1>2. todo = [a \in Actors |-> todo[a]] /\ todo["handler"] = << >> /\ Quiet
  BY DEF Init, Actors, Quiet
<1>3. DataWhole
  BY DeferredAssumption DEF Init, DataWhole, Unwritten
<1>4. TimerInv /\ WaitInv /\ GpioInv
  BY <1>2 DEF Init, TimerInv, Stopped, WaitInv, WaitHandler, WaitMain, Over, GpioInv, GpioHandler,
     GpioMain, Idle, H
<1>5. WorkInv
  BY <1>2 DEF Init, WorkInv, WorkHandler, WorkMain, WorkEnd, Freed, H
<1>6. LockInv
  BY <1>2, <1>3 DEF Init, LockInv, LockHandler, LockMain, Sections, H
<1> QED
  BY <1>1, <1>2, <1>4, <1>5, <1>6 DEF Inv, Types, Groups

\* Every step keeps the invariant.
LEMMA InvStep == Inv /\ [Next]_vars => Inv'
<1>1. ASSUME Inv, Next
      PROVE  Inv'
  <2>1. TypeOK' /\ prog' = prog
    BY <1>1, TypeStep
  <2>2. Types /\ Types'
    BY <1>1, <2>1, TodoStep DEF Inv, Types
  <2>3. Groups'
    BY <1>1, <2>1, <2>2, TimerStep, WaitStep, LockStep, WorkStep, GpioStep DEF Inv, Groups
  <2> QED
    BY <2>2, <2>3 DEF Inv
<1>2. ASSUME Inv, UNCHANGED vars
      PROVE  Inv'
  <2> USE <1>2 DEF vars, M, H
  <2>1. Types'
    BY DEF Inv, Types, TypeOK
  <2>2. (prog \in Timers => TimerInv)' /\ (prog = "wait_queue" => WaitInv)'
    BY DEF Inv, Groups, TimerInv, Stopped, WaitInv, WaitHandler, WaitMain, Over, Quiet
  <2>3. (prog \in Works => WorkInv)'
    BY DEF Inv, Groups, WorkInv, WorkHandler, WorkMain, WorkEnd, Freed, Quiet
  <2>4. (prog = "gpio_interrupt" => GpioInv)'
    BY DEF Inv, Groups, GpioInv, GpioHandler, GpioMain, Removing, Idle, Quiet
  <2>5. (prog \in Locks => LockInv)'
    BY DEF Inv, Groups, LockInv, DataWhole, LockHandler, LockMain, Sections, Section, Whole
  <2> QED
    BY <2>1, <2>2, <2>3, <2>4, <2>5 DEF Inv, Groups
<1> QED
  BY <1>1, <1>2

\* What holds before each statement, for every example.
THEOREM InvCorrect == Spec => []Inv
BY InvInit, InvStep, PTL DEF Spec

-----------------------------------------------------------------------------
(* The properties.                                                         *)

(***************************************************************************)
(* Every state is well typed: the index of the loops of 06, 07, 09 and 10  *)
(* never exceeds LEN, whatever the two activities do.  LEN is the size of  *)
(* data in 06 and 07; it says nothing of attr in 09 and 10, for which      *)
(* kmalloc is asked for sizeof(LEN) bytes only.                            *)
(***************************************************************************)
THEOREM TypesCorrect == Spec => []TypeOK
<1>1. Inv => TypeOK
  BY DEF Inv, Types
<1> QED
  BY <1>1, InvCorrect, PTL

(***************************************************************************)
(* data_mutex and data_spinlock work: when nobody is in the critical       *)
(* section the name is whole, for a name of any length.                    *)
(***************************************************************************)
THEOREM DataCorrect == Spec => []DataWhole
<1>1. ASSUME Quiet
      PROVE  DataWhole
  BY <1>1, DeferredAssumption DEF Quiet, DataWhole, Unwritten
<1>2. Inv => DataWhole
  BY <1>1, DeferredAssumption DEF Inv, Groups, Types, TypeOK, AllPrograms, Timers, Locks, Works,
     TimerInv, WaitInv, LockInv, WorkInv, GpioInv
<1> QED
  BY <1>2, InvCorrect, PTL

(***************************************************************************)
(* A deferred function outlives its module in the listed ways and in no    *)
(* other.                                                                  *)
(***************************************************************************)
THEOREM StraysCorrect == Spec => []OnlyKnownStrays
<1>1. ASSUME Inv, mod = "out", h # "none"
      PROVE  \/ prog \in {"mutex", "spinlock", "shared_wq"}
             \/ prog = "std_timer" /\ h = "running"
             \/ prog = "gpio_interrupt" /\ escaped
             \/ prog = "wait_queue" /\ (interrupted \/ (condition /\ h = "running"))
  <2>1. prog \in Timers \cup Locks \cup Works \cup {"wait_queue", "gpio_interrupt"}
    BY <1>1, DeferredAssumption DEF Inv, Types, TypeOK, AllPrograms, Timers, Locks, Works
  <2>2. CASE prog \in Timers
    BY <1>1, <2>2 DEF Inv, Groups, TimerInv, M, Stopped, Timers
  <2>3. CASE prog = "wait_queue"
    BY <1>1, <2>3 DEF Inv, Groups, WaitInv, WaitMain, M, Over
  <2>4. CASE prog \in Works
    BY <1>1, <2>4 DEF Inv, Groups, WorkInv, WorkMain, WorkEnd, M, Works
  <2>5. CASE prog = "gpio_interrupt"
    BY <1>1, <2>5 DEF Inv, Groups, GpioInv, GpioMain, M, Removing, Idle
  <2> QED
    BY <2>1, <2>2, <2>3, <2>4, <2>5 DEF Locks
<1>2. Inv => OnlyKnownStrays
  BY <1>1 DEF OnlyKnownStrays
<1> QED
  BY <1>2, InvCorrect, PTL

(***************************************************************************)
(* Only a callback that was running at del_timer meets a GPIO that has     *)
(* been put, or a probe that sets its timer up again (16).                 *)
(***************************************************************************)
THEOREM StaleTimerCorrect == Spec => []StaleTimerOnlyEscaped
<1>1. ASSUME Inv, prog = "gpio_interrupt"
      PROVE  /\ h \in {"running", "rearmed"} /\ "gpio" \notin heap => escaped
             /\ At("main", "queue") /\ h # "none" => escaped
  <2>1. GpioInv
    BY <1>1 DEF Inv, Groups
  <2>2. At("main", "queue") => Idle
    BY <2>1, GpioStatements DEF GpioMainAt
  <2> QED
    BY <2>1, <2>2 DEF GpioInv, Idle
<1>2. Inv => StaleTimerOnlyEscaped
  BY <1>1 DEF StaleTimerOnlyEscaped
<1> QED
  BY <1>2, InvCorrect, PTL

(***************************************************************************)
(* When a module is gone and its deferred function has run, only the attr  *)
(* string of 09 and 10 is still allocated.                                 *)
(***************************************************************************)
THEOREM LeaksCorrect == Spec => []LeaksOnlyAttr
<1>1. ASSUME Inv, mod = "out", h = "none"
      PROVE  heap \subseteq {"attr"}
  <2>1. prog \in Timers \cup Locks \cup Works \cup {"wait_queue", "gpio_interrupt"}
    BY <1>1, DeferredAssumption DEF Inv, Types, TypeOK, AllPrograms, Timers, Locks, Works
  <2>2. CASE prog \in Timers \cup Locks \cup {"wait_queue"}
    BY <1>1, <2>2 DEF Inv, Groups, TimerInv, LockInv, WaitInv
  <2>3. CASE prog \in Works
    BY <1>1, <2>3 DEF Inv, Groups, WorkInv, WorkMain, WorkEnd, Freed, M, Allocations
  <2>4. CASE prog = "gpio_interrupt"
    BY <1>1, <2>4 DEF Inv, Groups, GpioInv, GpioMain, M, Removing
  <2> QED
    BY <2>1, <2>2, <2>3, <2>4
<1>2. Inv => LeaksOnlyAttr
  BY <1>1 DEF LeaksOnlyAttr
<1> QED
  BY <1>2, InvCorrect, PTL
=============================================================================
