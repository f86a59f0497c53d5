------------------------------- MODULE Timer --------------------------------
(***************************************************************************)
(* The timers of src/common/timer.c and the loop of src/common/core.c that *)
(* runs them: do_timer runs what is due, do_sockets sleeps for at most the *)
(* time do_timer returned and handles packets.  Ticks are unsigned and     *)
(* wrap around; the ghost variable `left` keeps the true time until each   *)
(* deadline, which no tick can show.                                       *)
(***************************************************************************)
EXTENDS Heap

CONSTANTS MaxTimers,    \* bound: timer ids in use at once
          Func,         \* the timer functions
          NULL,         \* the function of a deleted timer
          TickMod,      \* ticks count modulo this number (2^32 in the code)
          Delays,       \* how far ahead callers set timers
          Intervals,    \* the periods callers ask for
          LateAfter,    \* a timer more than this late is run with the current tick (1000 ms)
          MinInterval,  \* TIMER_MIN_INTERVAL
          MaxInterval,  \* TIMER_MAX_INTERVAL
          Work,         \* bound: how long the functions called in one pass take
          PacketWork    \* bound: how long a round of packets takes

ASSUME TimerAssumption ==
  /\ MaxTimers \in Nat /\ NULL \notin Func
  /\ TickMod \in Nat \ {0} /\ TickMod % 2 = 0
  /\ Delays \subseteq Nat \ {0} /\ Intervals \subseteq Nat \ {0}
  /\ {LateAfter, MinInterval, MaxInterval, Work, PacketWork} \subseteq Nat
  /\ 1 <= MinInterval /\ MinInterval <= MaxInterval

\* The longest a due timer waits for its turn.
Lateness == MinInterval + 2 * Work + PacketWork

\* Ticks can be compared as long as they are within half their range of each
\* other, which is 24 days.
ASSUME TickAssumption ==
  /\ Delays \union Intervals # {}
  /\ \A d \in Delays \union Intervals : d + Lateness < TickMod \div 2

VARIABLES timer_data,       \* struct TimerData by id
          timer_heap,       \* ids by deadline
          timer_data_num,   \* ids ever used
          free_timer_list,  \* ids to use again, the last one first
          running,          \* the timer whose function do_timer called
          tick,             \* gettick()
          next,             \* phase of the main loop: callbacks, select, packets
          budget,           \* time the phase may still take
          pass,             \* the time since do_timer read its tick
          left,             \* ghost: true time until each deadline
          lost              \* ghost: ids that deleted themselves while they ran

timerVars == <<timer_data, timer_heap, timer_data_num, free_timer_list, running,
               tick, next, budget, pass, left, lost>>

Tid == 0 .. MaxTimers - 1
INVALID_TIMER == -1
ONCE == "TIMER_ONCE_AUTODEL"
INTERVAL == "TIMER_INTERVAL"
FREE == "0"

TimerData == [tick : 0 .. TickMod - 1, func : Func \union {NULL},
              type : {FREE, ONCE, INTERVAL}, removed : BOOLEAN, interval : Intervals \union {0}]

\* DIFF_TICK: the difference of two ticks as a signed number.
DIFF_TICK(a, b) ==
  LET d == (a - b) % TickMod IN IF d < TickMod \div 2 THEN d ELSE d - TickMod

HeapIds == {timer_heap[i] : i \in DOMAIN timer_heap}
FreeIds == {free_timer_list[i] : i \in DOMAIN free_timer_list}

(* Mutant: ticks are compared as plain numbers. *)
MinTop_Unsigned(data, a, b) == data[a].tick - data[b].tick

\* DIFFTICK_MINTOPCMP
MinTop(data, a, b) == DIFF_TICK(data[a].tick, data[b].tick)

ByTick(data) == [p \in Tid \X Tid |-> MinTop(data, p[1], p[2])]
PushTimer(h, t, data) == HeapPush(h, t, ByTick(data))
PopTimer(h, i, data) == HeapPopIndex(h, i, ByTick(data))

\* An unused entry: what remains in one that was used is not read again.
NoTimer == [tick |-> 0, func |-> NULL, type |-> FREE, removed |-> FALSE, interval |-> 0]

TimerInit ==
  /\ timer_data = [t \in Tid |-> NoTimer]
  /\ timer_heap = <<>> /\ timer_data_num = 0 /\ free_timer_list = <<>>
  /\ running = INVALID_TIMER
  /\ tick \in 0 .. TickMod - 1
  /\ next = "packets" /\ budget = PacketWork /\ pass = 0
  /\ left = [t \in Tid |-> 0] /\ lost = {}

\* Packets are handled and functions called one at a time; both use timers.
Caller == next = "packets" \/ running # INVALID_TIMER

\* The id a new timer gets.
acquire_timer ==
  IF free_timer_list # <<>> THEN free_timer_list[Len(free_timer_list)] ELSE timer_data_num

Started(t, delay, type, func, interval) ==
  /\ free_timer_list' = IF free_timer_list = <<>> THEN <<>>
                        ELSE SubSeq(free_timer_list, 1, Len(free_timer_list) - 1)
  /\ timer_data_num' = IF t = timer_data_num THEN t + 1 ELSE timer_data_num
  /\ timer_data' = [timer_data EXCEPT ![t] =
       [tick |-> (tick + delay) % TickMod, func |-> func, type |-> type,
        removed |-> FALSE, interval |-> interval]]
  /\ timer_heap' = PushTimer(timer_heap, t, timer_data')
  /\ left' = [left EXCEPT ![t] = delay]
  /\ UNCHANGED <<running, tick, next, budget, pass, lost>>

add_timer ==
  /\ Caller
  /\ acquire_timer \in Tid
  /\ \E func \in Func, delay \in Delays : Started(acquire_timer, delay, ONCE, func, 0)

add_timer_interval ==
  /\ Caller
  /\ acquire_timer \in Tid
  /\ \E func \in Func, delay \in Delays, interval \in Intervals :
       Started(acquire_timer, delay, INTERVAL, func, interval)

\* A caller deletes a timer it still has, perhaps the one that is running:
\* the flag that says so is overwritten with the type.
delete_timer(t) ==
  /\ Caller
  /\ t \in HeapIds \union {running}
  /\ timer_data[t].func # NULL
  /\ timer_data' = [timer_data EXCEPT ![t] =
       [tick |-> timer_data[t].tick, func |-> NULL, type |-> ONCE, removed |-> FALSE, interval |-> 0]]
  /\ UNCHANGED <<timer_heap, timer_data_num, free_timer_list, running, tick, next,
                 budget, pass, left, lost>>

(* Mutant: the timer is pushed again without being taken out. *)
settick_timer_NoPop(t, to, remain) ==
  /\ Caller /\ t \in HeapIds
  /\ timer_data' = [timer_data EXCEPT ![t].tick = to]
  /\ timer_heap' = PushTimer(timer_heap, t, timer_data')
  /\ left' = [left EXCEPT ![t] = remain]
  /\ UNCHANGED <<timer_data_num, free_timer_list, running, tick, next, budget, pass, lost>>

\* A timer outside the heap is not found; the tick that reads as the error
\* value is moved by one.
settick_timer(t, to, remain) ==
  LET error == to = TickMod - 1
      moved == IF error THEN 0 ELSE to
      place == CHOOSE i \in DOMAIN timer_heap : timer_heap[i] = t
  IN  /\ Caller
      /\ t \in HeapIds
      /\ timer_data[t].func # NULL
      /\ timer_data[t].tick # moved
      /\ timer_data' = [timer_data EXCEPT ![t].tick = moved]
      /\ timer_heap' = PushTimer(PopTimer(timer_heap, place, timer_data), t, timer_data')
      /\ left' = [left EXCEPT ![t] = IF error THEN remain + 1 ELSE remain]
      /\ UNCHANGED <<timer_data_num, free_timer_list, running, tick, next, budget, pass, lost>>

SetTick == \E t \in Tid, d \in Delays : settick_timer(t, (tick + d) % TickMod, d)
AddTick == \E t \in Tid, d \in Delays :
             /\ left[t] + d \in Delays
             /\ settick_timer(t, (timer_data[t].tick + d) % TickMod, left[t] + d)

\* do_timer reads the clock once.
DoTimer ==
  /\ next = "packets"
  /\ next' = "callbacks" /\ budget' = Work /\ pass' = 0
  /\ UNCHANGED <<timer_data, timer_heap, timer_data_num, free_timer_list, running, tick, left, lost>>

PassTick == (tick - pass) % TickMod

(* Mutant: expiry is a comparison of plain numbers. *)
Due_Unsigned == timer_heap # <<>> /\ timer_data[timer_heap[1]].tick <= PassTick

Due == timer_heap # <<>> /\ DIFF_TICK(timer_data[timer_heap[1]].tick, PassTick) <= 0

Freed(t) == [timer_data EXCEPT ![t] = NoTimer]

\* The top timer is due: it leaves the heap before its function is called.
Top(t) ==
  /\ next = "callbacks" /\ running = INVALID_TIMER
  /\ Due /\ t = timer_heap[1]
  /\ timer_heap' = PopTimer(timer_heap, 1, timer_data)

Pop(t) ==
  /\ Top(t)
  /\ timer_data[t].func # NULL
  /\ timer_data' = [timer_data EXCEPT ![t].removed = TRUE]
  /\ running' = t
  /\ UNCHANGED <<timer_data_num, free_timer_list, tick, next, budget, pass, left, lost>>

\* A timer deleted before it was due only gives its id back.
Discard(t) ==
  /\ Top(t)
  /\ timer_data[t].func = NULL
  /\ timer_data' = Freed(t)
  /\ free_timer_list' = Append(free_timer_list, t)
  /\ left' = [left EXCEPT ![t] = 0]
  /\ UNCHANGED <<timer_data_num, running, tick, next, budget, pass, lost>>

Late(t) == DIFF_TICK(timer_data[t].tick, PassTick) < -LateAfter

\* The function returned and "didn't change anything": a single timer is
\* free again, a periodic one goes back into the heap.
Release ==
  /\ timer_data[running].type = ONCE
  /\ timer_data' = Freed(running)
  /\ free_timer_list' = Append(free_timer_list, running)
  /\ left' = [left EXCEPT ![running] = 0]
  /\ UNCHANGED timer_heap

(* Mutant: the tick is added to without wrapping around. *)
Repeat_Wide ==
  /\ timer_data[running].type = INTERVAL
  /\ timer_data' = [timer_data EXCEPT ![running].tick = @ + timer_data[running].interval,
                                      ![running].removed = FALSE]
  /\ timer_heap' = PushTimer(timer_heap, running, timer_data')
  /\ left' = [left EXCEPT ![running] = @ + timer_data[running].interval]
  /\ UNCHANGED free_timer_list

(* Mutant: the period is not added. *)
Repeat_Now ==
  /\ timer_data[running].type = INTERVAL
  /\ timer_data' = [timer_data EXCEPT ![running].tick = PassTick, ![running].removed = FALSE]
  /\ timer_heap' = PushTimer(timer_heap, running, timer_data')
  /\ left' = [left EXCEPT ![running] = -pass]
  /\ UNCHANGED free_timer_list

Repeat ==
  LET interval == timer_data[running].interval
      from == IF Late(running) THEN PassTick ELSE timer_data[running].tick
  IN  /\ timer_data[running].type = INTERVAL
      /\ timer_data' = [timer_data EXCEPT ![running].tick = (from + interval) % TickMod,
                                          ![running].removed = FALSE]
      /\ timer_heap' = PushTimer(timer_heap, running, timer_data')
      /\ left' = [left EXCEPT ![running] =
                    interval + (IF Late(running) THEN -pass ELSE left[running])]
      /\ UNCHANGED free_timer_list

Return ==
  /\ running # INVALID_TIMER
  /\ timer_data[running].removed
  /\ Release \/ Repeat
  /\ running' = INVALID_TIMER
  /\ UNCHANGED <<timer_data_num, tick, next, budget, pass, lost>>

\* The function deleted its own timer: do_timer leaves it where it is, which
\* is neither in the heap nor among the free ids.
ReturnDeleted ==
  /\ running # INVALID_TIMER
  /\ ~timer_data[running].removed
  /\ lost' = lost \union {running}
  /\ running' = INVALID_TIMER
  /\ left' = [left EXCEPT ![running] = 0]
  /\ timer_data' = Freed(running)
  /\ UNCHANGED <<timer_heap, timer_data_num, free_timer_list, tick, next, budget, pass>>

\* No more expired timers: the loop sleeps until the next one.  With an empty
\* heap the time depends on whether this pass emptied it.
Capped(diff) == IF diff < MinInterval THEN MinInterval
                ELSE IF diff > MaxInterval THEN MaxInterval ELSE diff

Sleep ==
  /\ next = "callbacks" /\ running = INVALID_TIMER
  /\ ~Due
  /\ next' = "select"
  /\ budget' \in (IF timer_heap # <<>>
                  THEN {Capped(DIFF_TICK(timer_data[timer_heap[1]].tick, PassTick))}
                  ELSE {MinInterval, MaxInterval})
  /\ pass' = 0
  /\ UNCHANGED <<timer_data, timer_heap, timer_data_num, free_timer_list, running, tick,
                 left, lost>>

\* select returns when its time is over, or earlier for a packet.
Wake ==
  /\ next = "select"
  /\ next' = "packets" /\ budget' = PacketWork
  /\ UNCHANGED <<timer_data, timer_heap, timer_data_num, free_timer_list, running, tick,
                 pass, left, lost>>

Elapse ==
  /\ budget > 0
  /\ budget' = budget - 1
  /\ tick' = (tick + 1) % TickMod
  /\ pass' = IF next = "callbacks" THEN pass + 1 ELSE pass
  /\ left' = [t \in Tid |-> IF t \in HeapIds \union {running} THEN left[t] - 1 ELSE left[t]]
  /\ UNCHANGED <<timer_data, timer_heap, timer_data_num, free_timer_list, running, next, lost>>

Use == add_timer \/ add_timer_interval \/ (\E t \in Tid : delete_timer(t)) \/ SetTick \/ AddTick

DoTimerStep == DoTimer \/ (\E t \in Tid : Pop(t) \/ Discard(t)) \/ Return \/ ReturnDeleted \/ Sleep

TimerNext == Use \/ DoTimerStep \/ Wake \/ Elapse

\* The loop of core.c goes on for ever and a function it calls returns.
TimerFairness ==
  /\ WF_timerVars(DoTimerStep)
  /\ WF_timerVars(Return \/ ReturnDeleted)
  /\ WF_timerVars(Wake)

TimerSpec == TimerInit /\ [][TimerNext]_timerVars /\ TimerFairness

-----------------------------------------------------------------------------
(* Properties *)

TimerTypeOK ==
  /\ timer_data \in [Tid -> TimerData]
  /\ timer_heap \in Seq(Tid) /\ free_timer_list \in Seq(Tid)
  /\ timer_data_num \in 0 .. MaxTimers
  /\ running \in Tid \union {INVALID_TIMER}
  /\ tick \in 0 .. TickMod - 1
  /\ next \in {"callbacks", "select", "packets"}
  /\ budget \in 0 .. MaxInterval + Work + PacketWork /\ pass \in 0 .. Work
  /\ left \in [Tid -> Int] /\ lost \subseteq Tid

\* An id that was ever used is in exactly one place: once in the heap, once
\* among the free ids, running, or lost because its function deleted it
\* (do_timer frees only what "didn't change anything").  An id in two places
\* would run twice or be given to two callers.
IdInOnePlace ==
  /\ TimerTypeOK
  /\ Len(timer_heap) = Cardinality(HeapIds)
  /\ Len(free_timer_list) = Cardinality(FreeIds)
  /\ Len(timer_heap) + Len(free_timer_list) + Cardinality(lost)
       + (IF running = INVALID_TIMER THEN 0 ELSE 1) = timer_data_num
  /\ HeapIds \union FreeIds \union lost \union ({running} \ {INVALID_TIMER})
       = 0 .. timer_data_num - 1

\* The heap is in the order of the true deadlines although it compares
\* wrapped ticks: settick_timer, the repetition of late timers and the
\* wrap-around of the clock leave no timer above an earlier one.
HeapInTrueOrder ==
  \A i \in 2 .. Len(timer_heap) : left[timer_heap[i \div 2]] <= left[timer_heap[i]]

\* The main loop always gets back to select: no set of timers, periodic or
\* added by functions that run, keeps do_timer in its loop.
LoopSleeps == next = "callbacks" ~> next = "select"

\* The timers implement alarms: they ring in the order of their true
\* deadlines, never early, never when deleted, at most Lag late.
Alarms == INSTANCE Alarm WITH
            Id <- Tid, Lag <- Lateness,
            Span <- CHOOSE d \in Delays \union Intervals :
                      \A e \in Delays \union Intervals : e <= d,
            pending <- {t \in HeapIds : timer_data[t].func # NULL},
            left <- [t \in Tid |-> IF t \in HeapIds /\ timer_data[t].func # NULL
                                   THEN left[t] ELSE 0]
RingsInOrder == Alarms!AlarmSpec

=============================================================================
