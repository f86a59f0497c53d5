------------------------------- MODULE Alarm --------------------------------
(***************************************************************************)
(* What the timers of src/common/timer.c promise: alarms that ring in the  *)
(* order of their deadlines, none before its time, none after it was       *)
(* cancelled, and none more than Lag late.  left is the time that remains  *)
(* until the deadline, without any limit on the size of a clock.           *)
(***************************************************************************)
EXTENDS Integers

CONSTANTS Id,    \* the names of the alarms
          Span,  \* the longest time an alarm is set ahead
          Lag    \* how late an alarm may ring

VARIABLES pending, left

alarmVars == <<pending, left>>

AlarmInit == pending = {} /\ left = [i \in Id |-> 0]

\* An alarm is set, or the repetition of a periodic one, perhaps overdue.
SetAlarm(i, d) ==
  /\ i \notin pending
  /\ pending' = pending \union {i}
  /\ left' = [left EXCEPT ![i] = d]

MoveAlarm(i, d) ==
  /\ i \in pending
  /\ left' = [left EXCEPT ![i] = d]
  /\ UNCHANGED pending

CancelAlarm(i) ==
  /\ i \in pending
  /\ pending' = pending \ {i}
  /\ left' = [left EXCEPT ![i] = 0]

\* It rings when it is due and no other one was due before it.
RingAlarm(i) ==
  /\ i \in pending
  /\ left[i] <= 0
  /\ \A j \in pending : left[i] <= left[j]
  /\ pending' = pending \ {i}
  /\ left' = [left EXCEPT ![i] = 0]

ElapseAlarm ==
  /\ \A i \in pending : left[i] > -Lag
  /\ left' = [i \in Id |-> IF i \in pending THEN left[i] - 1 ELSE 0]
  /\ UNCHANGED pending

Deadline == (1 - Lag) .. (Span + 1)

AlarmNext ==
  \/ \E i \in Id, d \in Deadline : SetAlarm(i, d) \/ MoveAlarm(i, d)
  \/ \E i \in Id : CancelAlarm(i) \/ RingAlarm(i)
  \/ ElapseAlarm

\* That time goes by at all is left to LoopSleeps of Timer.
AlarmSpec == AlarmInit /\ [][AlarmNext]_alarmVars

=============================================================================
