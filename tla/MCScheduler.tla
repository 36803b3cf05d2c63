---------------------------- MODULE MCScheduler ----------------------------
(* One task, two control planes, sessions of Codex and of a CLI, a day of two minutes *)
EXTENDS Scheduler

CONSTANTS w1, w2

AnyField(n) == [values |-> 0..(n - 1), any |-> TRUE]
Every2 == [every |-> 2, minute |-> {}, day |-> AnyField(MonthLength), weekday |-> AnyField(WeekLength)]
DateOrWeekday == [every |-> 0, minute |-> Item(0, DayLength - 1, 2),
                  day |-> [values |-> Item(1, 1, 1), any |-> FALSE],
                  weekday |-> [values |-> Item(0, WeekLength - 1, 2), any |-> FALSE]]
SomeSpecs == {Every2, DateOrWeekday}
Planes == Permutations(Workers)
OneSpec == {DateOrWeekday}
=============================================================================
