-------------------------------- MODULE Timer --------------------------------
(***************************************************************************)
(* timer (client/src/timer.cpp): ticks are unsigned differences of         *)
(* SDL_GetTicks, which wraps; a timer can be paused.                       *)
(***************************************************************************)
EXTENDS Integers

CONSTANT Wrap \* the ticks at which SDL_GetTicks is 0 again, 2^32 in SDL

ASSUME TimerAssumption == Wrap \in Nat \ {0}

Tick == 0 .. Wrap - 1

Timer == [started : BOOLEAN, paused : BOOLEAN, start_ticks : Tick, paused_ticks : Tick]

\* The subtraction of two unsigned numbers.
Minus(a, b) == (a - b) % Wrap

NewTimer == [started |-> FALSE, paused |-> FALSE, start_ticks |-> 0, paused_ticks |-> 0]

Started(t, now) == [NewTimer EXCEPT !.started = TRUE, !.start_ticks = now]

Stopped(t, now) == NewTimer

Paused(t, now) ==
    IF t.started /\ ~t.paused
    THEN [t EXCEPT !.paused = TRUE, !.start_ticks = 0,
                   !.paused_ticks = Minus(now, t.start_ticks)]
    ELSE t

\* A mutation: the ticks before the pause are lost.
UnpausedAnew(t, now) ==
    IF t.started /\ t.paused THEN [t EXCEPT !.paused = FALSE, !.start_ticks = now] ELSE t

Unpaused(t, now) ==
    IF t.started /\ t.paused
    THEN [t EXCEPT !.paused = FALSE, !.paused_ticks = 0,
                   !.start_ticks = Minus(now, t.paused_ticks)]
    ELSE t

GetTicks(t, now) ==
    CASE ~t.started -> 0
      [] t.started /\ t.paused -> t.paused_ticks
      [] t.started /\ ~t.paused -> Minus(now, t.start_ticks)

Running(t) == t.started /\ ~t.paused
==============================================================================
