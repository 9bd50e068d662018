-------------------------- MODULE MCCounterWindows --------------------------
(* Two CPUs and four intervals: a window of three after two failed ticks,  *)
(* and a tick before or after it.                                          *)
EXTENDS CounterWindows
=============================================================================
