------------------------------ MODULE OSTimer ------------------------------
(***************************************************************************)
(* Channel 5 of the PXA27x OS timer as src/tosmac/ostimer.c drives it: the *)
(* one-shot timer of the MAC.  The record keeps the software flag          *)
(* timer_running and the bits of the hardware registers the code touches:  *)
(* the interrupt enable OIER_E5 and the match status OSSR_E5.  The counter *)
(* OSCR5 and the match register OSMR5 are kept as one bit, "elapsed": has  *)
(* the interval of the last timer_start run out.  How long an interval is  *)
(* is left open: TimerMatch may come at any moment while OIER_E5 is set.   *)
(***************************************************************************)
VARIABLE timer

TimerType == [running : BOOLEAN, OIER : BOOLEAN, OSSR : BOOLEAN,
              elapsed : BOOLEAN]

TimerTypeOK == timer \in TimerType

timer_init_enabled(t) == [t EXCEPT !.running = FALSE, !.OIER = TRUE]   \* seeded fault

(* Only the mode of the counter (OMCR5) and the flag are written: a channel *)
(* that is enabled stays enabled, a latched match stays latched.            *)
timer_init(t) == [t EXCEPT !.running = FALSE]

(* OSMR5, OIER and OSCR5 are written one after the other; here the new      *)
(* interval starts in one step.  A match already latched stays latched.     *)
timer_start(t) == [t EXCEPT !.running = TRUE, !.OIER = TRUE,
                            !.elapsed = FALSE]

timer_stop(t) == [t EXCEPT !.running = FALSE, !.OIER = FALSE]

timer_is_running(t) == t.running

status_left_set(t) ==   \* seeded fault
  [t EXCEPT !.OIER = FALSE, !.running = FALSE, !.elapsed = FALSE]

(* The SUCCESS branch; the caller's guard is t.OSSR. *)
timer_channel_check(t) == [t EXCEPT !.OSSR = FALSE, !.OIER = FALSE,
                                    !.running = FALSE, !.elapsed = FALSE]

(* The hardware: the counter reaches OSMR5 while the channel is enabled. *)
TimerMatch == /\ timer.OIER
              /\ ~timer.OSSR
              /\ timer' = [timer EXCEPT !.OSSR = TRUE, !.elapsed = TRUE]
=============================================================================
