-------------------------- MODULE NonBlockingDelay --------------------------
(***************************************************************************)
(* NonBlockingDelay.  The object keeps the tick at which it was started; a *)
(* delay here keeps instead the ticks since then, and counts them only as  *)
(* far as its duration, where they cease to matter.                        *)
(***************************************************************************)
EXTENDS Naturals

\* A delay as its constructor leaves it: read() will start it.
Stopped(duration) == [running |-> FALSE, elapsed |-> 0, duration |-> duration]

Delays(durations) ==
    UNION {[running : BOOLEAN, elapsed : 0..n, duration : {n}] : n \in durations}

\* read() answers TRUE
TimeArrived(d) == d.running /\ d.elapsed >= d.duration

\* Mutant of Read: a delay that is not running is not started.
ReadOnly(d) == IF TimeArrived(d) THEN [d EXCEPT !.running = FALSE, !.elapsed = 0] ELSE d

\* read() starts a delay that is not running, and stops one that has elapsed.
Read(d) == IF ~d.running \/ TimeArrived(d)
             THEN [d EXCEPT !.running = ~d.running, !.elapsed = 0]
             ELSE d

\* write(duration); restart()
WrittenAndRestarted(d, duration) == [running |-> TRUE, elapsed |-> 0, duration |-> duration]

\* restart()
Restarted(d) == [d EXCEPT !.running = TRUE, !.elapsed = 0]

\* tickerCallback
Ticked(d) == IF d.running /\ d.elapsed < d.duration
               THEN [d EXCEPT !.elapsed = @ + 1] ELSE d
=============================================================================
