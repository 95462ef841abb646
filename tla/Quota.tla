-------------------------------- MODULE Quota --------------------------------
(***************************************************************************)
(* The decisions of invocationQuotaLimiter (internal/app/service.go): the  *)
(* per-minute window counters of allowRate and the in-flight counter of    *)
(* acquireConcurrency.  The limiter's maps live in the module that uses    *)
(* these operators; each operator is one critical section of l.mu.         *)
(* A limit of 0 switches the corresponding check off.                      *)
(***************************************************************************)
EXTENDS Integers

\* quotaWindow: the minute the counter is for, and the calls it has admitted.
\* The zero time.Time of a missing map entry is minute -1.
NoWindow == [start |-> -1, count |-> 0]

QuotaWindow == [start : Int, count : Nat]

\* A window of any other minute than the caller's is replaced, also when it is
\* a later one (!window.start.Equal(windowStart)).
RollWindow(window, minute) ==
  IF window.start = minute THEN window ELSE [start |-> minute, count |-> 0]

\* Mutant: admits one call more than the limit.
Mut_AllowsOneMore(window, minute, max) ==
  max = 0 \/ RollWindow(window, minute).count <= max

\* incrementQuotaWindowCounter: its answer ...
WindowAllows(window, minute, max) ==
  max = 0 \/ RollWindow(window, minute).count < max

\* ... and the window it leaves: rolled, and counted when the call is admitted.
WindowAfter(window, minute, max) ==
  LET count == RollWindow(window, minute).count
  IN IF max = 0 THEN window
     ELSE [start |-> minute, count |-> IF count < max THEN count + 1 ELSE count]

\* Mutant: off by one at the limit.
Mut_OneTooMany(current, max) == max = 0 \/ current <= max

\* acquireConcurrency: may a session with this many calls in flight start one?
SlotAvailable(current, max) == max = 0 \/ current < max

\* The release function: the entry is deleted (0) when nothing remains.
Released(current) == IF current - 1 <= 0 THEN 0 ELSE current - 1
==============================================================================
