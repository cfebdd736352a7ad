------------------------------- MODULE CronMC -------------------------------
(* Small instances of Cron for TLC. *)
EXTENDS Cron

Plain == [every |-> 1, expiresAt |-> 0, oneTime |-> FALSE, maxRuns |-> 0,
          withoutOverlapping |-> FALSE]

Alone == [Plain EXCEPT !.withoutOverlapping = TRUE]

(* A cron with each of the options, one that runs rarely, and schedules    *)
(* with less than a second between runs, without a date and not valid.     *)
SomeRules ==
    {[Plain EXCEPT !.oneTime = TRUE], [Plain EXCEPT !.maxRuns = 1], [Plain EXCEPT !.maxRuns = 2],
     [Plain EXCEPT !.every = 3, !.expiresAt = 2]}
    \cup {[Alone EXCEPT !.every = e] : e \in {0, 1, NoDate, Invalid}}
=============================================================================
