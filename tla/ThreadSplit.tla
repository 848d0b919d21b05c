----------------------------- MODULE ThreadSplit -----------------------------
(***************************************************************************)
(* How ThreadSplit (loadtest/thread_split.go) divides the indexes of an    *)
(* array of n elements among k threads: into parts of n / k each, of which *)
(* the last takes the rest.                                                *)
(***************************************************************************)
EXTENDS Integers

Start(n, k, t) == (n \div k) * t

End(n, k, t) == IF t = k - 1 THEN n ELSE (n \div k) * (t + 1)

(* The indexes of thread t, in the order in which it works them off.       *)
Share(n, k, t) == Start(n, k, t) .. End(n, k, t) - 1

=============================================================================
