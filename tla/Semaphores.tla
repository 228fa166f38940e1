----------------------------- MODULE Semaphores -----------------------------
(***************************************************************************)
(* The POSIX semaphore behind class Semaphore.  A semaphore is a variable   *)
(* that holds its value; Down and Up are its two operations as actions on   *)
(* that variable.  sem_wait gives no order among the threads it has         *)
(* blocked: any thread whose Down is enabled may be the next one through.   *)
(***************************************************************************)
EXTENDS Integers

CONSTANT Threads    \* the threads that share the semaphores

\* sem_wait: blocks while the value is 0.
Down(s) == s > 0 /\ s' = s - 1

\* sem_post: never blocks.
Up(s) == s' = s + 1
=============================================================================
