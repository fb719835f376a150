------------------------- MODULE PthreadConditions --------------------------
(***************************************************************************)
(* src/pthread_conditions.c: main locks a mutex, starts a detached child   *)
(* and waits on a condition variable; the child calls pthread_mutex_unlock *)
(* on main's mutex and signals the condition; main destroys it, checks with*)
(* trylock that it holds the mutex, unlocks and returns, which ends the    *)
(* process.                                                                *)
(*                                                                         *)
(* Each thread runs a straight line of calls; a printf is a call of its own*)
(* because the other thread may run before, during and after it.  The mutex*)
(* is glibc's default one: unlocking a mutex another thread holds releases *)
(* it, unlocking one nobody holds does nothing, and both return 0.  A wait *)
(* on a condition may also return though nobody signalled.                 *)
(***************************************************************************)
EXTENDS Naturals, Sequences

\* main, call by call.  pthread_cond_wait is two calls: to release the mutex
\* and sleep, and to take the mutex again when woken.
MainCalls ==
  <<"say", "lock", "say", "create", "detach", "say", "wait", "relock",
    "say", "destroy", "trylock", "unlock", "say", "exit">>

\* Fault: the child signals before it unlocks.
ChildSwapped == <<"say", "signal", "say", "unlock", "say", "exit">>
ChildCalls == <<"say", "unlock", "say", "signal", "say", "exit">>

VARIABLES
  m,          \* the call main makes next
  c,          \* the call the child makes next; 0 before it is created
  locked,     \* the mutex
  wakeup,     \* why main's wait ended: "none", "signal" or "spurious"
  destroyed,  \* the condition variable has been destroyed
  late,       \* the child signalled a destroyed condition variable
  failed      \* the call whose assertion failed, or "none"

vars == <<m, c, locked, wakeup, destroyed, late, failed>>

Main(call) == m <= Len(MainCalls) /\ MainCalls[m] = call
Child(call) == c \in 1 .. Len(ChildCalls) /\ ChildCalls[c] = call
Running == failed = "none" /\ ~Main("exit")

Init ==
  /\ m = 1 /\ c = 0
  /\ locked = FALSE
  /\ wakeup = "none"
  /\ destroyed = FALSE /\ late = FALSE
  /\ failed = "none"

-----------------------------------------------------------------------------
\* main runs one call; the assertion around it holds or ends the program.
Step(call) == Running /\ Main(call) /\ m' = m + 1
Assert(call, holds) == IF holds THEN UNCHANGED failed ELSE failed' = call

MainSays == Step("say") /\ UNCHANGED <<c, locked, wakeup, destroyed, late, failed>>

Lock ==
  /\ Step("lock") /\ ~locked
  /\ locked' = TRUE
  /\ UNCHANGED <<c, wakeup, destroyed, late, failed>>

\* pthread_create may find no resources.
Create ==
  /\ Step("create")
  /\ \E created \in BOOLEAN : Assert("create", created) /\ c' = IF created THEN 1 ELSE 0
  /\ UNCHANGED <<locked, wakeup, destroyed, late>>

Detach == Step("detach") /\ UNCHANGED <<c, locked, wakeup, destroyed, late, failed>>

Wait ==
  /\ Step("wait")
  /\ locked' = FALSE
  /\ UNCHANGED <<c, wakeup, destroyed, late, failed>>

\* Between its two halves of pthread_cond_wait main sleeps until it is woken.
Asleep == Main("relock") /\ wakeup = "none"

Spurious ==
  /\ Running /\ Asleep
  /\ wakeup' = "spurious"
  /\ UNCHANGED <<m, c, locked, destroyed, late, failed>>

Relock ==
  /\ Step("relock") /\ wakeup # "none" /\ ~locked
  /\ locked' = TRUE
  /\ UNCHANGED <<c, wakeup, destroyed, late, failed>>

Destroy ==
  /\ Step("destroy")
  /\ destroyed' = TRUE
  /\ UNCHANGED <<c, locked, wakeup, late, failed>>

\* trylock must find the mutex taken; if it does not, it has just taken it.
Trylock ==
  /\ Step("trylock")
  /\ Assert("trylock", locked)
  /\ locked' = TRUE
  /\ UNCHANGED <<c, wakeup, destroyed, late>>

Unlock ==
  /\ Step("unlock")
  /\ locked' = FALSE
  /\ UNCHANGED <<c, wakeup, destroyed, late, failed>>

-----------------------------------------------------------------------------
ChildStep(call) == Running /\ Child(call) /\ c' = c + 1

ChildSays == ChildStep("say") /\ UNCHANGED <<m, locked, wakeup, destroyed, late, failed>>

\* The child's first call releases the mutex, whoever holds it.
ChildUnlock ==
  /\ ChildStep("unlock")
  /\ locked' = FALSE
  /\ UNCHANGED <<m, wakeup, destroyed, late, failed>>

\* Fault: the signal is dropped.
ChildSignalDropped ==
  /\ ChildStep("signal")
  /\ late' = destroyed
  /\ UNCHANGED <<m, wakeup, locked, destroyed, failed>>

\* A signal wakes main if it sleeps, and is lost otherwise.
ChildSignal ==
  /\ ChildStep("signal")
  /\ wakeup' = IF Asleep THEN "signal" ELSE wakeup
  /\ late' = destroyed
  /\ UNCHANGED <<m, locked, destroyed, failed>>

MainNext ==
  MainSays \/ Lock \/ Create \/ Detach \/ Wait \/ Relock \/ Destroy \/ Trylock \/ Unlock
ChildNext == ChildSays \/ ChildUnlock \/ ChildSignal
Next == MainNext \/ ChildNext \/ Spurious

\* The kernel runs both threads; nothing promises a spurious wakeup.
Spec == Init /\ [][Next]_vars /\ WF_vars(MainNext) /\ WF_vars(ChildNext)

-----------------------------------------------------------------------------
(* Properties.                                                             *)

\* A child that has not signalled yet when main falls asleep wakes it (lines
\* 23 and 47).
SignalIsHeard ==
  (Asleep /\ Running /\ \E k \in 1 .. Len(ChildCalls) : ChildCalls[k] = "signal" /\ c <= k)
    ~> ~Asleep

\* Only a spurious wakeup hurts.  If it was the child's signal that woke main,
\* the assertion on trylock (line 51) holds, as the child has nothing left to
\* unlock, and the condition is not destroyed under a child that still signals
\* it (lines 23 and 50).
OnlySpuriousHurts == failed = "trylock" \/ late => wakeup = "spurious"

\* What the assertion on line 51 says: main holds the mutex when it has waited.
TrylockBusy == failed # "trylock"

\* What the messages of main say: once it waits for the signal (line 46), it is
\* done in the end (line 54).
WaitEnds == Asleep ~> ~Asleep
=============================================================================
