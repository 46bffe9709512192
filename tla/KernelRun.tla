----------------------------- MODULE KernelRun -----------------------------
(***************************************************************************)
(* Tasks and calls of the runs of KernelQueue.                             *)
(***************************************************************************)
EXTENDS KernelQueue, TLC

CONSTANTS low, mid, high, idle, pipe, lock, one, two

Priority == low :> 1 @@ mid :> 2 @@ high :> 3 @@ idle :> 0
Length   == pipe :> 2 @@ lock :> 1

C(task, op, queue1, item, ticks) ==
  [task |-> task, op |-> op, queue |-> queue1, item |-> item, ticks |-> ticks]

Program(calls, interrupts) == [calls |-> calls, interrupts |-> interrupts]

\* Three tasks wait for items, one with a time limit; interrupts send.
Readers == Program({C(low, "receive", pipe, one, 2), C(mid, "receive", pipe, one, portMAX_DELAY),
                    C(high, "receive", pipe, one, portMAX_DELAY)}, {"send"})
\* Tasks that peek beside one that receives.
Peekers == Program({C(low, "receive", pipe, one, portMAX_DELAY), C(mid, "peek", pipe, one, 2),
                    C(high, "peek", pipe, one, portMAX_DELAY), C(high, "delay", pipe, one, 2)}, {"send"})
\* Tasks wait for room; interrupts receive.
Writers == Program({C(low, "back", pipe, one, 2), C(mid, "back", pipe, one, portMAX_DELAY),
                    C(high, "back", pipe, one, portMAX_DELAY)}, {"receive"})
\* Tasks on both ends, and items put before others.
Pair == Program({C(low, "front", pipe, two, portMAX_DELAY), C(mid, "receive", pipe, one, 2),
                 C(high, "back", pipe, one, 1), C(high, "delay", pipe, one, 1)}, {"send"})
\* Two tasks share a mutex, one with a time limit; a third sleeps.
Owners == Program({C(low, "receive", lock, one, portMAX_DELAY), C(low, "back", lock, one, 0),
                   C(low, "delay", lock, one, 1), C(high, "delay", lock, one, 1), C(mid, "delay", lock, one, 1),
                   C(high, "receive", lock, one, 2), C(high, "back", lock, one, 0)}, {})

Various == {Readers, Peekers, Writers, Pair, Owners}

\* Three tasks share a mutex, the most urgent one waits for it with a time limit.
Crowd == {Program({C(t, "receive", lock, one, IF t = high THEN 1 ELSE portMAX_DELAY) :
                     t \in {low, mid, high}}
                  \cup {C(t, "back", lock, one, 0) : t \in {low, mid, high}}
                  \cup {C(high, "delay", lock, one, 1)}, {})}
=============================================================================
