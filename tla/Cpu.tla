--------------------------------- MODULE Cpu ---------------------------------
(***************************************************************************)
(* What the scheduler promises, without its lists and tables: one          *)
(* processor, a changing set of processes that can run, and an idle        *)
(* process for when there is none.                                         *)
(***************************************************************************)
EXTENDS FiniteSets

CONSTANTS Process, Idle

VARIABLES runnable, current

AtMostOne == {{}} \cup {{p} : p \in Process}

Init == runnable = {} /\ current = Idle

(* A process appears or wakes, and one dies or blocks: a death may wake    *)
(* the parent in the same step.                                            *)
Change ==
  /\ \E in, out \in AtMostOne : runnable' = (runnable \ out) \cup in
  /\ UNCHANGED current

(* The processor changes hands: the process that had it may leave, and it  *)
(* goes to one that can run, to the idle process only if there is none.    *)
Dispatch ==
  /\ \E in \in AtMostOne : runnable' \in {runnable \cup in, (runnable \ {current}) \cup in}
  /\ current' \in runnable' \/ (runnable' = {} /\ current' = Idle)

Next == Change \/ Dispatch

Spec == Init /\ [][Next]_<<runnable, current>>
=============================================================================
