--------------------------- MODULE ActiveWindowView ---------------------------
(***************************************************************************)
(* What the KDE client promises the event handler about the window it      *)
(* reports.  Each process has a view: the window its Client reads will     *)
(* return once it has handled the calls sent to it.  When the user         *)
(* activates a window, the notification reaches at most one process, and   *)
(* that process's view becomes the new window at once; no view ever goes   *)
(* back to an older window.  A process that ends, or whose server thread   *)
(* failed, has no view and gets no more notifications.                     *)
(***************************************************************************)
CONSTANTS Procs, Windows, None

VARIABLES view, active, live

Init ==
  /\ view = [p \in Procs |-> None]
  /\ active \in Windows
  /\ live = Procs

\* the user activates w; its notification reaches one process or none
Activate(w) ==
  /\ w # active
  /\ active' = w
  /\ \/ \E t \in live : view' = [view EXCEPT ![t] = w]
     \/ UNCHANGED view
  /\ UNCHANGED live

\* a process ends, or its server thread fails and reports Err
End(p) ==
  /\ p \in live
  /\ live' = live \ {p}
  /\ view' = [view EXCEPT ![p] = None]
  /\ UNCHANGED active

Next ==
  \/ \E w \in Windows : Activate(w)
  \/ \E p \in Procs : End(p)

Spec == Init /\ [][Next]_<<view, active, live>>

=============================================================================
