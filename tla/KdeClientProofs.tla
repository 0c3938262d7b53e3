--------------------------- MODULE KdeClientProofs ---------------------------
(***************************************************************************)
(* Proofs about the KDE client model, for every set of processes and       *)
(* windows and every bound on activations.                                 *)
(***************************************************************************)
EXTENDS KdeClient, SequenceTheorems, TLAPS

-----------------------------------------------------------------------------
(* Lemmas on the bus queue operations.                                     *)

\* DropAt shortens a queue by one and keeps only elements it had
LEMMA DropAtProps ==
  ASSUME NEW S, NEW s \in Seq(S), NEW i \in 1..Len(s)
  PROVE  /\ DropAt(s, i) \in Seq(S)
         /\ Len(DropAt(s, i)) = Len(s) - 1
         /\ \A j \in 1..Len(DropAt(s, i)) : \E k \in 1..Len(s) : DropAt(s, i)[j] = s[k]
  BY DEF DropAt

\* releasing a name leaves a queue whose members were all in the queue
LEMMA ReleaseNameProps ==
  ASSUME NEW S, NEW q \in Seq(S), NEW p
  PROVE  /\ ReleaseName(q, p) \in Seq(S)
         /\ \A j \in 1..Len(ReleaseName(q, p)) :
              \E k \in 1..Len(q) : ReleaseName(q, p)[j] = q[k]
  <1>1. CASE \E i \in 1..Len(q) : q[i] = p
    <2>1. PICK i \in 1..Len(q) : ReleaseName(q, p) = DropAt(q, i)
      BY <1>1 DEF ReleaseName
    <2>2. QED
      BY <2>1, DropAtProps
  <1>2. CASE ~\E i \in 1..Len(q) : q[i] = p
    BY <1>2 DEF ReleaseName
  <1>3. QED
    BY <1>1, <1>2

-----------------------------------------------------------------------------
(* Type correctness.                                                       *)

\* the entries KWin's registry may hold for the plugin
ScriptEntries == [loaded : BOOLEAN, running : BOOLEAN, by : Procs \cup {None}]

\* the initial states have the types
LEMMA TypeInit == Init => TypeOK
  <1> SUFFICES ASSUME Init PROVE TypeOK
    OBVIOUS
  <1>1. Unloaded \in ScriptEntries
    BY DEF Unloaded, ScriptEntries
  <1>2. QED
    BY <1>1, KdeClientAssumption
       DEF Init, TypeOK, ScriptEntries, ActiveWindowValues, MainStates, ServerStates

\* every step keeps them
LEMMA TypeStep == TypeOK /\ [Next]_vars => TypeOK'
  <1> USE KdeClientAssumption DEF client, handler, kwin, bus
  <1>2. TypeOK /\ [Next]_vars => TypeOK'
    <2> SUFFICES ASSUME TypeOK, [Next]_vars PROVE TypeOK'
      OBVIOUS
    <2>1. ASSUME NEW p \in Procs, IsScriptLoaded(p) PROVE TypeOK'
      BY <2>1 DEF IsScriptLoaded, SetSupported, TypeOK, MainStates
    <2>2. ASSUME NEW p \in Procs, LoadScript(p) PROVE TypeOK'
      <3>1. KWinLoad(p) \in ScriptEntries /\ LoadScriptReply(p) \in Procs \cup {None}
        BY DEF KWinLoad, LoadScriptReply, TypeOK, ScriptEntries
      <3>2. CASE /\ pc' = [pc EXCEPT ![p] = "unload"]
                 /\ UNCHANGED <<script, scriptId>>
        BY <2>2, <3>2 DEF LoadScript, TypeOK, MainStates
      <3>3. CASE /\ pc' = [pc EXCEPT ![p] = "unload"]
                 /\ script' = KWinLoad(p)
                 /\ UNCHANGED scriptId
        BY <2>2, <3>1, <3>3 DEF LoadScript, TypeOK, MainStates, ScriptEntries
      <3>4. CASE /\ pc' = [pc EXCEPT ![p] = "start"]
                 /\ script' = KWinLoad(p)
                 /\ scriptId' = [scriptId EXCEPT ![p] = LoadScriptReply(p)]
        BY <2>2, <3>1, <3>4 DEF LoadScript, TypeOK, MainStates, ScriptEntries
      <3>5. QED
        BY <2>2, <3>2, <3>3, <3>4 DEF LoadScript
    <2>3. ASSUME NEW p \in Procs, StartScript(p) PROVE TypeOK'
      BY <2>3 DEF StartScript, TypeOK, MainStates, ScriptEntries
    <2>4. ASSUME NEW p \in Procs, UnloadScript(p) PROVE TypeOK'
      <3>1. Unloaded \in ScriptEntries
        BY DEF Unloaded, ScriptEntries
      <3>2. QED
        BY <2>4, <3>1 DEF UnloadScript, SetSupported, TypeOK, ScriptEntries, MainStates
    <2>5. ASSUME NEW p \in Procs, Spawn(p) PROVE TypeOK'
      BY <2>5 DEF Spawn, TypeOK, MainStates, ServerStates
    <2>6. ASSUME NEW p \in Procs, Recv(p) PROVE TypeOK'
      BY <2>6 DEF Recv, SetSupported, TypeOK, MainStates
    <2>7. ASSUME NEW p \in Procs, ServerConnect(p) PROVE TypeOK'
      <3>1. CASE /\ chan' = [chan EXCEPT ![p] = FALSE]
                 /\ srv' = [srv EXCEPT ![p] = "exit"]
                 /\ UNCHANGED nameQueue
        BY <2>7, <3>1 DEF ServerConnect, TypeOK, ServerStates
      <3>2. CASE /\ nameQueue' = Append(nameQueue, p)
                 /\ srv' = [srv EXCEPT ![p] = "register"]
                 /\ UNCHANGED chan
        BY <2>7, <3>2 DEF ServerConnect, TypeOK, ServerStates
      <3>3. QED
        BY <2>7, <3>1, <3>2 DEF ServerConnect
    <2>8. ASSUME NEW p \in Procs, ServerRegister(p) PROVE TypeOK'
      <3>1. ReleaseName(nameQueue, p) \in Seq(Procs)
        BY ReleaseNameProps DEF TypeOK
      <3>2. CASE /\ chan' = [chan EXCEPT ![p] = TRUE]
                 /\ srv' = [srv EXCEPT ![p] = "serve"]
                 /\ UNCHANGED <<nameQueue, inbox>>
        BY <2>8, <3>2 DEF ServerRegister, TypeOK, ServerStates
      <3>3. CASE /\ chan' = [chan EXCEPT ![p] = FALSE]
                 /\ srv' = [srv EXCEPT ![p] = "exit"]
                 /\ nameQueue' = ReleaseName(nameQueue, p)
                 /\ inbox' = [inbox EXCEPT ![p] = <<>>]
        BY <2>8, <3>1, <3>3 DEF ServerRegister, TypeOK, ServerStates
      <3>4. QED
        BY <2>8, <3>2, <3>3 DEF ServerRegister
    <2>9. ASSUME NEW p \in Procs, TryHandleNext(p) PROVE TypeOK'
      BY <2>9 DEF TryHandleNext, NotifyActiveWindow, TypeOK, ActiveWindowValues
    <2>10. ASSUME NEW p \in Procs, CurrentApplication(p) PROVE TypeOK'
      BY <2>10 DEF CurrentApplication, TypeOK, client
    <2>11. ASSUME NEW p \in Procs, CurrentWindow(p) PROVE TypeOK'
      BY <2>11 DEF CurrentWindow, TypeOK, client
    <2>12. ASSUME NEW p \in Procs, Exit(p) PROVE TypeOK'
      <3>1. ReleaseName(nameQueue, p) \in Seq(Procs)
        BY ReleaseNameProps DEF TypeOK
      <3>2. QED
        BY <2>12, <3>1 DEF Exit, TypeOK, MainStates, ServerStates
    <2>13. ASSUME NEW w \in Windows, WindowActivated(w) PROVE TypeOK'
      <3>1. Owner # None => Owner \in Procs
        BY DEF Owner, TypeOK
      <3>2. active' \in Windows /\ switches' \in 0..MaxSwitches
        BY <2>13 DEF WindowActivated, TypeOK
      <3>3. CASE /\ script.running
                 /\ Owner # None
                 /\ inbox' = [inbox EXCEPT ![Owner] = Append(@, w)]
                 /\ lastNote' = Owner
        BY <2>13, <3>1, <3>2, <3>3 DEF WindowActivated, TypeOK
      <3>4. CASE /\ ~script.running \/ Owner = None
                 /\ lastNote' = None
                 /\ UNCHANGED inbox
        BY <2>13, <3>2, <3>4 DEF WindowActivated, TypeOK
      <3>5. QED
        BY <2>13, <3>3, <3>4 DEF WindowActivated
    <2>14. CASE UNCHANGED vars
      BY <2>14 DEF vars, client, handler, kwin, bus, TypeOK
    <2>15. QED
      BY <2>1, <2>2, <2>3, <2>4, <2>5, <2>6, <2>7, <2>8, <2>9, <2>10,
         <2>11, <2>12, <2>13, <2>14 DEF Next, Main, Server
  <1>3. QED
    BY <1>2

\* Every reachable state of the KDE client model has the types TypeOK
\* names: the main thread, the server thread, the channel, KWin's script
\* entry, the bus queue and the routed calls.
THEOREM TypeCorrect == Spec => []TypeOK
  BY TypeInit, TypeStep, PTL DEF Spec

-----------------------------------------------------------------------------
(* The order of NotifyActiveWindow calls.                                  *)

\* a process that has not spawned its server thread has none
PreSpawn ==
  \A p \in Procs :
    pc[p] \in {"new", "load", "start", "unload", "spawn"} => srv[p] = "none"

\* only a process whose server thread got past request_name is queued
QueuedServing ==
  \A i \in 1..Len(nameQueue) : srv[nameQueue[i]] \in {"register", "serve", "exit", "gone"}

\* the last call went to such a process
NoteServing ==
  lastNote \in Procs => srv[lastNote] \in {"register", "serve", "exit", "gone"}

\* the newest call routed to a live server names the active window
NoteApplied ==
  \A p \in Procs :
    (lastNote = p /\ srv[p] \in {"register", "serve"}) =>
      IF inbox[p] = <<>> THEN awin[p] = active ELSE Last(inbox[p]) = active

IInv == TypeOK /\ PreSpawn /\ QueuedServing /\ NoteServing /\ NoteApplied

\* a sequence and its rest after the first element end alike
LEMMA LastOfRest ==
  ASSUME NEW S, NEW s \in Seq(S), NEW t \in Seq(S),
         Len(s) \in Nat \ {0}, Len(t) = Len(s) - 1,
         \A i \in 1..Len(t) : t[i] = s[i + 1]
  PROVE  IF t = <<>> THEN s[1] = Last(s) ELSE Last(t) = Last(s)
  <1>1. CASE Len(s) = 1
    <2>1. t = <<>>
      BY <1>1
    <2>2. QED
      BY <1>1, <2>1 DEF Last
  <1>2. CASE Len(s) > 1
    <2>1. t # <<>>
      BY <1>2
    <2>2. t[Len(t)] = s[Len(s)]
      BY <1>2
    <2>3. QED
      BY <2>1, <2>2 DEF Last
  <1>3. QED
    BY <1>1, <1>2
\* the newest element of a sequence survives Tail unless Tail empties it
LEMMA LastTail ==
  ASSUME NEW S, NEW s \in Seq(S), s # <<>>
  PROVE  IF Tail(s) = <<>> THEN Head(s) = Last(s) ELSE Last(Tail(s)) = Last(s)
  <1>1. /\ Tail(s) \in Seq(S)
        /\ Len(Tail(s)) = Len(s) - 1
        /\ \A i \in 1..Len(Tail(s)) : Tail(s)[i] = s[i + 1]
        /\ Len(s) \in Nat \ {0}
    BY HeadTailProperties, EmptySeq
  <1>2. Head(s) = s[1]
    OBVIOUS
  <1>3. QED
    BY <1>1, <1>2, LastOfRest

\* Append puts the new element last
LEMMA LastAppend ==
  ASSUME NEW S, NEW s \in Seq(S), NEW e
  PROVE  Append(s, e) # <<>> /\ Last(Append(s, e)) = e
  BY DEF Last

\* the initial state satisfies the inductive invariant
LEMMA IInvInit == Init => IInv
  BY TypeInit, KdeClientAssumption DEF Init, IInv, PreSpawn, QueuedServing, NoteServing, NoteApplied

\* every step of every process, of KWin and of the bus keeps it
LEMMA IInvStep == IInv /\ [Next]_vars => IInv'
  <1> USE KdeClientAssumption DEF client, handler, kwin, bus
  <1> SUFFICES ASSUME IInv, [Next]_vars PROVE IInv'
    OBVIOUS
  <1>0. TypeOK /\ TypeOK'
    BY TypeStep DEF IInv
  <1>1. ASSUME NEW p \in Procs, IsScriptLoaded(p) PROVE IInv'
    BY <1>0, <1>1 DEF IsScriptLoaded, SetSupported, IInv, TypeOK, PreSpawn,
       QueuedServing, NoteServing, NoteApplied
  <1>2. ASSUME NEW p \in Procs, LoadScript(p) PROVE IInv'
    BY <1>0, <1>2 DEF LoadScript, IInv, TypeOK, PreSpawn, QueuedServing,
       NoteServing, NoteApplied
  <1>3. ASSUME NEW p \in Procs, StartScript(p) PROVE IInv'
    BY <1>0, <1>3 DEF StartScript, IInv, TypeOK, PreSpawn, QueuedServing,
       NoteServing, NoteApplied
  <1>4. ASSUME NEW p \in Procs, UnloadScript(p) PROVE IInv'
    BY <1>0, <1>4 DEF UnloadScript, SetSupported, IInv, TypeOK, PreSpawn,
       QueuedServing, NoteServing, NoteApplied
  <1>5. ASSUME NEW p \in Procs, Spawn(p) PROVE IInv'
    BY <1>0, <1>5 DEF Spawn, IInv, TypeOK, PreSpawn, QueuedServing,
       NoteServing, NoteApplied
  <1>6. ASSUME NEW p \in Procs, Recv(p) PROVE IInv'
    BY <1>0, <1>6 DEF Recv, SetSupported, IInv, TypeOK, PreSpawn,
       QueuedServing, NoteServing, NoteApplied
  <1>7. ASSUME NEW p \in Procs, ServerConnect(p) PROVE IInv'
    <2>1. \A i \in 1..Len(nameQueue) : nameQueue[i] # p
      BY <1>7 DEF ServerConnect, IInv, QueuedServing
    <2>2. lastNote # p
      BY <1>7 DEF ServerConnect, IInv, NoteServing
    <2>3. CASE /\ chan' = [chan EXCEPT ![p] = FALSE]
               /\ srv' = [srv EXCEPT ![p] = "exit"]
               /\ UNCHANGED nameQueue
      BY <1>0, <1>7, <2>1, <2>2, <2>3 DEF ServerConnect, IInv, TypeOK, PreSpawn,
         QueuedServing, NoteServing, NoteApplied
    <2>4. CASE /\ nameQueue' = Append(nameQueue, p)
               /\ srv' = [srv EXCEPT ![p] = "register"]
               /\ UNCHANGED chan
      <3>1. QueuedServing'
        BY <1>0, <2>1, <2>4 DEF IInv, TypeOK, QueuedServing
      <3>2. QED
        BY <1>0, <1>7, <2>2, <2>4, <3>1 DEF ServerConnect, IInv, TypeOK, PreSpawn,
           NoteServing, NoteApplied
    <2>5. QED
      BY <1>7, <2>3, <2>4 DEF ServerConnect
  <1>8. ASSUME NEW p \in Procs, ServerRegister(p) PROVE IInv'
    <2>1. CASE /\ chan' = [chan EXCEPT ![p] = TRUE]
               /\ srv' = [srv EXCEPT ![p] = "serve"]
               /\ UNCHANGED <<nameQueue, inbox>>
      BY <1>0, <1>8, <2>1 DEF ServerRegister, IInv, TypeOK, PreSpawn, QueuedServing,
         NoteServing, NoteApplied
    <2>2. CASE /\ chan' = [chan EXCEPT ![p] = FALSE]
               /\ srv' = [srv EXCEPT ![p] = "exit"]
               /\ nameQueue' = ReleaseName(nameQueue, p)
               /\ inbox' = [inbox EXCEPT ![p] = <<>>]
      <3>1. \A j \in 1..Len(ReleaseName(nameQueue, p)) :
              \E k \in 1..Len(nameQueue) : ReleaseName(nameQueue, p)[j] = nameQueue[k]
        BY <1>0, ReleaseNameProps DEF TypeOK
      <3>2. QueuedServing'
        <4>1. \A j \in 1..Len(nameQueue') : \E k \in 1..Len(nameQueue) :
                nameQueue'[j] = nameQueue[k]
          BY <2>2, <3>1
        <4>2. \A k \in 1..Len(nameQueue) :
                srv'[nameQueue[k]] \in {"register", "serve", "exit", "gone"}
          BY <1>0, <2>2 DEF IInv, TypeOK, QueuedServing
        <4>3. QED
          BY <4>1, <4>2 DEF QueuedServing
      <3>3. PreSpawn' /\ NoteServing' /\ NoteApplied'
        BY <1>0, <1>8, <2>2 DEF ServerRegister, IInv, TypeOK, PreSpawn,
           NoteServing, NoteApplied
      <3>4. QED
        BY <1>0, <3>2, <3>3 DEF IInv
    <2>3. QED
      BY <1>8, <2>1, <2>2 DEF ServerRegister
  <1>9. ASSUME NEW p \in Procs, TryHandleNext(p) PROVE IInv'
    <2>1. PreSpawn' /\ QueuedServing' /\ NoteServing'
      BY <1>9 DEF TryHandleNext, IInv, PreSpawn, QueuedServing, NoteServing
    <2>2. NoteApplied'
      <3> SUFFICES ASSUME NEW q \in Procs, lastNote' = q,
                          srv'[q] \in {"register", "serve"}
                   PROVE  IF inbox'[q] = <<>> THEN awin'[q] = active'
                                              ELSE Last(inbox'[q]) = active'
        BY DEF NoteApplied
      <3>1. CASE q # p
        BY <1>0, <1>9, <3>1 DEF TryHandleNext, NotifyActiveWindow, IInv, TypeOK,
           NoteApplied
      <3>2. CASE q = p
        <4>1. /\ inbox[p] \in Seq(Windows) /\ inbox[p] # <<>>
              /\ Last(inbox[p]) = active
          BY <1>9, <3>2 DEF TryHandleNext, IInv, TypeOK, NoteApplied
        <4>2. /\ inbox'[p] = Tail(inbox[p]) /\ awin'[p] = Head(inbox[p])
              /\ active' = active
          BY <1>0, <1>9 DEF TryHandleNext, NotifyActiveWindow, TypeOK
        <4>3. QED
          BY <3>2, <4>1, <4>2, LastTail
      <3>3. QED
        BY <3>1, <3>2
    <2>3. QED
      BY <1>0, <2>1, <2>2 DEF IInv
  <1>10. ASSUME NEW p \in Procs, CurrentApplication(p) PROVE IInv'
    BY <1>0, <1>10 DEF CurrentApplication, IInv, PreSpawn, QueuedServing,
       NoteServing, NoteApplied
  <1>11. ASSUME NEW p \in Procs, CurrentWindow(p) PROVE IInv'
    BY <1>0, <1>11 DEF CurrentWindow, IInv, PreSpawn, QueuedServing,
       NoteServing, NoteApplied
  <1>12. ASSUME NEW p \in Procs, Exit(p) PROVE IInv'
    <2>1. PreSpawn' /\ NoteServing' /\ NoteApplied'
      BY <1>0, <1>12 DEF Exit, IInv, TypeOK, PreSpawn, NoteServing, NoteApplied
    <2>2. QueuedServing'
      <3>0. \A j \in 1..Len(ReleaseName(nameQueue, p)) : \E k \in 1..Len(nameQueue) :
              ReleaseName(nameQueue, p)[j] = nameQueue[k]
        BY <1>0, ReleaseNameProps DEF TypeOK
      <3>1. \A j \in 1..Len(nameQueue') : \E k \in 1..Len(nameQueue) :
              nameQueue'[j] = nameQueue[k]
        BY <1>12, <3>0 DEF Exit
      <3>2. \A k \in 1..Len(nameQueue) : srv'[nameQueue[k]] \in {"register", "serve", "exit", "gone"}
        BY <1>0, <1>12 DEF Exit, IInv, TypeOK, QueuedServing
      <3>3. QED
        BY <3>1, <3>2 DEF QueuedServing
    <2>3. QED
      BY <1>0, <2>1, <2>2 DEF IInv
  <1>13. ASSUME NEW w \in Windows, WindowActivated(w) PROVE IInv'
    <2>1. PreSpawn' /\ QueuedServing'
      BY <1>13 DEF WindowActivated, IInv, PreSpawn, QueuedServing
    <2>2. CASE /\ script.running
               /\ Owner # None
               /\ inbox' = [inbox EXCEPT ![Owner] = Append(@, w)]
               /\ lastNote' = Owner
      <3>1. Len(nameQueue) >= 1 /\ Owner = nameQueue[1] /\ Owner \in Procs
        BY <1>0, <2>2 DEF Owner, TypeOK
      <3>2. NoteServing'
        BY <1>13, <2>2, <3>1 DEF WindowActivated, IInv, QueuedServing, NoteServing
      <3>3. /\ inbox'[Owner] = Append(inbox[Owner], w)
            /\ inbox[Owner] \in Seq(Windows)
            /\ active' = w
        BY <1>0, <1>13, <2>2, <3>1 DEF WindowActivated, TypeOK
      <3>4. inbox'[Owner] # <<>> /\ Last(inbox'[Owner]) = active'
        BY <3>3, LastAppend
      <3>5. NoteApplied'
        BY <2>2, <3>1, <3>4 DEF NoteApplied
      <3>6. QED
        BY <1>0, <2>1, <3>2, <3>5 DEF IInv
    <2>3. CASE /\ ~script.running \/ Owner = None
               /\ lastNote' = None
               /\ UNCHANGED inbox
      BY <1>0, <2>1, <2>3, KdeClientAssumption DEF IInv, NoteServing, NoteApplied
    <2>4. QED
      BY <1>13, <2>2, <2>3 DEF WindowActivated
  <1>14. CASE UNCHANGED vars
    BY <1>0, <1>14 DEF vars, IInv, PreSpawn, QueuedServing, NoteServing,
       NoteApplied
  <1>15. QED
    BY <1>1, <1>2, <1>3, <1>4, <1>5, <1>6, <1>7, <1>8, <1>9, <1>10,
       <1>11, <1>12, <1>13, <1>14 DEF Next, Main, Server

\* The try_handle_next loop applies NotifyActiveWindow calls in the order
\* KWin sent them: whenever the last activation went to a serving process
\* that has handled all its calls, its ActiveWindow cell holds the window
\* KWin has active, for any number of processes, windows and activations.
THEOREM ServedWindowCorrect == Spec => []ServedWindowIsActive
  <1>1. IInv => ServedWindowIsActive
    BY DEF IInv, NoteApplied, ServedWindowIsActive
  <1>2. QED
    BY IInvInit, IInvStep, <1>1, PTL DEF Spec

-----------------------------------------------------------------------------
(* The result connect reports.                                             *)

\* only Exit ends a server thread that way
GoneExited == \A p \in Procs : srv[p] = "gone" => pc[p] = "exited"

\* the channel carries Ok only from a thread that got to serve, and Err
\* only from one that stopped
ChanMatches ==
  \A p \in Procs :
    /\ chan[p] = TRUE => srv[p] \in {"serve", "gone"}
    /\ chan[p] = FALSE => srv[p] \in {"exit", "gone"}

\* once new has returned, the server thread is absent, serving or stopped
ReadyServer ==
  \A p \in Procs : pc[p] = "ready" => srv[p] \in {"none", "serve", "exit"}

SInv == TypeOK /\ PreSpawn /\ GoneExited /\ ChanMatches /\ ReadyServer
        /\ SupportedReflectsServer

\* the initial state satisfies it
LEMMA SInvInit == Init => SInv
  BY TypeInit, KdeClientAssumption DEF Init, SInv, PreSpawn, GoneExited, ChanMatches, ReadyServer,
     SupportedReflectsServer

\* every step keeps it
LEMMA SInvStep == SInv /\ [Next]_vars => SInv'
  <1> USE KdeClientAssumption DEF client, handler, kwin, bus
  <1> SUFFICES ASSUME SInv, [Next]_vars PROVE SInv'
    OBVIOUS
  <1>0. TypeOK /\ TypeOK'
    BY TypeStep DEF SInv
  <1> DEFINE Rest == PreSpawn /\ GoneExited /\ ChanMatches /\ ReadyServer
                     /\ SupportedReflectsServer
  <1> HIDE DEF Rest
  <1>00. SUFFICES Rest'
    BY <1>0 DEF SInv, Rest
  <1>1. ASSUME NEW p \in Procs, IsScriptLoaded(p) PROVE Rest'
    BY <1>0, <1>1 DEF IsScriptLoaded, SetSupported, SInv, TypeOK, Rest,
       PreSpawn, GoneExited, ChanMatches, ReadyServer, SupportedReflectsServer
  <1>2. ASSUME NEW p \in Procs, LoadScript(p) PROVE Rest'
    BY <1>0, <1>2 DEF LoadScript, SInv, TypeOK, Rest,
       PreSpawn, GoneExited, ChanMatches, ReadyServer, SupportedReflectsServer
  <1>3. ASSUME NEW p \in Procs, StartScript(p) PROVE Rest'
    BY <1>0, <1>3 DEF StartScript, SInv, TypeOK, Rest,
       PreSpawn, GoneExited, ChanMatches, ReadyServer, SupportedReflectsServer
  <1>4. ASSUME NEW p \in Procs, UnloadScript(p) PROVE Rest'
    BY <1>0, <1>4 DEF UnloadScript, SetSupported, SInv, TypeOK, Rest,
       PreSpawn, GoneExited, ChanMatches, ReadyServer, SupportedReflectsServer
  <1>5. ASSUME NEW p \in Procs, Spawn(p) PROVE Rest'
    BY <1>0, <1>5 DEF Spawn, SInv, TypeOK, Rest,
       PreSpawn, GoneExited, ChanMatches, ReadyServer, SupportedReflectsServer
  <1>6. ASSUME NEW p \in Procs, Recv(p) PROVE Rest'
    <2>1. srv[p] \in {"serve", "exit"} /\ (chan[p] = TRUE <=> srv[p] = "serve")
      BY <1>0, <1>6 DEF Recv, SInv, TypeOK, GoneExited, ChanMatches
    <2>2. QED
      BY <1>0, <1>6, <2>1 DEF Recv, SetSupported, SInv, TypeOK, Rest,
         PreSpawn, GoneExited, ChanMatches, ReadyServer, SupportedReflectsServer
  <1>7. ASSUME NEW p \in Procs, ServerConnect(p) PROVE Rest'
    <2>1. pc[p] # "ready" /\ UNCHANGED <<pc, supported>>
      BY <1>7 DEF ServerConnect, SInv, ReadyServer
    <2>2. CASE /\ chan' = [chan EXCEPT ![p] = FALSE]
               /\ srv' = [srv EXCEPT ![p] = "exit"]
      BY <1>0, <1>7, <2>1, <2>2 DEF ServerConnect, SInv, TypeOK, Rest,
         PreSpawn, GoneExited, ChanMatches, ReadyServer, SupportedReflectsServer
    <2>3. CASE /\ srv' = [srv EXCEPT ![p] = "register"]
               /\ UNCHANGED chan
      BY <1>0, <1>7, <2>1, <2>3 DEF ServerConnect, SInv, TypeOK, Rest,
         PreSpawn, GoneExited, ChanMatches, ReadyServer, SupportedReflectsServer
    <2>4. QED
      BY <1>7, <2>2, <2>3 DEF ServerConnect
  <1>8. ASSUME NEW p \in Procs, ServerRegister(p) PROVE Rest'
    <2>1. pc[p] \notin {"ready", "new", "load", "start", "unload", "spawn"}
          /\ UNCHANGED <<pc, supported>>
      BY <1>8 DEF ServerRegister, SInv, ReadyServer, PreSpawn
    <2>2. CASE /\ chan' = [chan EXCEPT ![p] = TRUE]
               /\ srv' = [srv EXCEPT ![p] = "serve"]
      BY <1>0, <2>1, <2>2 DEF SInv, TypeOK, Rest,
         PreSpawn, GoneExited, ChanMatches, ReadyServer, SupportedReflectsServer
    <2>3. CASE /\ chan' = [chan EXCEPT ![p] = FALSE]
               /\ srv' = [srv EXCEPT ![p] = "exit"]
      BY <1>0, <2>1, <2>3 DEF SInv, TypeOK, Rest,
         PreSpawn, GoneExited, ChanMatches, ReadyServer, SupportedReflectsServer
    <2>4. QED
      BY <1>8, <2>2, <2>3 DEF ServerRegister
  <1>9. ASSUME NEW p \in Procs, TryHandleNext(p) PROVE Rest'
    BY <1>9 DEF TryHandleNext, SInv, Rest,
       PreSpawn, GoneExited, ChanMatches, ReadyServer, SupportedReflectsServer
  <1>10. ASSUME NEW p \in Procs, CurrentApplication(p) \/ CurrentWindow(p)
         PROVE Rest'
    BY <1>10 DEF CurrentApplication, CurrentWindow, SInv, Rest,
       PreSpawn, GoneExited, ChanMatches, ReadyServer, SupportedReflectsServer
  <1>11. ASSUME NEW p \in Procs, Exit(p) PROVE Rest'
    BY <1>0, <1>11 DEF Exit, SInv, TypeOK, Rest,
       PreSpawn, GoneExited, ChanMatches, ReadyServer, SupportedReflectsServer
  <1>12. ASSUME NEW w \in Windows, WindowActivated(w) PROVE Rest'
    BY <1>12 DEF WindowActivated, SInv, Rest,
       PreSpawn, GoneExited, ChanMatches, ReadyServer, SupportedReflectsServer
  <1>13. CASE UNCHANGED vars
    BY <1>13 DEF vars, SInv, Rest,
       PreSpawn, GoneExited, ChanMatches, ReadyServer, SupportedReflectsServer
  <1>14. QED
    BY <1>1, <1>2, <1>3, <1>4, <1>5, <1>6, <1>7, <1>8, <1>9, <1>10,
       <1>11, <1>12, <1>13 DEF Next, Main, Server

\* KdeClient::new reports the truth about its server thread, for every set
\* of processes: once connect has returned, supported() is true exactly
\* when the thread is serving the ActiveWindowInterface.  Every error path
\* of load_kwin_script and of the thread reports false, and the thread
\* sends Ok only after object_server.at.
THEOREM SupportedCorrect == Spec => []SupportedReflectsServer
  <1>1. SInv => SupportedReflectsServer
    BY DEF SInv
  <1>2. QED
    BY SInvInit, SInvStep, <1>1, PTL DEF Spec

-----------------------------------------------------------------------------
(* A supported process is queued for the name.                             *)

\* a server thread past request_name and not yet stopped is in the queue
QueuedWhileServing ==
  \A p \in Procs :
    srv[p] \in {"register", "serve"} => \E i \in 1..Len(nameQueue) : nameQueue[i] = p

QInv == SInv /\ QueuedWhileServing

\* releasing one process keeps every other member of the queue
LEMMA ReleaseNameKeeps ==
  ASSUME NEW S, NEW q \in Seq(S), NEW x, NEW k \in 1..Len(q), q[k] # x
  PROVE  \E j \in 1..Len(ReleaseName(q, x)) : ReleaseName(q, x)[j] = q[k]
  <1>1. CASE \E i \in 1..Len(q) : q[i] = x
    <2> DEFINE i == CHOOSE i \in 1..Len(q) : q[i] = x
    <2>1. i \in 1..Len(q) /\ q[i] = x /\ i # k
      BY <1>1
    <2>2. ReleaseName(q, x) = DropAt(q, i)
      BY <1>1 DEF ReleaseName
    <2>3. CASE k < i
      <3>1. k \in 1..Len(DropAt(q, i)) /\ DropAt(q, i)[k] = q[k]
        BY <2>1, <2>3 DEF DropAt
      <3>2. QED
        BY <2>2, <3>1
    <2>4. CASE k > i
      <3>1. k - 1 \in 1..Len(DropAt(q, i)) /\ DropAt(q, i)[k - 1] = q[k]
        BY <2>1, <2>4 DEF DropAt
      <3>2. QED
        BY <2>2, <3>1
    <2>5. QED
      BY <2>1, <2>3, <2>4
  <1>2. CASE ~\E i \in 1..Len(q) : q[i] = x
    BY <1>2 DEF ReleaseName
  <1>3. QED
    BY <1>1, <1>2

LEMMA QInvInit == Init => QInv
  BY SInvInit DEF Init, QInv, QueuedWhileServing

\* every step keeps it
LEMMA QInvStep == QInv /\ [Next]_vars => QInv'
  <1> USE KdeClientAssumption DEF client, handler, kwin, bus
  <1> SUFFICES ASSUME QInv, [Next]_vars PROVE QueuedWhileServing'
    BY SInvStep DEF QInv
  <1>0. TypeOK /\ TypeOK'
    BY TypeStep DEF QInv, SInv
  <1> DEFINE Queued(p, q) == \E i \in 1..Len(q) : q[i] = p
  <1>1. UNCHANGED <<srv, nameQueue>> => QueuedWhileServing'
    BY DEF QInv, QueuedWhileServing
  <1>2. ASSUME NEW p \in Procs, ServerConnect(p) PROVE QueuedWhileServing'
    <2>1. CASE /\ chan' = [chan EXCEPT ![p] = FALSE]
               /\ srv' = [srv EXCEPT ![p] = "exit"]
               /\ UNCHANGED nameQueue
      BY <1>0, <2>1 DEF QInv, QueuedWhileServing, TypeOK
    <2>2. CASE /\ nameQueue' = Append(nameQueue, p)
               /\ srv' = [srv EXCEPT ![p] = "register"]
      <3> SUFFICES ASSUME NEW r \in Procs, srv'[r] \in {"register", "serve"}
                   PROVE  Queued(r, nameQueue')
        BY DEF QueuedWhileServing
      <3>1. nameQueue \in Seq(Procs)
        BY <1>0 DEF TypeOK
      <3>2. CASE r = p
        <4>1. Len(nameQueue') = Len(nameQueue) + 1 /\ nameQueue'[Len(nameQueue) + 1] = p
          BY <2>2, <3>1
        <4>2. QED
          BY <3>2, <3>1, <4>1
      <3>3. CASE r # p
        <4>1. Queued(r, nameQueue)
          BY <1>0, <2>2, <3>3 DEF QInv, QueuedWhileServing, TypeOK
        <4>2. \A i \in 1..Len(nameQueue) : i \in 1..Len(nameQueue') /\ nameQueue'[i] = nameQueue[i]
          BY <2>2, <3>1
        <4>3. QED
          BY <4>1, <4>2
      <3>4. QED
        BY <3>2, <3>3
    <2>3. QED
      BY <1>2, <2>1, <2>2 DEF ServerConnect
  <1>3. ASSUME NEW p \in Procs, ServerRegister(p) PROVE QueuedWhileServing'
    <2>1. CASE /\ srv' = [srv EXCEPT ![p] = "serve"]
               /\ UNCHANGED <<nameQueue, inbox>>
      BY <1>0, <1>3, <2>1 DEF ServerRegister, QInv, QueuedWhileServing, TypeOK
    <2>2. CASE /\ srv' = [srv EXCEPT ![p] = "exit"]
               /\ nameQueue' = ReleaseName(nameQueue, p)
      <3> SUFFICES ASSUME NEW r \in Procs, srv'[r] \in {"register", "serve"}
                   PROVE  Queued(r, nameQueue')
        BY DEF QueuedWhileServing
      <3>1. r # p /\ srv[r] \in {"register", "serve"}
        BY <1>0, <2>2 DEF TypeOK
      <3>2. PICK k \in 1..Len(nameQueue) : nameQueue[k] = r
        BY <3>1 DEF QInv, QueuedWhileServing
      <3>3. nameQueue \in Seq(Procs)
        BY <1>0 DEF TypeOK
      <3>4. \E j \in 1..Len(ReleaseName(nameQueue, p)) :
              ReleaseName(nameQueue, p)[j] = nameQueue[k]
        BY <3>1, <3>2, <3>3, ReleaseNameKeeps
      <3>5. QED
        BY <2>2, <3>2, <3>4
    <2>3. QED
      BY <1>3, <2>1, <2>2 DEF ServerRegister
  <1>4. ASSUME NEW p \in Procs, Exit(p) PROVE QueuedWhileServing'
    <2> SUFFICES ASSUME NEW r \in Procs, srv'[r] \in {"register", "serve"}
                 PROVE  Queued(r, nameQueue')
      BY DEF QueuedWhileServing
    <2>1. r # p /\ srv[r] \in {"register", "serve"}
      BY <1>0, <1>4 DEF Exit, TypeOK
    <2>2. PICK k \in 1..Len(nameQueue) : nameQueue[k] = r
      BY <2>1 DEF QInv, QueuedWhileServing
    <2>3. nameQueue \in Seq(Procs)
      BY <1>0 DEF TypeOK
    <2>4. \E j \in 1..Len(ReleaseName(nameQueue, p)) :
            ReleaseName(nameQueue, p)[j] = nameQueue[k]
      BY <2>1, <2>2, <2>3, ReleaseNameKeeps
    <2>5. QED
      BY <1>4, <2>2, <2>4 DEF Exit
  <1>5. ASSUME NEW p \in Procs,
               \/ IsScriptLoaded(p) \/ Main(p) \/ TryHandleNext(p)
               \/ CurrentApplication(p) \/ CurrentWindow(p)
        PROVE  QueuedWhileServing'
    <2>1. CASE Spawn(p)
      BY <1>0, <2>1 DEF Spawn, QInv, QueuedWhileServing, TypeOK
    <2>2. CASE ~Spawn(p)
      BY <1>1, <1>5, <2>2 DEF IsScriptLoaded, Main, LoadScript, StartScript,
         UnloadScript, Recv, SetSupported, TryHandleNext, CurrentApplication,
         CurrentWindow
    <2>3. QED
      BY <2>1, <2>2
  <1>6. ASSUME NEW w \in Windows, WindowActivated(w) PROVE QueuedWhileServing'
    BY <1>1, <1>6 DEF WindowActivated
  <1>7. CASE UNCHANGED vars
    BY <1>1, <1>7 DEF vars
  <1>8. QED
    BY <1>2, <1>3, <1>4, <1>5, <1>6, <1>7 DEF Next, Server

\* For every number of processes, an xremap whose KdeClient::new reported
\* supported() is in the queue of com.k0kubun.Xremap: its request_name was
\* granted or queued, never refused, and only its own exit removes it.
THEOREM SupportedQueuedCorrect == Spec => []SupportedQueued
  <1>1. QInv => SupportedQueued
    BY DEF QInv, SInv, SupportedReflectsServer, QueuedWhileServing, SupportedQueued
  <1>2. QED
    BY QInvInit, QInvStep, <1>1, PTL DEF Spec

-----------------------------------------------------------------------------
(* Refinement of ActiveWindowView.                                         *)

\* a step that leaves the routed calls, the cells and the active window
\* alone, ends no process and fails no server thread, leaves every view and
\* the live set alone
LEMMA ViewStutter ==
  ASSUME UNCHANGED <<inbox, awin, active>>,
         \A q \in Procs : pc'[q] = "exited" <=> pc[q] = "exited",
         \A q \in Procs : srv'[q] = "exit" <=> srv[q] = "exit"
  PROVE  UNCHANGED <<ViewOf, active, LiveOf>>
  BY DEF ViewOf, LiveOf

\* a step of the main thread moves one process between states other than
\* exited
LEMMA MainMove ==
  ASSUME NEW p \in Procs, NEW x, TypeOK, pc[p] # "exited", x # "exited",
         pc' = [pc EXCEPT ![p] = x]
  PROVE  \A q \in Procs : pc'[q] = "exited" <=> pc[q] = "exited"
  BY DEF TypeOK

\* a step of a server thread that neither fails nor had failed
LEMMA SrvMove ==
  ASSUME NEW p \in Procs, NEW x, TypeOK, srv[p] # "exit", x # "exit",
         srv' = [srv EXCEPT ![p] = x]
  PROVE  \A q \in Procs : srv'[q] = "exit" <=> srv[q] = "exit"
  BY DEF TypeOK

\* a server thread that fails and reports Err ends its process's view
LEMMA ViewFail ==
  ASSUME NEW p \in Procs, TypeOK, UNCHANGED <<pc, awin, active>>,
         srv[p] # "exit", srv' = [srv EXCEPT ![p] = "exit"],
         \A q \in Procs \ {p} : inbox'[q] = inbox[q]
  PROVE  [AW!Next]_<<ViewOf, active, LiveOf>>
  <1>1. CASE pc[p] = "exited"
    <2>1. UNCHANGED <<ViewOf, LiveOf>>
      BY <1>1 DEF ViewOf, LiveOf, TypeOK
    <2>2. QED
      BY <2>1
  <1>2. CASE pc[p] # "exited"
    <2>1. p \in LiveOf /\ LiveOf' = LiveOf \ {p}
      BY <1>2 DEF LiveOf, TypeOK
    <2>2. ViewOf' = [ViewOf EXCEPT ![p] = None]
      BY DEF ViewOf, TypeOK
    <2>3. AW!End(p)
      BY <2>1, <2>2 DEF AW!End
    <2>4. QED
      BY <2>3 DEF AW!Next
  <1>3. QED
    BY <1>1, <1>2

\* the initial states map to initial states of the promise
LEMMA ViewInit == Init => AW!Init
  BY DEF Init, AW!Init, ViewOf, LiveOf

\* every step maps to an activation, an end, or a stutter of the promise
LEMMA ViewStep ==
  SInv /\ [Next]_vars => [AW!Next]_<<ViewOf, active, LiveOf>>
  <1> USE DEF client, handler, kwin, bus
  <1> SUFFICES ASSUME SInv, [Next]_vars
               PROVE  [AW!Next]_<<ViewOf, active, LiveOf>>
    OBVIOUS
  <1>0. TypeOK
    BY DEF SInv
  <1>1. ASSUME NEW p \in Procs, IsScriptLoaded(p)
        PROVE  UNCHANGED <<ViewOf, active, LiveOf>>
    <2>1. \E x \in {"ready", "load", "spawn"} : pc' = [pc EXCEPT ![p] = x]
      BY <1>1 DEF IsScriptLoaded, SetSupported
    <2>2. \A q \in Procs : pc'[q] = "exited" <=> pc[q] = "exited"
      BY <1>0, <1>1, <2>1, MainMove DEF IsScriptLoaded
    <2>3. QED
      BY <1>1, <2>2, ViewStutter DEF IsScriptLoaded
  <1>2. ASSUME NEW p \in Procs, Main(p)
        PROVE  UNCHANGED <<ViewOf, active, LiveOf>>
    <2>1. /\ pc[p] \in {"load", "start", "unload", "spawn", "recv"}
          /\ \E x \in {"unload", "start", "spawn", "ready", "recv"} :
               pc' = [pc EXCEPT ![p] = x]
          /\ UNCHANGED <<inbox, awin, active>>
      BY <1>2 DEF Main, LoadScript, StartScript, UnloadScript, Spawn, Recv,
         SetSupported
    <2>2. \A q \in Procs : pc'[q] = "exited" <=> pc[q] = "exited"
      BY <1>0, <2>1, MainMove
    <2>3. \A q \in Procs : srv'[q] = "exit" <=> srv[q] = "exit"
      <3>1. CASE Spawn(p)
        <4>1. srv[p] = "none"
          BY <3>1 DEF Spawn, SInv, PreSpawn
        <4>2. QED
          BY <1>0, <3>1, <4>1, SrvMove DEF Spawn
      <3>2. CASE ~Spawn(p)
        BY <1>2, <3>2 DEF Main, LoadScript, StartScript, UnloadScript, Recv,
           SetSupported
      <3>3. QED
        BY <3>1, <3>2
    <2>4. QED
      BY <2>1, <2>2, <2>3, ViewStutter
  <1>3. ASSUME NEW p \in Procs, CurrentApplication(p) \/ CurrentWindow(p)
        PROVE  UNCHANGED <<ViewOf, active, LiveOf>>
    <2>1. UNCHANGED <<pc, srv, inbox, awin, active>>
      BY <1>3 DEF CurrentApplication, CurrentWindow
    <2>2. QED
      BY <2>1, ViewStutter
  <1>9. ASSUME NEW p \in Procs, ServerConnect(p)
        PROVE  [AW!Next]_<<ViewOf, active, LiveOf>>
    <2>1. srv[p] = "connect" /\ UNCHANGED <<pc, inbox, awin, active>>
      BY <1>9 DEF ServerConnect
    <2>2. CASE srv' = [srv EXCEPT ![p] = "exit"]
      BY <1>0, <2>1, <2>2, ViewFail
    <2>3. CASE srv' = [srv EXCEPT ![p] = "register"]
      BY <1>0, <2>1, <2>3, SrvMove, ViewStutter
    <2>4. QED
      BY <1>9, <2>2, <2>3 DEF ServerConnect
  <1>10. ASSUME NEW p \in Procs, ServerRegister(p)
         PROVE  [AW!Next]_<<ViewOf, active, LiveOf>>
    <2>1. srv[p] = "register" /\ UNCHANGED <<pc, awin, active>>
      BY <1>10 DEF ServerRegister
    <2>2. CASE srv' = [srv EXCEPT ![p] = "exit"] /\ inbox' = [inbox EXCEPT ![p] = <<>>]
      BY <1>0, <2>1, <2>2, ViewFail DEF TypeOK
    <2>3. CASE srv' = [srv EXCEPT ![p] = "serve"] /\ UNCHANGED inbox
      BY <1>0, <2>1, <2>3, SrvMove, ViewStutter
    <2>4. QED
      BY <1>10, <2>2, <2>3 DEF ServerRegister
  <1>4. ASSUME NEW p \in Procs, TryHandleNext(p)
        PROVE  UNCHANGED <<ViewOf, active, LiveOf>>
    <2>1. UNCHANGED <<pc, srv, active>>
      BY <1>4 DEF TryHandleNext
    <2>2. UNCHANGED LiveOf
      BY <2>1 DEF LiveOf
    <2>3. ASSUME NEW q \in Procs PROVE ViewOf'[q] = ViewOf[q]
      <3>1. CASE q # p
        BY <1>0, <1>4, <2>1, <3>1 DEF TryHandleNext, NotifyActiveWindow, ViewOf, TypeOK
      <3>2. CASE q = p
        <4>1. /\ inbox[p] \in Seq(Windows) /\ inbox[p] # <<>>
              /\ inbox'[p] = Tail(inbox[p]) /\ awin'[p] = Head(inbox[p])
          BY <1>0, <1>4 DEF TryHandleNext, NotifyActiveWindow, TypeOK
        <4>2. IF Tail(inbox[p]) = <<>> THEN Head(inbox[p]) = Last(inbox[p])
              ELSE Last(Tail(inbox[p])) = Last(inbox[p])
          BY <4>1, LastTail
        <4>3. QED
          BY <2>1, <3>2, <4>1, <4>2 DEF ViewOf
      <3>3. QED
        BY <3>1, <3>2
    <2>4. QED
      BY <2>1, <2>2, <2>3 DEF ViewOf
  <1>5. ASSUME NEW p \in Procs, Exit(p) PROVE [AW!Next]_<<ViewOf, active, LiveOf>>
    <2>1. CASE srv[p] = "exit"
      <3>1. p \notin LiveOf /\ ViewOf[p] = None /\ p \notin LiveOf' /\ ViewOf'[p] = None
        BY <1>0, <1>5, <2>1 DEF Exit, LiveOf, ViewOf, TypeOK
      <3>2. UNCHANGED <<ViewOf, active, LiveOf>>
        BY <1>0, <1>5, <3>1 DEF Exit, LiveOf, ViewOf, TypeOK
      <3>3. QED
        BY <3>2
    <2>2. CASE srv[p] # "exit"
      <3>1. p \in LiveOf /\ LiveOf' = LiveOf \ {p}
        BY <1>0, <1>5, <2>2 DEF Exit, LiveOf, TypeOK
      <3>2. ViewOf' = [ViewOf EXCEPT ![p] = None]
        BY <1>0, <1>5 DEF Exit, ViewOf, TypeOK
      <3>3. QED
        BY <1>5, <3>1, <3>2 DEF Exit, AW!End, AW!Next
    <2>3. QED
      BY <2>1, <2>2
  <1>6. ASSUME NEW w \in Windows, WindowActivated(w) PROVE AW!Activate(w)
    <2>1. w # active /\ active' = w /\ UNCHANGED <<pc, srv, awin>>
      BY <1>6 DEF WindowActivated
    <2>2. UNCHANGED LiveOf
      BY <2>1 DEF LiveOf
    <2>3. CASE /\ script.running
               /\ Owner # None
               /\ inbox' = [inbox EXCEPT ![Owner] = Append(@, w)]
      <3>1. Owner \in Procs /\ inbox[Owner] \in Seq(Windows)
        BY <1>0, <2>3 DEF Owner, TypeOK
      <3>2. Append(inbox[Owner], w) # <<>> /\ Last(Append(inbox[Owner], w)) = w
        BY <3>1, LastAppend
      <3>3. CASE pc[Owner] = "exited" \/ srv[Owner] = "exit"
        <4>1. UNCHANGED ViewOf
          BY <1>0, <2>1, <2>3, <3>1, <3>3 DEF ViewOf, TypeOK
        <4>2. QED
          BY <2>1, <2>2, <4>1 DEF AW!Activate
      <3>4. CASE ~(pc[Owner] = "exited" \/ srv[Owner] = "exit")
        <4>1. Owner \in LiveOf
          BY <3>1, <3>4 DEF LiveOf
        <4>2. ViewOf' = [ViewOf EXCEPT ![Owner] = w]
          BY <1>0, <2>1, <2>3, <3>1, <3>2, <3>4 DEF ViewOf, TypeOK
        <4>3. QED
          BY <2>1, <2>2, <4>1, <4>2 DEF AW!Activate
      <3>5. QED
        BY <3>3, <3>4
    <2>4. CASE UNCHANGED inbox
      <3>1. UNCHANGED ViewOf
        BY <2>1, <2>4 DEF ViewOf
      <3>2. QED
        BY <2>1, <2>2, <3>1 DEF AW!Activate
    <2>5. QED
      BY <1>6, <2>3, <2>4 DEF WindowActivated
  <1>7. CASE UNCHANGED vars
    BY <1>7, ViewStutter DEF vars
  <1>8. QED
    BY <1>1, <1>2, <1>3, <1>4, <1>5, <1>6, <1>7, <1>9, <1>10 DEF Next, Server, AW!Next

\* The KDE client implements the promise ActiveWindowView for every set of
\* processes and windows: the view a process's Client reads converge to
\* only ever moves to the window just activated, on the process the bus
\* routed the NotifyActiveWindow call to, or to None when the process ends;
\* the try_handle_next loop never moves it.
THEOREM ViewRefines == Spec => ViewRefinement
  <1>1. Spec => []SInv
    BY SInvInit, SInvStep, PTL DEF Spec
  <1>2. QED
    BY <1>1, ViewInit, ViewStep, PTL DEF Spec, ViewRefinement, AW!Spec

=============================================================================
