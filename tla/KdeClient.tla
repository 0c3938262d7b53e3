------------------------------ MODULE KdeClient ------------------------------
(***************************************************************************)
(* The KDE window-manager client of xremap (src/client/kde_client.rs).     *)
(*                                                                         *)
(* Several xremap processes (Procs) may run, one after the other or        *)
(* overlapping.  Each one builds a KdeClient: its main thread checks       *)
(* whether the KWin script plugin "xremap" is loaded, loads and starts it  *)
(* if not (unloading it again when that fails), then spawns a server      *)
(* thread that requests the D-Bus name com.k0kubun.Xremap, serves the      *)
(* ActiveWindowInterface and reports the outcome over a channel.  The      *)
(* KWin script, once running, calls NotifyActiveWindow on that name each   *)
(* time the user activates another window; the server thread applies each  *)
(* call to the mutex-guarded ActiveWindow cell, which current_window and    *)
(* current_application read, one lock acquisition per call.               *)
(*                                                                         *)
(* KWin's script registry and the D-Bus name queue outlive every xremap    *)
(* process: they are the state a restart finds.                            *)
(***************************************************************************)
EXTENDS Naturals, Sequences, SequencesExt

CONSTANTS
  Procs,       \* the xremap processes that construct a KdeClient
  Windows,     \* the windows the user may activate
  None,        \* an absent value: Option::None, an empty ActiveWindow, id -1
  MaxSwitches  \* bound on the number of window activations

ASSUME KdeClientAssumption ==
  /\ Procs # {}
  /\ Windows # {}
  /\ None \notin Procs \cup Windows \cup BOOLEAN
  /\ MaxSwitches \in Nat

VARIABLES
  pc,         \* main thread of each process: where KdeClient::new is
  supported,  \* KdeClient.supported: None until connect returns
  scriptId,   \* the id load_script returned (None for none or -1)
  srv,        \* the server thread spawned by connect
  chan,       \* the (tx, rx) channel: None, or the Ok/Err sent (TRUE/FALSE)
  awin,       \* the ActiveWindow cell: the window last notified, None = ""
  matching,   \* the event handler is between the two client queries
  seenApp,    \* window whose res_class current_application returned
  seenWin,    \* window whose title current_window returned
  script,     \* KWin's registry entry for the plugin "xremap"
  active,     \* the window KWin has active
  switches,   \* number of activations so far
  nameQueue,  \* the D-Bus queue of com.k0kubun.Xremap; its head owns it
  inbox,      \* NotifyActiveWindow calls routed to a process, not yet handled
  lastNote    \* destination of the last activation's call, None if lost

client == <<pc, supported, scriptId, srv, chan, awin>>
handler == <<matching, seenApp, seenWin>>
kwin == <<script, active, switches>>
bus == <<nameQueue, inbox, lastNote>>
vars == <<client, handler, kwin, bus>>

MainStates == {"new", "load", "start", "unload", "spawn", "recv", "ready", "exited"}
ServerStates == {"none", "connect", "register", "serve", "lost", "exit", "gone"}

\* struct ActiveWindow: None stands for the three empty strings it starts with
ActiveWindowValues == Windows \cup {None}

\* KWin's registry entry of the plugin once unloadScript has removed it
Unloaded == [loaded |-> FALSE, running |-> FALSE, by |-> None]

\* the process that currently owns com.k0kubun.Xremap, or None
Owner == IF nameQueue = <<>> THEN None ELSE Head(nameQueue)

-----------------------------------------------------------------------------
(* KWin's side of the Scripting calls the client makes.                    *)

\* loadScript: a plugin name already loaded gives -1, otherwise a fresh
\* script object, identified here by the process that created it
KWinLoad(p) == IF script.loaded THEN script
               ELSE [loaded |-> TRUE, running |-> FALSE, by |-> p]

LoadScriptReply(p) == IF script.loaded THEN None ELSE p

\* run on /{id} or /Scripting/Script{id} reaches the object only for the id
\* of the loaded script
StartScriptReaches(p) == script.loaded /\ script.by = scriptId[p]

-----------------------------------------------------------------------------
(* Main thread: KdeClient::new, connect, load_kwin_script.                 *)

\* client.supported = Some(conn_res.is_ok()); new returns
SetSupported(p, ok) ==
  /\ supported' = [supported EXCEPT ![p] = ok]
  /\ pc' = [pc EXCEPT ![p] = "ready"]

\* Connection::new_session and is_script_loaded; either call failing makes
\* connect fail at once, without the unload of the error path
IsScriptLoaded(p) ==
  /\ pc[p] = "new"
  /\ \/ SetSupported(p, FALSE)
     \/ /\ ~script.loaded
        /\ pc' = [pc EXCEPT ![p] = "load"]
        /\ UNCHANGED supported
     \/ /\ script.loaded
        /\ pc' = [pc EXCEPT ![p] = "spawn"]
        /\ UNCHANGED supported
  /\ UNCHANGED <<scriptId, srv, chan, awin, handler, kwin, bus>>

\* init_script: write the temp file, then loadScript.  The write or the call
\* may fail before KWin sees it, or KWin may load the script and its reply
\* be lost; on a reply the id is kept for start_script
LoadScript(p) ==
  /\ pc[p] = "load"
  /\ \/ /\ pc' = [pc EXCEPT ![p] = "unload"]
        /\ UNCHANGED <<script, scriptId>>
     \/ /\ pc' = [pc EXCEPT ![p] = "unload"]
        /\ script' = KWinLoad(p)
        /\ UNCHANGED scriptId
     \/ /\ pc' = [pc EXCEPT ![p] = "start"]
        /\ script' = KWinLoad(p)
        /\ scriptId' = [scriptId EXCEPT ![p] = LoadScriptReply(p)]
  /\ UNCHANGED <<supported, srv, chan, awin, handler, active, switches, bus>>

\* start_script: run on either object path; Err unless one call succeeds
StartScript(p) ==
  /\ pc[p] = "start"
  /\ \/ /\ StartScriptReaches(p)
        /\ script' = [script EXCEPT !.running = TRUE]
        /\ pc' = [pc EXCEPT ![p] = "spawn"]
     \/ /\ pc' = [pc EXCEPT ![p] = "unload"]
        /\ UNCHANGED script
  /\ UNCHANGED <<supported, scriptId, srv, chan, awin, handler, active, switches, bus>>

\* the error path of load_kwin_script: unloadScript by plugin name (which
\* may fail), then connect returns the error
UnloadScript(p) ==
  /\ pc[p] = "unload"
  /\ \/ script' = Unloaded
     \/ UNCHANGED script
  /\ SetSupported(p, FALSE)
  /\ UNCHANGED <<scriptId, srv, chan, awin, handler, active, switches, bus>>

\* connect: spawn the server thread, then block in rx.recv()
Spawn(p) ==
  /\ pc[p] = "spawn"
  /\ srv' = [srv EXCEPT ![p] = "connect"]
  /\ pc' = [pc EXCEPT ![p] = "recv"]
  /\ UNCHANGED <<supported, scriptId, chan, awin, handler, kwin, bus>>

\* mutant: connect reports success without waiting for the server thread
RecvWithoutResult(p) ==
  /\ pc[p] = "recv"
  /\ SetSupported(p, TRUE)
  /\ UNCHANGED <<scriptId, srv, chan, awin, handler, kwin, bus>>

\* rx.recv().unwrap(): connect returns what the server thread sent
Recv(p) ==
  /\ pc[p] = "recv"
  /\ chan[p] # None
  /\ SetSupported(p, chan[p])
  /\ UNCHANGED <<scriptId, srv, chan, awin, handler, kwin, bus>>

\* the queue without its k-th entry, the others keeping their order
DropAt(q, k) == [j \in 1..Len(q) - 1 |-> IF j < k THEN q[j] ELSE q[j + 1]]

\* the bus drops a process from the queue of the name, where it appears once
ReleaseName(q, p) ==
  IF \E i \in 1..Len(q) : q[i] = p
  THEN DropAt(q, CHOOSE i \in 1..Len(q) : q[i] = p)
  ELSE q

-----------------------------------------------------------------------------
(* Server thread.                                                          *)

\* mutant: a failure of the connection closure ends the thread unsent
ServerConnectErrUnsent(p) ==
  /\ srv[p] = "connect"
  /\ \/ /\ srv' = [srv EXCEPT ![p] = "exit"]
        /\ UNCHANGED <<chan, nameQueue>>
     \/ /\ nameQueue' = Append(nameQueue, p)
        /\ srv' = [srv EXCEPT ![p] = "register"]
        /\ UNCHANGED chan
  /\ UNCHANGED <<pc, supported, scriptId, awin, handler, kwin, inbox, lastNote>>

\* mutant: request_name with DoNotQueue: refused, not queued, when the name
\* has an owner, and the thread goes on to serve all the same
ServerConnectNotQueued(p) ==
  /\ srv[p] = "connect"
  /\ \/ /\ chan' = [chan EXCEPT ![p] = FALSE]
        /\ srv' = [srv EXCEPT ![p] = "exit"]
        /\ UNCHANGED nameQueue
     \/ /\ nameQueue' = IF nameQueue = <<>> THEN <<p>> ELSE nameQueue
        /\ srv' = [srv EXCEPT ![p] = "register"]
        /\ UNCHANGED chan
  /\ UNCHANGED <<pc, supported, scriptId, awin, handler, kwin, inbox, lastNote>>

\* new_session, DBusProxy::new, request_name(ReplaceExisting).  A failure
\* sends Err and ends the thread.  The reply of request_name is dropped:
\* the name is granted, or the request is queued behind the owner, who did
\* not allow replacement
ServerConnect(p) ==
  /\ srv[p] = "connect"
  /\ \/ /\ chan' = [chan EXCEPT ![p] = FALSE]
        /\ srv' = [srv EXCEPT ![p] = "exit"]
        /\ UNCHANGED nameQueue
     \/ /\ nameQueue' = Append(nameQueue, p)
        /\ srv' = [srv EXCEPT ![p] = "register"]
        /\ UNCHANGED chan
  /\ UNCHANGED <<pc, supported, scriptId, awin, handler, kwin, inbox, lastNote>>

\* object_server.at(/com/k0kubun/Xremap, awi), then tx.send(Ok(())); when
\* at fails, the closure drops the connection, so the bus releases the name
\* and the calls routed to it, and Err is sent
ServerRegister(p) ==
  /\ srv[p] = "register"
  /\ \/ /\ chan' = [chan EXCEPT ![p] = TRUE]
        /\ srv' = [srv EXCEPT ![p] = "serve"]
        /\ UNCHANGED <<nameQueue, inbox>>
     \/ /\ chan' = [chan EXCEPT ![p] = FALSE]
        /\ srv' = [srv EXCEPT ![p] = "exit"]
        /\ nameQueue' = ReleaseName(nameQueue, p)
        /\ inbox' = [inbox EXCEPT ![p] = <<>>]
  /\ UNCHANGED <<pc, supported, scriptId, awin, handler, kwin, lastNote>>

\* mutant: the fields are written to a clone of the locked ActiveWindow
NotifyActiveWindowOnCopy(p, w) == UNCHANGED awin

\* notify_active_window: the three fields are written under one lock
NotifyActiveWindow(p, w) == awin' = [awin EXCEPT ![p] = w]

\* mutant: pending calls dispatched newest first
TryHandleNextNewestFirst(p) ==
  /\ srv[p] = "serve"
  /\ inbox[p] # <<>>
  /\ NotifyActiveWindow(p, Last(inbox[p]))
  /\ inbox' = [inbox EXCEPT ![p] = Front(@)]
  /\ UNCHANGED <<pc, supported, scriptId, srv, chan, handler, kwin, nameQueue, lastNote>>

\* mutant: a call whose dispatch fails is consumed without being applied
TryHandleNextErrDrops(p) ==
  /\ srv[p] = "serve"
  /\ inbox[p] # <<>>
  /\ inbox' = [inbox EXCEPT ![p] = Tail(@)]
  /\ UNCHANGED <<pc, supported, scriptId, srv, chan, awin, handler, kwin, nameQueue, lastNote>>

\* one iteration of the loop around object_server.try_handle_next()
TryHandleNext(p) ==
  /\ srv[p] = "serve"
  /\ inbox[p] # <<>>
  /\ NotifyActiveWindow(p, Head(inbox[p]))
  /\ inbox' = [inbox EXCEPT ![p] = Tail(@)]
  /\ UNCHANGED <<pc, supported, scriptId, srv, chan, handler, kwin, nameQueue, lastNote>>

-----------------------------------------------------------------------------
(* The Client trait, as the event handler uses it when it evaluates a rule *)
(* with application and window predicates: two calls, one lock each.       *)

CurrentApplication(p) ==
  /\ pc[p] = "ready"
  /\ supported[p] = TRUE
  /\ ~matching[p]
  /\ seenApp' = [seenApp EXCEPT ![p] = awin[p]]
  /\ matching' = [matching EXCEPT ![p] = TRUE]
  /\ UNCHANGED <<client, seenWin, kwin, bus>>

CurrentWindow(p) ==
  /\ pc[p] = "ready"
  /\ matching[p]
  /\ seenWin' = [seenWin EXCEPT ![p] = awin[p]]
  /\ matching' = [matching EXCEPT ![p] = FALSE]
  /\ UNCHANGED <<client, seenApp, kwin, bus>>

-----------------------------------------------------------------------------
(* Environment: the user activating windows, processes ending.            *)

\* the KWin script calls NotifyActiveWindow on the bus name; the bus routes
\* it to the owner, and drops it when the name has none
WindowActivated(w) ==
  /\ switches < MaxSwitches
  /\ w # active
  /\ active' = w
  /\ switches' = switches + 1
  /\ \/ /\ script.running
        /\ Owner # None
        /\ inbox' = [inbox EXCEPT ![Owner] = Append(@, w)]
        /\ lastNote' = Owner
     \/ /\ ~script.running \/ Owner = None
        /\ lastNote' = None
        /\ UNCHANGED inbox
  /\ UNCHANGED <<client, handler, script, nameQueue>>

\* an xremap process ends (exit, crash, kill) at any point after it started:
\* its threads stop, the bus releases its name and drops its pending calls;
\* the KWin script stays loaded
Exit(p) ==
  /\ pc[p] \notin {"new", "exited"}
  /\ pc' = [pc EXCEPT ![p] = "exited"]
  /\ srv' = [srv EXCEPT ![p] = "gone"]
  /\ nameQueue' = ReleaseName(nameQueue, p)
  /\ inbox' = [inbox EXCEPT ![p] = <<>>]
  /\ UNCHANGED <<supported, scriptId, chan, awin, handler, kwin, lastNote>>

-----------------------------------------------------------------------------

Init ==
  /\ pc = [p \in Procs |-> "new"]
  /\ supported = [p \in Procs |-> None]
  /\ scriptId = [p \in Procs |-> None]
  /\ srv = [p \in Procs |-> "none"]
  /\ chan = [p \in Procs |-> None]
  /\ awin = [p \in Procs |-> None]
  /\ matching = [p \in Procs |-> FALSE]
  /\ seenApp = [p \in Procs |-> None]
  /\ seenWin = [p \in Procs |-> None]
  /\ script = Unloaded
  /\ active \in Windows
  /\ switches = 0
  /\ nameQueue = <<>>
  /\ inbox = [p \in Procs |-> <<>>]
  /\ lastNote = None

\* the steps of connect after its first call: the process has started
Main(p) ==
  \/ LoadScript(p)
  \/ StartScript(p)
  \/ UnloadScript(p)
  \/ Spawn(p)
  \/ Recv(p)

Server(p) ==
  \/ ServerConnect(p)
  \/ ServerRegister(p)
  \/ TryHandleNext(p)

Next ==
  \/ \E p \in Procs :
       \/ IsScriptLoaded(p)
       \/ Main(p)
       \/ Server(p)
       \/ CurrentApplication(p)
       \/ CurrentWindow(p)
       \/ Exit(p)
  \/ \E w \in Windows : WindowActivated(w)

Spec == Init /\ [][Next]_vars

\* Both threads of a process are scheduled by the OS and every D-Bus call
\* returns (a reply or an error); nothing forces a process to start, a user to switch windows,
\* the handler to query, or a process to end.
Fairness == \A p \in Procs : WF_vars(Main(p)) /\ WF_vars(Server(p))

FairSpec == Spec /\ Fairness

-----------------------------------------------------------------------------
(* Fault model: the server thread's bus connection dies.                   *)

\* the session bus closes the connection of a serving thread: the bus
\* releases the name and drops the calls routed to it; every later
\* try_handle_next returns Err, which the loop prints and retries for ever,
\* so the thread neither sends nor ends and the cell keeps its last window
ConnectionLost(p) ==
  /\ srv[p] = "serve"
  /\ srv' = [srv EXCEPT ![p] = "lost"]
  /\ nameQueue' = ReleaseName(nameQueue, p)
  /\ inbox' = [inbox EXCEPT ![p] = <<>>]
  /\ UNCHANGED <<pc, supported, scriptId, chan, awin, handler, kwin, lastNote>>

FaultNext == Next \/ \E p \in Procs : ConnectionLost(p)

FaultSpec == Init /\ [][FaultNext]_vars

-----------------------------------------------------------------------------
(* Properties.                                                             *)

TypeOK ==
  /\ pc \in [Procs -> MainStates]
  /\ supported \in [Procs -> BOOLEAN \cup {None}]
  /\ scriptId \in [Procs -> Procs \cup {None}]
  /\ srv \in [Procs -> ServerStates]
  /\ chan \in [Procs -> BOOLEAN \cup {None}]
  /\ awin \in [Procs -> ActiveWindowValues]
  /\ matching \in [Procs -> BOOLEAN]
  /\ seenApp \in [Procs -> ActiveWindowValues]
  /\ seenWin \in [Procs -> ActiveWindowValues]
  /\ script \in [loaded : BOOLEAN, running : BOOLEAN, by : Procs \cup {None}]
  /\ active \in Windows
  /\ switches \in 0..MaxSwitches
  /\ nameQueue \in Seq(Procs)
  /\ inbox \in [Procs -> Seq(Windows)]
  /\ lastNote \in Procs \cup {None}

\* connect's result tells the truth about the server thread: once new has
\* returned, supported() is true exactly when the thread is serving the
\* ActiveWindowInterface (the channel carries the Ok only after
\* object_server.at, and every failure path of connect reports false).
SupportedReflectsServer ==
  \A p \in Procs : pc[p] = "ready" => (supported[p] = TRUE <=> srv[p] = "serve")

\* A process whose KdeClient::new reported supported() is at least waiting
\* for com.k0kubun.Xremap: its server thread's request_name was queued by
\* the bus, so the name will reach it when the processes ahead of it end.
SupportedQueued ==
  \A p \in Procs :
    (pc[p] = "ready" /\ supported[p] = TRUE) => \E i \in 1..Len(nameQueue) : nameQueue[i] = p

\* NotifyActiveWindow calls are applied in the order KWin sent them: when the
\* last activation was routed to a serving process and it has handled every
\* pending call, its ActiveWindow cell holds the window KWin has active.
ServedWindowIsActive ==
  \A p \in Procs :
    (lastNote = p /\ srv[p] = "serve" /\ inbox[p] = <<>>) => awin[p] = active

\* rx.recv() in connect never blocks for ever: every path of the server
\* thread sends exactly one result, so KdeClient::new returns.
ConnectReturns ==
  \A p \in Procs : pc[p] = "recv" ~> pc[p] \in {"ready", "exited"}

\* A window activation routed to a process reaches its ActiveWindow cell:
\* the try_handle_next loop eventually applies it, unless a later
\* activation or the end of the process supersedes it, or the thread's
\* object_server.at fails and it reports Err instead of serving.
EventuallyCurrent ==
  \A p \in Procs :
    lastNote = p ~> (awin[p] = active \/ lastNote # p \/ pc[p] = "exited" \/ srv[p] = "exit")

-----------------------------------------------------------------------------
(* Refinement of the promise ActiveWindowView.                             *)

\* The window a process's Client reads will return once its pending calls
\* are handled: the newest pending call, or the cell when none is pending.
ViewOf ==
  [p \in Procs |->
     IF pc[p] = "exited" \/ srv[p] = "exit" THEN None
     ELSE IF inbox[p] = <<>> THEN awin[p] ELSE Last(inbox[p])]

\* the processes that have not ended and whose server thread did not fail
LiveOf == {p \in Procs : pc[p] # "exited" /\ srv[p] # "exit"}

AW == INSTANCE ActiveWindowView WITH view <- ViewOf, live <- LiveOf

\* The client implements ActiveWindowView: every step of the two threads,
\* of KWin and of the bus either leaves every process's view alone or is an
\* activation that sets one view to the new window (or an exit); the
\* try_handle_next loop never makes a view go back to an older window.
ViewRefinement == AW!Spec

\* (violated) spec.md says the capability supplies the active application
\* and is None while unavailable: the process that owns the name, serves
\* the interface and has handled every call routed to it, while the KWin
\* script runs, knows the window
\* KWin has active.  The cell starts as empty strings and changes only on a
\* NotifyActiveWindow, so a process that gets the name at start-up or when
\* the previous owner exits reports Some("") until the user switches again.
OwnerKnowsActive ==
  \A p \in Procs :
    (script.running /\ Owner = p /\ srv[p] = "serve" /\ inbox[p] = <<>>) =>
      awin[p] = active

\* (violated) The comment in load_kwin_script says a failed unload "could
\* cause future runs of xremap to fail": a run that reports supported() has
\* a running KWin script sending it the active window.
ScriptRunsWhileSupported ==
  \A p \in Procs : (pc[p] = "ready" /\ supported[p] = TRUE) => script.running

\* (violated) A client that reports supported() is the one the KWin script's
\* notifications reach: it owns com.k0kubun.Xremap.
OwnsNameWhileSupported ==
  \A p \in Procs : (pc[p] = "ready" /\ supported[p] = TRUE) => Owner = p

\* (violated) The application and the window title that one rule match
\* evaluates describe the same window (spec: the core acquires the
\* capability once per match).
ConsistentContext ==
  \A p \in Procs : ~matching[p] => seenApp[p] = seenWin[p]

=============================================================================
