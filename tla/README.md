# Verification of xremap's KDE client and (planned) event-handler core

This directory holds TLA+ models of the parts of xremap that this repository
contains, TLC configurations that model-check them, and TLAPS proofs.

## 1. The system

The repository holds two source files.

* `src/src/client/kde_client.rs` is the KDE/KWin window-manager client. It
  supplies the `Client` capability `{supported, current_application,
  current_window}` that the event handler reads when it evaluates
  application and window predicates.
* `src/src/tests.rs` holds the tests of the event-handler core. These are the
  modmap and keymap rules, modifiers, nested remaps and relative-motion
  batching. The core itself is not in the repository. `spec.md` describes it.

### The KDE client: parts and how they interact

| Part | Where | State |
|---|---|---|
| main thread: `KdeClient::new`, `connect`, `load_kwin_script` | 100-180 | `pc`, `supported`, `scriptId` |
| server thread spawned by `connect` | 152-178 | `srv` |
| the `(tx, rx)` channel between them | 151, 169, 176, 179 | `chan` |
| `Arc<Mutex<ActiveWindow>>`, written by `notify_active_window` | 125, 221-240 | `awin` |
| the event handler's two reads `current_application` and `current_window` | 183-196 | `matching`, `seenApp`, `seenWin` |
| KWin's script registry (plugin `xremap`), outliving every xremap run | 32-97 | `script` |
| the user activating windows; the KWin script calling `NotifyActiveWindow` | 10 | `active`, `switches` |
| the session bus: the queue of `com.k0kubun.Xremap`, and calls routed to its owner | 157 | `nameQueue`, `inbox`, `lastNote` |

`new` runs `connect` and stores `Some(result.is_ok())`. `connect` works in
three steps.

1. It asks KWin whether the plugin is loaded.
2. If it is not, it writes the script to a temp file, then calls `loadScript`
   and `run`. If either fails, it calls `unloadScript` and returns the error.
3. It spawns a thread and blocks on `rx.recv()`. The thread opens its own
   session and requests the bus name with `ReplaceExisting`. It serves the
   `ActiveWindowInterface` and sends `Ok`, then loops on `try_handle_next`.
   Every failure of the thread sends `Err`.

Several xremap processes can run, one after another or at the same time. They
share KWin's registry and the name's queue, and that shared state is where
the hard behaviour lies.

### Hard behaviours

* **Interleavings.** Two processes interleave their checks and loads against
  KWin and their name requests. Inside one process, the server thread's
  notifications interleave with the handler's two reads.
* **Crashes and restarts.** A process may exit at any step. KWin keeps the
  plugin, and the bus passes the name to the next process in the queue.
* **Partial failures.** `loadScript` may succeed in KWin while its reply is
  lost. A later `unloadScript` may fail.
* **Ordering.** Queued calls must be applied in the order KWin sent them.
* **Liveness.** `rx.recv()` must return, and a routed call must reach the
  cell.

Each hazard is listed, with its line, in `PROJECT.json`.

## 2. Modules

| Module | Models |
|---|---|
| `KdeClient.tla` | The whole KDE client and its environment. There is one action per step of each thread, one per Client read, and one each for a window activation and a process exit. |
| `ActiveWindowView.tla` | The abstract promise of the client: each live process has a view, the window its reads will return once its pending calls are handled. An activation sets at most one view to the new window, and an end sets the ending process's view to `None`. |
| `KdeClientProofs.tla` | TLAPS proofs: type correctness, the truth of `supported()`, the queueing and the stable ownership of the bus name, the in-order application of notifications, and the refinement of `ActiveWindowView`. |
| `MC_KdeClient.tla` | Model values for the processes and windows, and the symmetry sets. |

### How the actions correspond to the code

* `IsScriptLoaded` models `Connection::new_session` and `is_script_loaded`
  (lines 101-102). Either call may fail, and `connect` then returns at once.
  Otherwise the process goes to the load or to the spawn.
* `LoadScript` models the temp-file write and `load_script` (103-106). It has
  three outcomes:
  - the call fails before KWin acts;
  - KWin loads the script but the reply is lost;
  - the reply arrives, with the new id, or with -1 when the plugin is already
    loaded (`None` in the model).
* `StartScript` models `start_script` (68-84, 107). It tries both object
  paths. It succeeds only if one of them reaches the loaded script object,
  which happens when the id is the loaded script's.
* `UnloadScript` models the error path (110-117). `unloadScript` removes the
  plugin or fails, then `new` stores `Some(false)`.
* `Spawn` and `Recv` model `connect`'s spawn and `rx.recv().unwrap()`
  (147-152, 179). `Recv` is enabled only once a result has been sent.
* `ServerConnect` models the first three calls of the thread (153-158):
  - any of them fails, and `Err` is sent (176);
  - or the name is requested. The bus either grants the name or queues the
    process behind the owner, and the reply is dropped.
* `ServerRegister` models `object_server.at` and `tx.send(Ok(()))` (159-169).
  When `at` fails, `Err` is sent (163, 176). The closure then drops the
  connection, so the bus releases the name and drops the calls routed to
  the process, and the thread ends in `"exit"`.
* `TryHandleNext` models one iteration of the `try_handle_next` loop
  (170-174). It dispatches the oldest pending call to `NotifyActiveWindow`
  (231-240), which writes the cell under its lock.
* `CurrentApplication` and `CurrentWindow` are the two `Client` reads that a
  rule match makes (187-195). Each takes the lock once. `matching` records
  that the first read has been made and the second has not.
* `WindowActivated` is the environment: the user switches windows, and the
  KWin script calls `NotifyActiveWindow` on the name. The bus routes the call
  to the name's owner, or drops it when there is no owner.
* `Exit` is a process ending: its threads stop, the bus releases its name and
  drops its pending calls, and the KWin registry is unchanged.

* `ConnectionLost` is the fault model, and it is only in `FaultSpec`. The
  session bus closes a serving thread's connection: it releases the name and
  drops the calls routed to the thread. From then on every `try_handle_next`
  returns `Err`, which the loop at 170-174 prints and retries without end.
  The thread sends nothing and never ends, so the model's thread stays in
  `"lost"`, and the retries change no state.

The model keeps control and abstracts data. The three strings of
`ActiveWindow` stand for the window they describe, and `None` is the empty
cell. A script object id is the process whose `loadScript` created it.

## 3. Runs

All runs use `MaxSwitches = 3` and two windows.

| Run | cfg | Procs | Checks | Result |
|---|---|---|---|---|
| `kde_safety` | `MC_KdeClient.cfg` | 3 | `SupportedReflectsServer`, `ServedWindowIsActive`, `SupportedQueued` | pass, about 249 000 distinct states |
| `kde_refine` | `MC_KdeClient_Refine.cfg` | 3 | `ViewRefinement` | pass, about 249 000 distinct states |
| `kde_live` | `MC_KdeClient_Live.cfg` | 2 | `ConnectReturns`, `EventuallyCurrent` under `FairSpec` | pass, about 47 000 distinct states |
| `kde_script` | `MC_KdeClient_Script.cfg` | 2 | `ScriptRunsWhileSupported` | violated |
| `kde_owner` | `MC_KdeClient_Owner.cfg` | 2 | `OwnsNameWhileSupported` | violated |
| `kde_context` | `MC_KdeClient_Context.cfg` | 2 | `ConsistentContext` | violated |
| `kde_lost` | `MC_KdeClient_Lost.cfg` | 2 | `SupportedReflectsServer` under `FaultSpec` | violated |
| `kde_takeover` | `MC_KdeClient_Takeover.cfg` | 2 | `OwnerKnowsActive` | violated |

The properties:

* **`SupportedReflectsServer`.** Once `new` has returned, `supported()` is
  true exactly when the process's server thread serves the interface.
* **`ServedWindowIsActive`.** When the last activation went to a serving
  process and that process has handled all its calls, its cell holds the
  window KWin has active. Calls are applied in order.
* **`ViewRefinement`.** The client implements `ActiveWindowView` under the
  refinement mapping `ViewOf` and `LiveOf`:
  - a process's view is `None` once it has exited or its server thread
    has failed;
  - otherwise it is its newest pending call, or its cell when no call is
    pending;
  - the live processes are those that have not exited and whose server
    thread has not failed.

  So `TryHandleNext` is a stutter of the promise, and `WindowActivated` is
  an `Activate`. `Exit` and a failing `ServerConnect` or `ServerRegister`
  are an `End`, or a stutter when the process had already left the live
  set. An activation routed to such an owner leaves every view alone. The property fails if the loop ever makes
  a view go back to an older window, for instance by consuming a call
  without applying it.
* **`SupportedQueued`.** A process whose `new` reported `supported()` is in
  the queue of `com.k0kubun.Xremap`. Its `request_name` was granted or
  queued, and only its own exit removes it. `kde_owner` shows that it need
  not be at the head.
* **`ConnectReturns`.** `KdeClient::new` never blocks for ever in
  `rx.recv()`.
* **`EventuallyCurrent`.** A call routed to a process reaches its cell,
  unless a later activation supersedes it, the process exits, or its
  `object_server.at` fails.
* **`ScriptRunsWhileSupported`** (violated, finding at line 102). A second
  process can see the plugin loaded but not yet running and skip loading it.
  A run can also inherit a plugin left loaded by a failed start whose unload
  failed. Either way the process reports `supported()` while no script runs.
  The comment at line 113 expects such a leftover to make later runs fail.
  Instead they succeed and never learn the window.
* **`OwnsNameWhileSupported`** (violated, finding at line 157). With
  `ReplaceExisting` and no `AllowReplacement` on the owner's side, a second
  xremap is queued. It still sends `Ok`, so it reports `supported()` while
  every call goes to the first process.
* **`SupportedReflectsServer` under `FaultSpec`** (violated, finding at
  line 171). After the bus connection is lost, `supported()` stays true.
  `current_application` keeps returning the last window, while the bus
  drops every later call. `spec.md` §5 says the capability may be
  temporarily unavailable and the core must tolerate `None`, but this client
  never reports that it is unavailable.
* **`OwnerKnowsActive`** (violated, finding at line 125). A process that
  owns the name, serves the interface and has handled every call routed to
  it, while the KWin script runs, should hold the active window. The cell
  starts empty and changes only on a `NotifyActiveWindow`. A process that
  gets the name when the previous owner exits is sent nothing until the
  user switches windows. Until then it reports `Some("")` or an old window.
  `spec.md` §5 says the capability supplies the active application and is
  `None` while unavailable. TLC's shortest trace is the start-up case. That
  half rests on the model's KWin script, which reports only changes,
  because `kwin-script.js` is not in `src/`. The takeover half does not.
* **`ConsistentContext`** (violated, finding at line 188). A notification
  between `current_application` and `current_window` gives one match the
  class of one window and the title of another. `spec.md` says the core
  acquires the capability briefly per match.

Each property of a passing run has a mutant in `PROJECT.json`, a plausible
bug in the code that TLC finds:

* `Recv` without waiting for the result;
* the error branch of the thread not sending;
* the pending calls dispatched newest first;
* the write going to a copy of the cell;
* a dispatched call consumed without being applied (for `ViewRefinement`);
* `request_name` refused instead of queued, as with `DoNotQueue` (for
  `SupportedQueued`).

**Why the bounds are enough.**

* Three processes give a name passed on twice by exits and a queue of two
  behind an owner. Two processes already give the overlap of load and start
  and the queued request.
* Two windows suffice, because an activation must change the window.
* Three activations queue two calls for one server while a third is routed
  elsewhere, or is dropped for want of an owner.
* Symmetry over processes and over windows is sound for the safety run:
  `Init` and every action treat the members of each set alike.
* The liveness run uses no symmetry.
* The refinement run needs the exits and a routed call pending behind an
  applied one, which three processes and three activations give.

**Deadlock** is not checked. Every process may end, and activations are
bounded, so the model is meant to stop.

**Fairness.** Weak fairness applies to each process's main-thread steps
after its first call (`Main`) and to its server thread (`Server`). The OS
schedules both threads, and every D-Bus call returns a reply or an error.
Nothing forces a process to start or to exit, a user to switch windows, or
the handler to read. So `IsScriptLoaded`, `Exit`, `WindowActivated` and the
two `Client` reads are not fair.

## 4. Proofs (`KdeClientProofs.tla`, checked by `tlapm`)

The only assumption is `KdeClientAssumption`. It requires that `Procs` and
`Windows` are non-empty, that `None` is none of their members and not a
Boolean, and that `MaxSwitches` is a natural number.

* **`TypeCorrect`: `Spec => []TypeOK`.** This theorem rests on `TypeInit` and
  `TypeStep`, with one step per action.
  - The queue operation `ReleaseName` rests on `DropAtProps` and
    `ReleaseNameProps`: the result is a sequence of the queue's own
    elements.
  - TLC does not check `TypeOK`, because the theorem holds for every value
    of the constants.
* **`ServedWindowCorrect`: `Spec => []ServedWindowIsActive`.** This is the
  property that `kde_safety` checks. It holds for every number of
  processes, windows and activations. `ServedWindowIsActive` is not
  inductive on its own. A step of `WindowActivated` appends to the owner's
  inbox. One needs to know that the owner has a live server, and that the
  newest queued call names the active window. The strengthening `IInv` is
  `TypeOK` plus four conjuncts:
  - `PreSpawn`: no server thread exists before `Spawn`;
  - `QueuedServing`: every queued process got past `request_name`;
  - `NoteServing`: the last call's target is such a process;
  - `NoteApplied`: for that target, the newest pending call names the
    active window, or the cell does when none is pending.

  `IInvInit` and `IInvStep` prove it inductive. TLC checked `IInv` first, on
  three processes. The steps for `TryHandleNext` and `WindowActivated` use
  the lemmas `LastTail` and `LastAppend` on `Last`.

* **`SupportedCorrect`: `Spec => []SupportedReflectsServer`.** This is the
  other property of `kde_safety`. `Recv` copies the channel into
  `supported`, so one needs the channel to agree with the thread. A thread
  must also not change state under a returned `new`. The strengthening
  `SInv` is `TypeOK`, `PreSpawn` and:
  - `GoneExited`: only an exit makes the thread `"gone"`;
  - `ChanMatches`: `Ok` on the channel means the thread serves or is gone,
    and `Err` means it stopped or is gone;
  - `ReadyServer`: after `new` has returned, the thread is absent, serving
    or stopped, never still connecting or registering.

  TLC checked `SInv` first, on three processes. `SInvInit` and `SInvStep`
  prove it inductive.
* **`ViewRefines`: `Spec => ViewRefinement`, that is `Spec => AW!Spec`.** This is the property that
  `kde_refine` checks, for every set of processes and windows.
  - `ViewInit` shows that the initial states map to the promise's initial
    states.
  - `ViewStep` shows, from `SInv`, that every step maps to an `Activate`,
    an `End` or a stutter. `SInv` is needed for `Spawn`: by `PreSpawn` the
    thread it starts has not failed, so the live set is unchanged.
  - `ViewFail` maps a failing server thread to an `End`, or to a stutter
    when its process has already exited.
  - `TryHandleNext` keeps the view by `LastTail`.
  - A routed activation sets the owner's view by `LastAppend`.
  - The main-thread steps keep the view because none of them moves a
    process to or from `"exited"`, and none makes a thread fail
    (`MainMove`, `SrvMove`, `ViewStutter`).

* **`SupportedQueuedCorrect`: `Spec => []SupportedQueued`.** This is the
  third property of `kde_safety`. `SupportedQueued` is not inductive,
  because `Recv` sets `supported` long after the thread was queued. The
  strengthening `QInv` is `SInv` plus `QueuedWhileServing`: a thread past
  `request_name` and not yet stopped is in the queue. With `SInv`, a
  supported process has a serving thread, so it is queued.
  - `QInvStep` reuses `SInvStep`.
  - Its `Exit` step and the failure of `ServerRegister` rest on the lemma
    `ReleaseNameKeeps`: releasing one process keeps every other member of
    the queue.
  - TLC checked `QInv` first, on three processes.
**Left to TLC only:**

* the liveness properties `ConnectReturns` and `EventuallyCurrent`, since
  TLAPS does not reason about fairness and `ENABLED`;
* the behaviour under `FaultSpec`, which is the counterexample above.

## 5. Not modelled, and the plan

* **`KwinScriptTempFile`.** This is file I/O. Every process uses the same
  path, `xremap-kwin-script.js` in the temp directory (line 22). So two
  processes starting together can overwrite each other's file. One
  process's `Drop` can also remove the file another has just passed to
  `loadScript`. The model has no file system. The effect of the race is a
  failed `loadScript`, or a loaded plugin that does not run, and the
  failure outcomes of `LoadScript` and `StartScript` already include both.
* **The busy loop itself.** After a lost connection, the loop's CPU use is
  not modelled, because its retries change no state. Its effect on what the
  client reports is what `kde_lost` shows.
* **KWin's script.** `kwin-script.js` is not in `src/`. The model takes it
  to call `NotifyActiveWindow` on each activation and at no other time.
  Whether it also reports the window when it starts cannot be read here.
  That matters only for the start-up half of `OwnerKnowsActive`.
* **The event-handler core: event model, keymap builder, modifier state,
  match engine, action generator, sub-map context, motion batching.** Its
  code is not in the repository, so it is to be modelled from `spec.md` and
  marked as such. The scenarios of `tests.rs` are then checked definitions.
  The plan, in order:
  1. an `EventHandler` module with modifier state, first-match selection
     with `exact_match`, and the release and restore of modifiers around an
     output, with properties that held keys are released in the output;
  2. sub-map expiry;
  3. motion batching, so that no key action appears inside a batch;
  4. a composition with the `Client` capability of `KdeClient`, so that
     application predicates read the cell;
  5. TLAPS proofs of the core's type and batching invariants.
* **Out of scope of the repository and of `spec.md`'s core:** the transport,
  configuration loading, the CLI and the other window-manager clients.
