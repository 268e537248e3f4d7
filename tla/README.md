# Party Hard GO for NextOS: TLA+ models and proofs

This directory models the host program that runs the Android build of Party
Hard GO on a handheld (`src/src`, `src/vendor/nxinput`): the program loads the
game's native libraries, answers their JNI, EGL, pthread and libc calls, and
drives Unity's native methods from one frame loop.

The modules are translated from the source. `PROJECT.json` maps every definition
that models code to its lines; lists the components, the hazards of the code and
the properties aimed at them; the TLC runs; for every property a plausible bug of
the code that breaks it; and the theorems. The mutated definitions stand in the
modules just before the ones they replace, marked `Mutant`.

1. [The system](#1-the-system)
2. [The modules](#2-the-modules)
3. [What the runs show](#3-what-the-runs-show)
4. [What is proved](#4-what-is-proved)
5. [Where the code differs from its words](#5-where-the-code-differs-from-its-words)
6. [Abstractions, module by module](#6-abstractions-module-by-module)
7. [What is not modelled](#7-what-is-not-modelled)
8. [What is left](#8-what-is-left)
9. [Running](#9-running)

## 1. The system

`main.c` claims the machine, loads, links and constructs three libraries, starts
the audio thread and the HandlerThread of the choreographer, and enters the frame
loop (648-689), the spine of everything else. One turn is: `st_input_poll` (SDL
events, sampling of the pads, the port's hands inside the game, delivery to the
guest), a tick of the guest's collector, `st_jni_frame_boundary`, the callbacks of
the Android looper, the test of the exit request, `nativeRender` (in which the guest
calls back into JNI, EGL, pthread and libc, and flips the page through the present
gate and the frame proof), the question for a fatal verdict, and the frame counter.
The guest has threads of its own (workers, FMOD) that make JNI and pthread calls at
any time.

| component | state | operations | what is hard | what makes it correct | module |
|---|---|---|---|---|---|
| JNI object heap, `jni.c` 80-500, 1230-1290, 4450-4500 | object structures with counts and flags, birth buckets, quarantine, pool | new object, New/DeleteGlobalRef, store, keep, frame boundary | unlocked counting beside a locked sweep, reuse of addresses, promotion after storing | no good reference is collected, nothing leaks, no address waits for reuse twice | `JniHeap` |
| SELECT/START pre-router | per pad and edge: state, retention, tap, owed release | event, tick, release all | taps, double taps, chords within one sample | no latch, every press exactly once | `Prerouter` |
| Pad set, `nxinput_padset.c`, exit chord | open controllers, pending exit | open, remove, sample, close | hot plug in the middle of a press, signals | pads never mix, the exit is asked for exactly when it should be | `PadSet` |
| Input delivery, guard, GPTK, payloads | context, quarantine, latches, keys and touch of the guest, ring of 64 events | poll, context change, focus lost, pad gone | a screen that changes under a held button, two controls on one action, lost releases, late readers | what the guest believes is down is what a held control stands for | `Delivery` |
| Hooks in the game, `input.c`, `il2.c` | functions looked up, popup, signs, pause, focus | one poll | parts of the game that are absent, that move between polls, that raise | a box is answered once, START flips once, the focus obeys | `GameHooks` |
| Tutorial return | three GC handles, one button's action | poll | the game rebuilds what is borrowed | the game keeps its actions, handles do not leak | `TutorialReturn` |
| SDL EGL facade and backend choice, `egl_sdl.c` | window, root context, contexts, current context per thread | start, create, make current, flip, destroy | five formats, failures half way, two creating threads | one owner of the screen, one share group | `SdlVideo` |
| EGL/GLES2 facade, GLES3 bridge, stretch | cached bindings and settings, borrowed state | bind, attach, delete, set, swap, the port's own drawings | two bindings on one; a drawing between two calls of the guest | the driver is where the guest believes it to be | `GlState` |
| Texture path and decoders | what was uploaded and in which format | storage, upload, sub-upload, attach, delete, reuse | formats decided at level 0, alignment lent and returned | a texture samples as it was made | `Textures` |
| Present gate and graphics contract | phase, budget, receipt; declaration, measurements, document | preflight, observe, measure, probe | contexts that come and go, a placeholder drawable, a driver broken in one place | one receipt, the verdict is the driver's, the document agrees | `PresentGate`, `GraphicsEvidence`, `MeasuredGate` |
| Frame proof and health receipt | schedule, verdict, files | sample, publish, flip; consume, close | two threads and a guard that never waits; failing file system | every closing and every receipt is justified | `FrameProof` |
| Preferences, `jni.c` 2500-2970 | map, dirty mark, time of the last flush, file | put, remove, clear, apply, commit, flush, load | lazy saves, failures, power cuts, a clock set back | the file is one whole map; clean means saved | `Preferences`, `PrefStore` |
| Callbacks and choreographer | posted callbacks, messages, two boxes | post, send, register; tick, drain | posting from inside a callback and from other threads | what was asked is called once; nobody starves | `Callbacks` |
| pthread bridge | handles in the guest's memory, 512 semaphores | slot, lock, wait, signal, init, destroy, post | creation at first use by several threads, lost wakeups, post before init | one mutex per handle, no freeze, counting semaphores | `PthreadBridge`, `CountingSemaphores` |
| Loader, `nx_elf.c`, `bionic.c` | images, bound symbols, constructors | map, relocate, construct, dlopen, dlsym | constructors that open libraries | nothing runs before it is linked, constructors once | `Loader` |
| Audio, `audio.c` | run flag, thread, device, queue | start, feed, reopen, stop | a join while the thread waits for the guest | stop ends | `AudioDevice` |
| Watchdog, `diagnostics.c` | deadlines | look, bite | a clock read before or after a counter | a healthy start is not killed | `Watchdog` |
| Program lifecycle, `main.c` | lock, failures, exit request | start, frame, signal, fault, teardown | an end asked for anywhere | the status says what happened; the program ends | `Lifecycle` |
| OpenSL ES shim, settings, language, launcher, vendored framework, tests | start-up data or no caller | - | - | left to other means | - |

`PROJECT.json` has one entry per component with its status and, where a part is
left out, which.

## 2. The modules

    JniReferences
       ^ INSTANCE
    JniHeap <- MCJniHeap                 Prerouter <- PadSet <- MCPadSet
       ^                                                ^
    JniHeapProofs                                  PadSetProofs

    Delivery, GameHooks <- MCDelivery    FrameProof, Callbacks <- MCFrameLoop
    Delivery, GameHooks, FrameProof, Callbacks <- FrameLoopProofs

    GlState, Textures, SdlVideo <- MCGraphics
    GlState, Textures, SdlVideo <- GraphicsProofs

    PresentGate <- MeasuredGate -> GraphicsEvidence      CountingSemaphores
                       ^                                      ^ INSTANCE
    MCPresentGate, PresentGateProofs     PthreadBridge <- MCPthreadBridge
                                              ^
    PrefStore                            PthreadBridgeProofs
       ^ INSTANCE
    Preferences <- MCPreferences         Loader, AudioDevice, Watchdog, TutorialReturn
       ^                                      ^
    PreferencesProofs                    Lifecycle <- MCLifecycle, LifecycleProofs

(`A <- B`: B extends A.)

Components that meet in the code meet in a model where their interleaving
matters: gate and measurement in `MeasuredGate`; frame proof, health receipt and
closing in `FrameProof`; loader, audio thread, watchdog, signals and main thread in
`Lifecycle`; pre-router, pads, exit chord and frame loop in `PadSet`; guard, mapping
runtime, delivery and payload ring in `Delivery`. `MCDelivery`, `MCGraphics` and
`MCFrameLoop` put machines that share no state in one run: a behaviour exercises one
of them and leaves the others at their start, so that the state graph is their sum.

Each `ASSUME` says what the constants of its module are: where it is more than a
type, it is what the code fixes (the schedule of the frame proof is increasing and
its streak longer than one sample; a contract's minor version is one digit; a control
is a key of the kernel or a hat, not both; the libraries of the start are distinct).

### JniHeap: objects, references and the frame boundary

A `jobj` is its address. Its flags are sets of addresses, `born_next` is `link`,
and its payload is one reference, `child`, which stands for a field or an array
element. One section under `jni_born_lock` is one step, except the boundary, which
walks its bucket object by object (`WalkUnlink`, `WalkTest`) while code that does
not take the lock runs beside it. Code outside the lock is cut where another
thread can come between: `NewGlobalRef` is the registry test, the load and the
store of `globals++`, and the pinning of the children. `frame` is folded so that
the bucket and the "older than the grace" test are kept. `owned`, `age` and
`dangling` are history.

`JniReferences` is what the guest is promised, without buckets, flags or reuse: an
object that is made, promoted, dropped, kept, grows older by a frame, and is
collected only when it is neither held nor kept and its grace is over. The heap
implements it with `alive` as the structures handed out that are no tombstones,
`held` as the guest's own account of its references and `kept` as `immortal`.

### Prerouter, PadSet: SELECT, START and the exit

`Prerouter` has the operators of the pre-router for one pad, as functions from a
pad to a pad. `PadSet` drives them: `Poll(dt)` is one `st_input_poll` after its
events, with the sample of every open pad (SELECT before START, as the code feeds
them), the tick, the exit chord, and the tests on the pending exit; `DeviceAdded`,
`DeviceRemoved`, `Quit` and `Signal` are the events; `Render` and `Close` the rest of
a turn. Ages stand for `now - down_at` and stop at `Window + 1`. `debt`, `flight`,
`sent` and `asked` are history.

### Delivery: from fingers to keys

The state of `input.c` and `input_gptk.c` is one record and every function of a poll
maps it to the next, in the order of the code: guard, context, quarantine, mapping
runtime, native path, releases. The constants give one control for each way a
control is treated (bound to an action that another control shares, a click on a
menu and a key elsewhere, START, a hat). A key event goes through the payload ring;
`Render` has the guest read them. Fingers move, SDL forgets a release, the kernel
becomes readable or not, the screen changes, the focus goes and the pad goes and
comes between two polls.

### GameHooks: hands in the game

One action per step of the poll (`PopupHook`, `ScreenHook`, `SignsHook`, `StartHook`,
`FocusHook`), then the game's frame. A build offers some of the functions that the
port looks up by name; the two resolvers are modelled with what they remember of a
failure. A call of the game may be impossible, and may raise before or after it took
effect: `Natives` has, of a press, whether the toggle acted and what `get_IsPaused`
answered on either side of it, and `Hides` what hiding the menu did and what the port
was told. The game's scene, box, manager, pause and mouse control move between polls.

### GlState, Textures, SdlVideo: the graphics facade

`GlState` has the driver's state `d`, the port's caches and what the guest last asked
for (`want`, `wantArray`, `wantView`); a call of the guest is one action, in any
order, and so is each drawing of the port with its own list of saved and restored
settings (keyboard, stretch, cursor). The viewport is on no such list: `framed` says
that a frame on the internal target has begun since the guest set it. `strayed`
remembers the calls after which the code leaves the driver's binding off the target.
`Textures` has a level as the payload of its last whole and last partial upload, the
format it was stored in, and what the guest meant; each of the upload calls is an
action with the rewriting the code does for that driver. `SdlVideo` is the start on
SDL or on the vendor's EGL, attempt by attempt, and contexts and surfaces after it,
with creation cut where two threads can meet. Any thread makes, takes, leaves and
destroys contexts at any time; SDL may refuse to make a context current, and never
to leave one.

### PresentGate, GraphicsEvidence, MeasuredGate: the gate

`Preflight` and `Observe` are the gate's functions; `MakeWindowCurrent`,
`MakePbufferCurrent`, `Release`, `MakeCurrentFails` and `Swap` are what
`sdl_eglMakeCurrent` and `st_sdl_swap_buffers` do with it. There a measurement is one of
a few outcomes. `MeasuredGate` has the measurement: version, the shader probe stage by
stage with the objects each branch makes and deletes (GL keeps a deleted shader while a
program that lives holds it), the drawable, the verdict of `GraphicsEvidence`, and the
documents written with the receipts. Each of its steps is a step of `PresentGate` with
the outcome that was measured, or leaves the gate alone.

### FrameProof: picture, receipt, closing

The render thread samples a frame, publishes a verdict in steps (temporary file,
rename, sync, revocation) and flips; the frame loop asks, consumes and closes. The
guard of the adapter never waits: who finds it taken is refused.

### PrefStore, Preferences: the saved map

`PrefStore` is the promise: a map in memory, a file that always holds one whole
map, a restart from the file. `Preferences` is the code: one call per action, the
save cut into write, sync and rename, a failure at any of them, the clock, and the
process or the power ending at any step. The directory is not synced after the
rename: a power cut may leave the old file or the new one (`survivors`); a file
renamed before its data was synced may come back torn (`Torn`), which the code never
lets happen.

### CountingSemaphores, PthreadBridge

`CountingSemaphores` is the promise. `PthreadBridge` has `slot` cut at its unordered
first look, its lock, the creation, the mark and the unlock; the calls on the
resolved host objects; and the table of semaphores, one lookup per step, since `S`
runs under the lock and the call on the host's semaphore that follows cannot be told
apart from one at the same moment. The guest is a fair user: sections under a mutex
with a flag, signals without the mutex, semaphores used before and after their init,
and handles wiped only when nobody uses them.

### Callbacks

`Driver` is the port's HandlerThread (messages, then the frame callbacks copied to a
batch, then `doFrame`); `Pump` is the main loop's emptying of the boxes; the guest
posts, sends and registers at any time, also from inside a callback.

### Loader, AudioDevice, Watchdog, TutorialReturn, Lifecycle

Four components with their own actions, composed by `Lifecycle`, whose `Main` is
`main.c` from the claim of the lock to the exit status. A constructor may open
libraries, so the loader is a stack of calls of `nx_run_init`.

## 3. What the runs show

| run | instance | checks | result |
|---|---|---|---|
| `jniheap_loop` | 2 addresses, grace 1, quarantine 1, every call on the frame loop's thread | `Contract` (implements `JniReferences`), `ReachedKept` (what outlives its frame keeps what it refers to) | holds |
| `jniheap_workers` | 2 addresses, one guest thread, quarantine 2 | `QuarantineOnce`, `BucketsTrue` (no object is lost by the buckets or on two of them) | holds |
| `jniheap_promotion` | one guest thread | `GlobalsSurvive` | **violated** |
| `padset` | 2 controllers, window 2, clock steps of 1 and 3 | `NoLatch`, `Accounted`, `ExitExactly`, `Released` | holds |
| `delivery` | 4 controls, ring of 16; 5 builds of the game | `Accounted`, `GuestAgrees`, `Healed`; `AnsweredOnce`, `StartFlips`, `FocusObeyed` | holds |
| `graphics` | 2 framebuffers; one texture, 4 drivers; 2 threads, 2 contexts, 16 launches | `BindingsFollow`, `StateKept`; `TexturesServed`; `OneBackend`, `OneGroup` | holds |
| `textures_native` | the same instance with GLES2 drivers that take ETC2 or ASTC | `TexturesServed` | **violated** |
| `gate` | 2 contexts, 7 declarations, every kind of driver, timeout 3 | `NeverMisused`, `OneReceipt`, `ContractHonoured`, `DocumentAgrees`, `NothingLeft`, `Concluded` | holds |
| `prefs` | 3 keys, 1 value, room for 2, window 2 | `CleanMeansSaved`, `StoreSpec` (implements `PrefStore`), `SavedInTime` | holds |
| `frameloop` | every kind of launch, 6 frames, 4 faults; 2 callbacks, queue of 4, 2 requests | `VerdictHonest`, `FatalCloses`; `AskedIsServed`, `Served` | holds |
| `bridge` | 2 threads, 2 semaphores, 4 calls | `Exclusive`, `NoFreeze`, `Semantics` (implements `CountingSemaphores`) | holds |
| `lifecycle` | 3 libraries, 2 posters, 4 launches | `LinkedRight`, `StartupFair`, `GameKeepsItsActions`, `ExitTruthful`, `Ended` | holds |

Types are not repeated by the runs where they are proved.

Both violated properties state what the code's own words say.

`jniheap_promotion`: `GlobalsSurvive` is what a comment of the repository says ("Nada disso
alcanca referencias GLOBAIS", `jni.c:4463`). `j_NewGlobalRef` tests the registry under
the lock and counts outside it (`jni.c:1244-1246`). When a guest thread does so at the
end of the grace, the boundary collects the object in between, and the guest holds
a global reference to a tombstone.

`textures_native`: `TexturesServed` is what `gles3.c` promises of `glTexStorage2D`
on GLES2 ("the call decomposes into ES2 calls", `gles3.c:18`; "allocate the mip
chain by hand", 369). For a compressed format the chain is allocated as RGBA (382),
which is right when the port decodes the blocks; a GLES2 driver with the ASTC or ETC2
extension gets the blocks as they are (`egl.c:2405`, 2425, 2608), refuses them, and the
texture keeps undefined pixels. The run `graphics` has the drivers without that
combination and finds no other way to lose a picture.

### Bounds, and why they are enough

- **Heap.** `Addr`, 2 addresses: one is enough for promotion races, two for a
  container and its value, for lists of two on a bucket, and for reuse of one address
  while the other waits. The loop instance with 3 addresses was explored once in full
  (9.1 million states) with the same result. In the loop run the quarantine is 1, so
  that addresses come back while the other is in use. In the run with a worker it is
  as many as there are addresses: a thread stopped inside a call, and a quarantine of
  one, would let the address come back under the stopped thread, where the code has
  32768 structures between the two. `MaxGlobals` 1: a second reference of one object
  only keeps it longer. The workers' run makes new, promote and release calls, the ones
  that race with the boundary; storing and keeping only add protection.
- **Pads.** `Window` 2 with clock steps of 1 and 3: a sample may come inside the
  window, at its end or after it. Two controllers and two slots let both be in any
  state and one replace the other. Controllers beyond `PADSET_MAX` (4) never reach the
  pre-router, whose 8 slots are therefore never full.
- **Delivery.** One control per treatment, two of them on one action. `RingSize` 16
  for 64: a frame injects fewer than that, which is what `GuestAgrees` tests. `Period`,
  `Warm` and `MaxAttempts` 2 for 30, 120 and 600 polls: each can be reached, and be
  missed by one. `MaxMoves`, two controls that move between two polls, is what two
  fingers do at once; `moving` splits what moves in the game into three groups, each
  explored with scene and screen.
  `lead` only delays the first machine so that TLC, which goes breadth first, does not
  hold the wide machine while it goes down the deep one; it hides no behaviour.
- **Graphics.** `MaxOdd` 2 settings away from their initial value at once, every pair
  in its turn: a drawing that loses one setting, or exchanges two, is seen. A texture
  of two levels has a level 0 and one that follows it. Four drivers are one per branch
  of the texture path; all 20 combinations were explored once (2.1 million states).
  Two threads that make contexts, and every launch.
- **Gate.** `Timeout` 3 with steps of 1 and 2: the budget ends at a frame or between
  two. Two contexts are the fewest of which one may be mistaken for the other.
  `HealthFlips` 2 for 30, `LargestDrawable` 3.
- **Frame proof.** Samples at frames 1, 2, 4 and then every 5 for the code's schedule,
  a streak of 3, health at 1, six frames, four faults: one schedule, one repeat, a
  fatal verdict after an OK, and as many failures as it takes to leave a stale receipt.
  A launch on the raw EGL differs from one on SDL in the health receipt only, and is
  taken with it.
- **Preferences.** 2 of 3 keys: the table can be full with a key outside it. One
  value: having it or not is what the properties tell apart.
- **Callbacks.** Capacity 4 for 16, so that it is met; two sends and two owed
  posts of a callback that posts itself.
- **Bridge.** Four calls: two threads that meet on both handles, or a wipe and a
  meeting, or two posts, an init and a wait. `SemMax` is the number of addresses: the
  table has room, which the promise needs (section 5).
- **Lifecycle.** `Every` 3 for 256, `Buffers` 2, three ticks of the watchdog with a
  clock of 4 bits for 64, `FrameCap` 2 frames,
  `Changes` 4 and `GameMoves` 5 for what guest and game do
  beside the main thread, four launches: normal; a fresh save; under the watchdog; with
  `ST_NATIVE_DONE`.

### Fairness

Every assumption is that a thread in the middle of its own code goes on.

- `padset`: the frame loop goes on; nothing in it waits for another thread.
- `prefs`: a save that holds the lock goes on. That a game applies its changes is the
  guest's doing and is a premise of `SavedInTime`, with a clock that runs and is not
  set back for ever and saves that do not fail for ever.
- `gate`: none; that a game settles on a context and keeps flipping is a premise of
  `Concluded`.
- `frameloop`: the engine's frame loop and a publication that has begun; the
  HandlerThread and the main loop, `WF` each.
- `bridge`: a thread inside a call goes on (`Proceed`), and a wait that can take takes
  (`SemTake`); weak fairness is enough, and no thread has to begin a call.
- `lifecycle`: the main thread (`Main`: calls into the guest return, except
  `nativeDone`, which may hang and which `Ended` excludes) and the audio thread.

## 4. What is proved

Every theorem holds for all values of the constants that meet the `ASSUME` of its
module: any number of addresses, threads, pads, contexts, keys or semaphores, any
window, timeout or capacity.

**`JniHeapProofs`**, in three layers.

- *Any threads, any guest.* `TypeCorrect`, `QuarantineCorrect`. The invariant is
  `IInv == TypeOK /\ CallOK /\ QuarantineOnce`. `QuarantineOnce` alone is not
  inductive: the walk tombstones what `cursor` names and a call what `arg` names, and
  both must be structures that exist; `CallOK` says so for every point of a call.
- *Any threads, as long as no structure is reused while it is armed* (`PoolAtRest`).
  `BucketsAreTrue`, `GraceIsKept`. A bucket is a linked list, and the objects on it
  are the least set that holds its head and is closed under `born_next` (`From`), so
  that no induction over lists is needed: to show that a list lies within a set, one
  shows that the set is closed. `FromPush`, `FromFirst` and `FromElsewhere` say what
  linking in, unlinking and redirecting a link do to it. `HeapInv` adds to `IInv` that
  the armed objects are those on the disjoint, acyclic lists (`ListsOK`); that
  an object is at least as old as its bucket (`AgesOK`: `Lag` grows by one per
  boundary, and the bucket a boundary detaches has waited for the grace); and that what
  nothing protects is armed or about to be (`Unleaked`). `PoolAtRest` is what the
  quarantine is for ("uma distancia temporal enorme", `jni.c:128`), and it is needed:
  with a guest thread and a quarantine of one, TLC lets the thread stop inside
  NewGlobalRef, promote and drop what has meanwhile become a tombstone, and so arm a
  structure in the quarantine; when new_obj clears it, its bucket loses what
  came after it. `BucketsTrueRoomy` discharges the hypothesis for a quarantine with
  room for every structure (which never overflows, by counting), the case of the run
  `jniheap_workers`, and `BucketsTrueAlone` for a single guest thread and any
  quarantine, none included.
- *One guest thread that names only what it holds* (`OneThread`). `ReferencesAreGood`;
  `KeepsTheContract`, the refinement of `JniReferences`; `ReachedIsKept`. `Good` adds
  that the count of an object is the guest's account of it, one more while a reference
  is being dropped (`Counts`), and that nothing armed, kept, counted or named by a call
  is a tombstone (`DeadApart`). With a second thread this is false; that is the run
  `jniheap_promotion`. `ReachedIsKept` adds `KidsOK`, what outlives its frame refers
  to what does, and has the hypothesis `Shallow`: no unprotected chain of references is
  longer than `jni_pin` follows (section 5).

**`PadSetProofs`**: `NeverLatched`, `PressOrder`, `PressesAccounted`, `TapsSeen`,
`ExitIsExact`. The invariant is `PadsInv`: one formula per pad, `PadInv`, that relates
the state of each edge, the owed releases, the forwarded snapshot, the history and what
is physically down. Each operator of the pre-router has a lemma that says which part of
it survives, and `Route` composes them, so that a poll is one application per pad.
`TapSeen` needs that a tick never pays a release in the sample that created it, which
the count of two for a fresh debt carries. `ExitIsExact` says that the exit is requested
exactly when it should be. Its invariant `ExitInv` adds to `PadsInv` that before a
sample no chord is complete and none is pending (a chord of the sample before would have
ended the loop). The two lemmas it turns on: a step that consumes a press anew consumes
both of a pad (`PressConsumes`), so a call for the exit with both edges down at the end
of the sample is a complete chord (`RouteConsumes`); and the walk over the slots, which
keeps one pending instance, misses no pad that calls and invents none (`PendingFound`).

**`PresentGateProofs`**: of the abstract gate `GateTypeCorrect`,
`CallersFollowTheProtocol`, `ReceiptIsFinal`, `OneBudget`. The three invariants are
proved together, strengthened by "the process is dead exactly when the gate has
rejected" and "a ready gate is the initial one"; `OneBudget` is the action property.
`MeasuredGateIsAGate` is the refinement: with the measurement taken for the outcome
that `PresentGate` chooses freely, every step of `MeasuredGate` is a step of the gate
or none, so that those four theorems hold of the measured gate as well.
`ContractsAreHonoured`, `DocumentsAgree` and `ProbeLeavesNothing` are about the
measurement itself. The invariant relates where the probe stands to the names it holds
and to the objects in the context, what is attached and what waits for its deletion
included, and what has been measured to the driver; the documents are then one case
per verdict of `GraphicsEvidence`, and the objects one per end of the probe.

**`PreferencesProofs`**: `PreferencesTypeCorrect`, `CleanIsSaved`, `ImplementsStore`. The
invariant adds to the properties that a save in progress is of a dirty map, that a
rename comes after a sync, that a process that has not loaded anything has nothing
to save, and that every map a power cut may leave fits the table. `ImplementsStore` is
the refinement: with `mem` defined as the table, or the file before it is loaded,
every step of the code is a step of `PrefStore` or none.

**`PthreadBridgeProofs`**: `BridgeTypeCorrect`, `SectionsExclude`,
`ImplementsSemaphores`, for any number of threads, addresses and calls.
`Exclusive` alone says nothing of the threads on their way: `IInv` adds where a
thread stands in the bridge (`Positions`), that the second look, the creation and the
mark happen under the lock (`Locked`), that an object without its mark is being marked
by somebody (`Pending`), and that whoever has resolved the mutex holds the one object
that is in the guest's memory (`Shared`). The last is what double-checked creation
must give, and it survives the wiping calls because they come only when no thread
holds a resolved object. Each action preserves it by `FrameOK`, which settles the
other threads once for all, and a lemma of its own for the thread that moves.
`ImplementsSemaphores` is the safety part of `Semantics`: while the table has room for
every address (`Cardinality(Sems) <= SemMax`), each call is one step of
`CountingSemaphores` or none. `Room` is a pigeonhole argument: entries are distinct
addresses, so an address without an entry leaves a place free.

**`LifecycleProofs`**: `LibrariesAreLinked`, `WatchdogIsFair`, `ButtonsKeepTheirActions`,
`ExitSaysTheTruth`, each over `Lifecycle`, so with every other thread interleaved.
`LibrariesAreLinked` needs the shape of the loader's stack (`StackOK`: a library is on
it once), how far each call on it is (`Progress`), and that an entry of an array is
there until its constructor has run (`Arrays`); then no call further up finds a
constructor again. `WatchdogIsFair` adds that a frame counter which was still zero
when the watchdog looked means no frame was complete at the time it had read before.
`ExitSaysTheTruth` follows the main thread: what has been paused, joined and saved
at each point of the teardown, whoever asked for the end.

**`GraphicsProofs`**: `ScreenHasOneOwner`, `ContextsShare`, `SettingsAreTheGuests`,
`BindingsAreServed`, `TexturesAreServed`, for any number of framebuffers, textures,
threads, contexts and kinds of driver. `SettingsAreTheGuests` goes through the three
drawings one by one: what each saves, sets and gives back. `BindingsAreServed` has no
hypothesis on the guest: its invariant keeps the promise of the attachments also where
`strayed` says that the driver's binding is off the target (section 5). `ContextsShare`
relates, for each thread in `eglCreateContext`, the lock, what SDL has current there and
the sharing attribute; `refused` and `astray` name the contexts and threads for which
the code promises nothing (section 5). `TexturesAreServed` has the hypothesis
`NativeOnEs3`, the one that the run `textures_native` shows to be needed: the GLES3
drivers, and only they, take both compressed formats as they are (section 5 has the
other half). Its invariant has a part for each thing the upload path decides once and
uses later: the format of a level (`LevelOK`), the alignment that is lent (`PackedOK`),
the mode a texture was put in (`ModeOK`), what the guest made of it (`MadeOK`), and the
format chosen at level 0 (`ChosenOK`).

**`FrameLoopProofs`** is about four components of a turn of the frame loop.

- `VerdictIsHonest`: the invariant `ProofInv` says at each point of the two threads
  which samples the streak counts (`ScheduleInv`), who holds the adapter (`LockInv`),
  which files a publication has already touched (`PublishInv`), and how many failures
  of the file system a receipt that should not be there has cost (`FaultsInv`). The
  last makes "an OK left after a fatal verdict costs four failures" inductive.
- `AskedAreServed`: conservation of posts (`QueueInv`: queue and batch hold a callback
  exactly as often as it is owed) and of the two boxes (`BoxInv`). `Fits`, the
  hypothesis, says that the queue has room for the posts a guest may owe at once; that
  a post then finds a place is the pigeonhole argument of `RoomLeft`.
- `BoxAnsweredOnce`, `StartFlipsOnce`, `FocusIsObeyed`: one invariant (`HooksInv`) for
  what the resolvers remember, what was answered and pressed, and who drives the menu.
- `KeysAreAccounted`, `GuestBelieves`, `LostReleasesHeal`: see below.

The three theorems about `Delivery` are the deepest of the project. The poll is a
composition of loops over controls, and every loop body is a function of the whole
input state. `Accounted` speaks of keys; it becomes inductive with the owners of each
key: `Sound` says that the count of a key is at most the number of latched controls
that stand for it, plus START's press while START is held and went out as that key,
and that a key without a count is a control's native one. An owner counted too often
is the key that never comes up.
`GuestAgrees` needs that the guest's keys, once it has read the events on their way, are
the port's keys (`Told`), and that no more events are on their way than the ring has
slots: the events and the keys that are down, together (`Weight`), grow by one per
control for its transition, one for its native level, and one for START. `Healed` adds
that with the kernel readable and no finger down nothing was taken as held.
Their hypotheses:

- `OneStart`: at most one control is START, natively or for the map in either context.
  Without it the first theorem is false; see section 5.
- `RingFits`: `Cardinality(Keys) + 2 * Len(Order) + 1 <= RingSize`. The code has 64
  slots, 14 buttons and about 15 keys; the instance of the run meets it as well.
- `LostReleasesHeal` only: every control is a key or a hat of the kernel's. A control
  bound to an axis is taken as SDL has it, in the code too.

Loops over sequences are induction over data, for which the prover has no rule it can
instantiate. Where a proof needs one, it takes the least counterexample: the set of
indices at which the fact fails has a least element (`HasLeast`, from the library's
well-founded induction over a relation, which is no operator), which is neither the
first nor the successor of an index at which the fact holds.

Every invariant and action property that a passing run checks is a theorem, under the
hypotheses named above. Only model-checked: every liveness property (`Released`,
`Concluded`, `SavedInTime`, `FatalCloses`, `Served`, `NoFreeze`, `Ended`), and the
fairness part of `Semantics`: liveness under fairness is out of the prover's reach.

## 5. Where the code differs from its words

Besides the two findings above, these were met while modelling. Where a property is
named, it stands in its module, does not hold, and no run checks it; it can be put
in a cfg to see the counterexample.

**Heap.** A value older than its container dies before it (`ReachedSurvives`): storing
pins the value only if the container already outlives its frame, and by the time the
container is promoted the value may be a tombstone (`jni.c:482-493`, against
`jni.c:131-134`). `ReachedKept` states what does hold. The last DeleteGlobalRef need not
start the grace again (`DropRestartsGrace`): an object still on its birth bucket
stays there (`jni.c:1264`, against `jni.c:117-118`). Keeping an object "PRENDE
recursivamente os filhos" (`jni.c:132`), but `jni_pin` stops at depth 8 without a
word (`jni.c:347`): what hangs deeper in a chain is not carried. The model keeps the
depth; a chain that long needs more addresses than TLC can take, and the theorem about
`ReachedKept` excludes it by name.

**SELECT and START.** A press forwarded by the event of the other edge and released in
the same sample is never down in any sample (`PressSeen`,
`nxinput_prerouter.c:211`, against 58-61). SELECT pressed and START released in one
sample form a chord with a START that is already up: both presses are consumed and
no exit is asked for (`ConsumedExits`, `nxinput_padset.c:249`).

**Gate.** Once the gate has proved a context, any other is accepted unasked
(`OwnProof`, `st_graphics_contract.c:74`). A waiting gate may be reset for another
context after the health receipt, which counts page flips and not verdicts
(`NoHealthYet`, `st_graphics_contract.c:83`).

**Frame proof.** The frame loop may see the fatal verdict while the render thread
is still inside the adapter; its only request to revoke the health receipt is then
refused, and a program that closes with 72 leaves a ready receipt (`NoStaleReady`,
`nxgl_frame_proof_adapter.c:1420`). On the raw EGL path refused flips count too, so the
health attempt may still come after a revocation.

**Watchdog.** The clock is read before the time of the last frame
(`diagnostics.c:228-231`); a frame completed in between makes the unsigned difference
huge and a healthy program ends with 124 (`StallFair`). `StartupFair`, the other
deadline, is safe because of that same order.

**Framebuffers on a stretched panel.** `framebuffer_operation_end` (`egl.c:535`) binds
the guest's 0 as the driver's 0 after an operation on the read side,
`my_glDeleteFramebuffers` (591) leaves the driver's 0 after deleting what was bound,
although the guest's 0 is the internal target (561); and a swap or a make-current binds
the target whatever the guest had bound (`stretch.c:413`). Until the guest binds for
drawing, or the next frame ends, it then draws elsewhere. Nothing keeps the guest of the
model from these calls: `BindingsFollow` says that the driver's binding is the guest's
unless it has strayed in one of these ways, and that even then no framebuffer takes what
the guest did not bind; without `~strayed` it fails. The viewport is not given back:
each frame on the target begins with the whole of it (`stretch.c:404-414`), the guest's
own lost if it does not program it again, as the comment there counts on; `StateKept`
says both. The pointer of attribute 0 stays on the port's buffer when its array is
disabled, which `StateKept` leaves free and `egl.c:1058` does not mention. Before the
first bind of 0 the guest draws on the panel.

**Delivery.** A map may bind START's action to another control, or to two. If then START
is pressed anew in the poll in which the screen changes from one that is not proven,
where START is held natively, `start_press` overwrites `start_keycode_down`
(`input.c:1333-1367`) and the first key keeps its count: it is down, with nobody to
release it, until the next focus loss or removal, against "todo DOWN recebe o seu UP"
(`input.c:808-809`). The default map binds START once, and so does the run. A control
held as a click from a menu into gameplay is born there as a native key, against
`input_gptk.c:386`. A touch can be left DOWN when the pad goes or the program ends.
`native_start_down` is not reset where the context changes; a START held across a focus
loss is not pressed again.

**Game hooks.** Leaving a menu forgets the focus without giving back the mouse control,
and a pointer used in a frame without a manager is lost, against the comment at
`input.c:1990`. `input.c:2208` says that entering `il2cpp_domain_get` early kills Unity,
yet the sampling of the scene attaches at frame 1. A press of START may leave the pause
as it was in three ways, which `Loses` names and `StartFlips` says are the only ones.
`PausePressed` acted but `get_IsPaused` is absent or raises (`input.c:1263`, 1277): the
press falls through to the next way, which undoes it. `PausePressed` raised without
acting where the game answered that it was paused: the press is taken as handled.
Neither the toggle nor the time scale can be asked: the parity `pause_open` decides,
which is wrong when the game was paused or resumed otherwise. Functions that are
missing once are missing for good; `scene_api_resolve` makes a failed load final where
`gui_api_resolve` tries again.

**Callbacks.** A post beyond 16 is dropped in silence; messages of one kind are one;
without a proxy the first message ends the HandlerThread.

**Bridge.** `sem_init` raises a semaphore that was posted before and never lowers one, so
a second init with a smaller value changes nothing, and destroy does nothing. When
the table is full every call makes a semaphore of its own: posts vanish and waits do
not end.

**Lifecycle.** With `ST_NATIVE_DONE` the teardown skips `st_prefs_flush` and returns 0
even after a video or input failure (`main.c:819-820`). The lock of the single instance
fails open when `/proc/self/exe` cannot be opened. `j_RegisterNatives` counts an entry
before it is filled. The audio thread takes the FMOD object once.

**Textures.** Besides the chain of `textures_native`: a GLES3 driver without ASTC
refuses the storage of an ASTC chain, which the port passes on as it is
(`egl.c:2729-2731`), and the parts it then decodes (2584-2590) have no level to go to;
`TexturesServed` fails there, `NativeOnEs3` excludes it, and no driver of the runs is
one. With 16-bit storage RGB565 drops alpha, an RGBA sub-upload into 565 is refused, and
a chain built by glTexImage2D compacts level 0 only and is incomplete. The run assumes a
guest that fills chains from level 0 by glTexStorage2D and puts nothing translucent in a
texture that began opaque, as Unity does. A missing `libastcUtil.so` is final, and ASTC
textures are blank then.

**SDL.** The result of making the root current is ignored (`egl_sdl.c:563`): a context made
after SDL refused it shares with whatever was current, or with nothing. Making a
context leaves the thread without the one it had (566), which the facade does not note,
and so does destroying a context that another thread has current (592). `OneGroup`
names these three. A context or surface is destroyed at once where EGL defers; a failed
MakeCurrent has already overwritten what the facade knows of the context's surface; a
context without GL_VERSION is taken for GLES.

## 6. Abstractions, module by module

What the models take for granted, and what they fold.

- `PadSet`, `Prerouter`: the exit chord has a hold of one poll, the only one used.
- `Delivery`: sticks, triggers, GUIDE, the limiter of the D-pad and the bench's
  virtual pad are left out. Keys and hats of the guard become unreadable together.
  The sinks never refuse, so that the mapping runtime's FATAL is not reached. The
  runtime is fed edges only; its own quarantine adds nothing to that.
- `GameHooks`: how the game reacts to a key or a call is an assumption about the guest.
  The two thresholds of the time scale are one. The sign hook shows enabled,
  unfinished signs only and none when there are more than 16.
- `GlState`: one context; a setting is the initial value, one other value of the guest
  or one of the port; the texture bindings of all units are one variable, as in the
  code; `ST_OPAQUE_BACKBUFFER`, captures, sampler parameters set after the bind and
  per-buffer colour masks are left out.
- `Textures`: allocation fails only for a format the driver does not have, which the
  guest does not look at; a texture is used on one unit; alignment 8 with
  an odd width, array textures and layered attachments, which bypass the decoding, are
  left out.
- `SdlVideo`: SDL refuses a context that is current on another thread, may refuse any
  other, and never refuses to let go. Capture mode leaves the backend undecided.
- `MeasuredGate`: the driver is fixed at the start and broken in at most one place; its
  profile and what SDL says of it (`mask`, which may be wrong or nothing) are apart, and
  `ContractHonoured` speaks of what SDL says;
  "unreadable" comes through the sizes only; a gate that has concluded measures
  nothing. Its steps use the actions of `PresentGate`, so that what is proved of the gate
  for any outcome holds for the measured ones.
- `FrameProof`: the statistics that call a frame black or dead are one of a few
  answers of a sample.
- `Callbacks`: what a callback carries is left out; the Play Games box is used only
  with `ST_PLAY_GAMES_OFFLINE`.
- `PthreadBridge`: host mutexes and conditions are what POSIX says. A condition whose
  memory is all zero is one with the clock the host starts with. `Objects` bounds host
  objects by two plus the calls that may wipe a handle, which the type invariant
  proves to be enough.
- `Loader`: a relocation is a symbol and its provider. `AudioDevice`: samples are whole
  blocks. `Watchdog`: the ready flag is read atomically;
  a completed frame is one step (three in `diagnostics.c:125-128`), which `StartupFair`
  cannot tell. `TutorialReturn`: what
  `resolve()` looks for in the save and menus is the flag `fits`.
- `Lifecycle`: the guest faults only while the main thread is in guest code; video and
  input do not fail in the same frame; the stubs the boot calls are one step.
- `JniHeap`: payload kinds other than references, class and method tables, and the
  free-list slots of the tables are left out.
- `Preferences`: types of values and the format of the file are left out.

## 7. What is not modelled

- **OpenSL ES shim**: compiled, but `slCreateEngine` is in no symbol table of
  `bionic.c`; no guest reaches it, although `src/README.md:210` and a comment of
  `my_dlopen` speak of it. The sound is `audio.c`'s loop over FMODAudioDevice.
- `nxgl_display.c`, and `nxgl_graphics_contract_adapter_evidence`, `_drawable_wait`,
  `shader_source_matches_dialect` and `contract_receipt`: no caller in this port.
- **The vendored input framework** besides pre-router, pad set, chord and GPTK live:
  other engines' glue, the databases of mappings, and the providers.
- **Arithmetic on data**: texture blocks, statistics of pixels, stretch rectangles,
  hash tables of ELF images, the rewriting of shader text. They are sequential
  functions from data to data, for which test vectors say more than a bounded model.
- **Wrappers**: attribute lists, queries, libc calls that forward, the NDK surface
  besides the choreographer.
- **Parsed once at start**: settings, language, contract files.
- **Launcher, extraction, packaging**: shell and Python around the program.

## 8. What is left

1. Delivery: sticks as pointers and as keys, and the limiter of the D-pad.
2. Textures: array textures and the attributes of samplers.
3. An abstract specification of delivery (a stream of DOWN and UP per key) to be
   implemented by `Delivery` and its ring.

## 9. Running

    tlc -workers 2 -config Delivery.cfg MCDelivery.tla
    tlapm PthreadBridgeProofs.tla

Every run ends within three minutes on two workers, the smaller ones within one.
`FrameLoopProofs` takes four minutes, each other proof module two at most.
