# A TLA+ verification of LuaTT

LuaTT is a plugin for Renegade servers (the FDS, with or without the Dragonade
server) that runs Lua scripts in the game. The plugin proper is about 25,000 lines
of C++, of which most are wrappers, one per function of the engine. Its own logic is
in `LuaManager.cpp` (Lua states, hooks, script objects), `LuaThread.cpp` (operating
system threads that run Lua and talk over channels), `hooks.cpp` and
`LuaFunctionsDA.cpp` (things Lua registers with Dragonade) and
`ConversationControl.cpp` (a script, in C++, that makes computer soldiers speak).
This directory models that logic in TLA+, checks it with TLC and proves its safety
properties with TLAPS. Paths below are relative to `src/`.

## 1. Inventory

| component | state | operations | hard part |
|---|---|---|---|
| message channels (`LuaThread.cpp`) | `m_messages`: a queue per channel name; `m_locker`; `m_newMessage` | `Send_Data`, `Get_Data`, `Get_All_Data`, `Peek_Data`, `Peek_All_Data`, `Demand_Data`, `Get_All_Channels` | any thread calls any of them at any time; one condition variable for all channels; several steps per call |
| FDS lock (`LuaThread.cpp`) | `m_lockerFDS`, `m_lockCheck` | `Lock`, `Unlock` of a Lua thread, `Lock_Check` of the main thread at each think | a wait without a predicate; scripts that end inside their section |
| thread table (`LuaThread.cpp`) | `m_threads`, `m_id`; `m_running`, `m_error`, `m_delete`, `m_thread` of each object | `New_Thread`, `Wait_Thread`, `Is_Thread_Running`, `Get_Thread_Error`, `Remove_Thread`, `setThreadExit`, `CheckDeleteLater` | the thread runs before it is recorded; an iterator kept after the mutex; deferred removal |
| data messages (`LuaThread.cpp`) | none of their own | `convertData`, `ReturnDataLua` | a recursive copy over the Lua stack, with conversions on the way |
| thread runtime (`LuaThread.cpp`, `LuaManager.cpp`) | that of the three above | the waits: `Lock`, `Lock_Check`, `Demand_Data`, `Wait_Thread` | three ways to wait for another thread, which scripts may combine |
| Lua states (`LuaManager.cpp`, `plugin.cpp`, `LuaFunctions.cpp`) | `Lua`, `LuaNames`, `Reload_Flag` | `LoadLua`, `LoadLuaPlugins`, `Reload_All`, `Cleanup`, `Reload_Lua`, `Load_Lua`, `Destroy_Lua_Thread`, `Get_Lua_By_Name`, every hook | all calls nest: a handler may load, destroy or reload what is being walked over |
| script registrants (`LuaManager.cpp`, `LuaManager.h`) | `LuaScriptManager::Scripts`; each registrant's state and script objects | `Register_Script`, `Create`, the events of a script object, `Detach`, `Cleanup` | pointers to states that a reload closes |
| hook results (`LuaManager.cpp`, `luatt.cpp`, `hooks.cpp`) | the C stack of each Lua state | the combination of the results of all handlers of a hook | what counts as a refusal; what a failure leaves on the stack; hooks inside handlers |
| DA registrations (`hooks.cpp`, `LuaFunctionsDA.cpp`) | the chat command list (twice), the crate list, the console function list | register, unregister, activate | lifetimes across a reload |
| AI dialogue (`ConversationControl.cpp`) | `_Acting`, `_LastState`, `_SawEnemy`, `_SawFriend`, `_EnemyKilled`; the pending timers | ten callbacks | flags that only a timer clears |
| dialogs, HUD, boxed values (`LuaDialog.*`, `Lua_Class.*`) | none | getters and setters on boxed pointers | handles that outlive their objects |

How they interact. The engine calls the plugin on the main thread: `OnThink` first
enables threads and then runs `Call_Think_Hook`, which calls `Lock_Check` (the FDS
lock), carries out a pending reload, or calls `OnThink` in every Lua state. Every
other event of the engine becomes one walk over the Lua states, or a call of one
script object's state through its registrant. Lua code on the main thread calls back
into the manager and into the engine, which may raise the next event before the
first has returned. Lua code in a worker thread has a Lua state of its own, shares
nothing with the others but channels and the thread table, and may call the engine
between `Lock` and `Unlock`, if it asked for the functions with `Load_FDS_Functions`.

What makes each component correct:

* channels: each is a FIFO queue, every call takes effect at one point, no wake-up is lost;
* FDS lock: sections exclude each other, every `Lock` is granted, a frame does not start inside a section;
* thread table: the table tells truly which threads run, keeps what failed, and is not used after it has changed;
* Lua states: no Lua code runs in a closed state, no state leaks, a reload takes place, an index names the state it was given for;
* registrants: unique names, and script objects that never outlive their registrant;
* DA registrations: the server activates what is registered and nothing that was deleted;
* data messages: the receiver has a copy of what was sent, up to the conversions the code makes;
* thread runtime: every wait ends that does not wait, in the end, for itself;
* hook results: one refusal stands, nothing else refuses, nothing piles up on a Lua stack;
* AI dialogue: what a flag holds back is let go, lines do not overlap, no change of state is missed.

## 2. The modules

Each definition that stands for code has the lines it stands for in `PROJECT.json`
(`map`). A definition whose comment starts with *Slip* is not part of the system: it
is a plausible mistake in the definition below it, with which the properties are
tried out, one mistake for each property.

### ChannelSpec, Channels

`ChannelSpec` is what the channels promise: queues by name, calls that begin, take
effect in one atomic step and return; `Demand_Data` takes effect only when there is a
message. `Channels` is what the code does. A thread is at a location `pc` in a call;
`Lock` is the construction of the `unique_lock`, `Unlock` its destruction, between
them the code's own steps: `Push` and `NotifyAll` of `Send_Data`, `Read` (`front` and
`ReturnDataLua`) and `Pop` (`pop` and `delete`) of the takers, repeated by
`Get_All_Data`, and for `Demand_Data` the test of the queue, `Wait`, which releases
`m_locker`, and `Relock`. `SpuriousWake` is what the C++ standard allows. Messages
are numbered, so that each is told from the others. `getChannel` creates a channel at
its first use by whatever function; `channels` keeps the names.

Of a message's contents `Channels` knows one thing: whether `ReturnDataLua` can make it
again. A table with a key that reads as NaN is sent without complaint, and the
`lua_settable` of `LuaThread.cpp:538` then raises a Lua error in the receiver, from within
the function that holds `m_locker` (`DataMessages` has the why, as `SetFails`). The error
does not run the destructor of the lock guard. `Failing` are the messages of this kind, and
`Fails` is what a receive does that meets one: the thread ends the call at `failed`, with
the mutex, and nobody gets it again. `Get_All_Data` loses what it had popped before;
all others leave the channel as it was. What the failed thread does next is left out,
since its next call would lock a mutex that it holds, which is undefined.

`AtomicQueues` is the refinement: under the mapping stated at `Abstract` in
`Channels`, in which a call takes effect at the instant it releases `m_locker` or fails, every
behaviour of `Channels` is one of `ChannelSpec`. There too a receive of such a message
fails (`Fail`), and no call takes effect any more. `Channels_proofs` proves it.

### FdsLock

The two primitives and their users. A Lua thread is `free`, at `lock()`, `locked`,
in the `wait`, at the `relock` inside `wait()`, inside its `section`, or `gone`. The
main thread is in the `game` or in one of the three steps of `Lock_Check`. `Leaky`
are threads whose script may end inside its section (`Leave`): `executeThread` then
closes the Lua state and nothing unlocks. `Unlock` is modelled for scripts that call it
inside a section only; a stray `Unlock` is undefined for a `std::mutex`.

`FdsLock` is the whole of the lock and is used by `ThreadRuntime`; on its own it is run
for the comment at `LuaThread.cpp:593` only.

### ThreadRuntime

`FdsLock` with the two other waits. An agent, a Lua thread or the main thread, may at
any point outside its lock calls, also inside its section, send a message, demand one
(`DemandData`, `Demanded`) or wait for a thread (`WaitThread`, `Joined`). The channel is
the number of its messages, which is what `ChannelSpec` leaves of it for one name, and
`Wait_Thread` is its join, the rest of which is `ThreadTable`'s. Here and in `ThreadTable` no receive
fails with `m_locker`; after one, every channel call and every end of a thread blocks. `busy` says what an agent
waits for, and the steps of `FdsLock` are for agents that are in no other call.

`WaitsFor(a, S)` is the condition under which `a` cannot go on before one of `S` does: it
joins one of them, wants the mutex one of them holds or a finished thread left locked,
sleeps in `Lock` until the main thread thinks, or demands from a channel that only
threads of `S` are left to fill. A `Knot` is a set in which everybody waits for the
others. `KnotStays` says that nobody leaves it; `WaitsReturn`, `LockGranted` and
`HangExplained` that whatever is not in a knot, nor behind a `Demand_Data` that nobody
need ever serve (`Held`), ends; a main thread that hangs for ever in `Lock_Check` has, from some
moment on and for ever, one thread before it that ended or waits with the lock (`HangExplained`).
Together they say which combinations of the calls hang.

### DataMessages

`convertData` and `ReturnDataLua` step by step, on values that are records of a type, a
content and a set of entries. Both functions call themselves for the key and the value of
each entry of a table; `calls` are the calls for tables that are under way, the innermost
last, each with the entries it has still to visit (`todo`), the one it is `at`, the copy of
that one's key and the copy so far (`done`). `Lua_Send_Data` and `Lua_Get_Data` begin the
outermost call, `NextEntry` takes an entry and calls for its key, `KeyDone` calls for its value,
`MapEntry` or `SetEntry` puts what both returned into the copy, `TableDone` returns it to the call
below, and `SendDone` and `GetDone` are the rest of the two API functions. Entries are visited in
any order: `lua_next` promises none, and the map is sorted by pointers. All of a send or a get
is under `m_locker`, so that no other thread comes in between.

What the code does by its use of stack indexes is kept (`TableRead`): inside a table the
table it reads is the one at the top of the stack, so that a table for a key becomes a second
copy of its value, and a table for a key with a value that is no table runs `lua_next` on that value. That
is undefined, and so is a table in itself (`Self`), which is followed without end. Numbers
are what `lua_isnumber` takes for one, a text ends at its first zero byte (`strdup`), and of keys that
have become equal the one visited last stays. `NaN` as a key, which the text "nan" becomes,
is an error in the receiver (`SetFails`), raised past the lock guard. The limit of the Lua stack,
which neither function asks for more of, is left out.

`read` and `made` are histories: each table that was read with the message made of it, and
each message with the table made of it. `Copied` joins the two, and the properties, stated
entry by entry over `Copied`, know nothing of calls or the stack.

### ThreadTable

A function that runs wholly under `m_locker` is one step. `New_Thread` is two
(`NewStart`, `NewInsert`), since the new thread runs before its object is filled in
and inserted. `Wait_Thread` is three: `WaitFind` under the mutex, `WaitDeref`
through the iterator after its release, `WaitJoined`. `std::remove_if` moves the
objects forward and `erase` drops nodes from the end, so that a node may hold
another object than before: `nodes` and `m_threads` are two sequences. Undefined
behaviour that is met is recorded in `fault`, and nothing goes on after it. The
memory of a new `m_delete`, which the constructor does not set, is a choice from
`Garbage`, and `born` remembers it. A thread may manage threads as well as the main
thread does, unless it is `barred` from it, which is chosen at the start (`OneCaller`), so that one run
has both. `raced` is a history: the callers inside `Wait_Thread` under whom another caller has taken
an object out of the table. `NoDangling` and `WaitMeansEnded` say of any number of callers that
this, and nothing else, makes `Wait_Thread` use freed memory or return too early: not the
exits of threads, and not a new thread that joins the table.

### LuaStates

The Lua states and everything that points to them, on the main thread. `stack` holds
the calls under way: a file that is loading, a handler that runs, or the walk of a
hook or of `Reload_Lua` over `Lua`. Whatever runs may register a script, attach one,
raise an event or a hook, load a file, destroy a state or ask for a reload, as far as
`Uses` says that the Lua code of the server does such things. A walk keeps its
position and whether `Lua` has changed since it began, which makes its next step
undefined. `fault` records a call into a closed state and the use of such an
iterator. A step that leads there is not forbidden to the scripts. `phase` tells the start, normal operation and a reload apart, for the two
loading phases run with an empty stack between files. Parameters, timers and the
registry references of scripts are left out.

### DARegistrations

Extends `LuaStates` with what Lua code registers with Dragonade. `LuaTT_DAChatList` is
static in a header, hence two variables in the program: the one of `LuaFunctionsDA.cpp`,
`LuaTT_DAChatList`, and the one of `LuaManager.cpp`, `managersList`, whose commands `Cleanup` unregisters
and frees at a reload, and which never has any. So a reload keeps the commands, `CommandsListed` rests on it, and registering a callback anew is refused
after it, also in the files that the reload has just loaded (`LuaFunctionsDA.cpp:346-350`). A chat command is a walk
over `Lua` (`ActivateCommand`, `CommandCall`) that uses the function's name from the command
object, which its own handlers may delete. `kept` are the states whose tables the crates
and console functions hold. Every step of `LuaStates` is a step here, with `did`, a history
of what scripts did that the code permits and that can end badly: with it the properties
say what undefined behaviour is due to, instead of leaving it out of the instance.

### HookResults

`KindOf` sorts the events by what their hook does with an answer: `veto` (a number, zero
refuses), `bool`, `crate`, `word` (the connection filters), `last` and `integer` (purchases),
`damage`, and those that ask for no result. A `Walk` is a hook under way over the states; a handler of a
state may call an API function that raises another event (`RaiseInside`), which then works in
a new frame of that state's stack. `slots` holds the frames. `Return` and `Fail` are the two ends of `lua_pcall`
followed by `Report_Errors`, and `GoOn` is what the hook does then: it reads the top of
the stack, whatever that is (`Readable`), combines it (`Combined`, `Judged`), clears the
frame or not (`Clears`), and goes on to the next state or not.

Two things in it look like slips of the model and are not. The handler of `Sound_Heard` never runs:
the code pushes six arguments, tells `lua_pcall` of four, and so calls the second of the six, a number
(`LuaManager.cpp:659-671`, `SoundHeard`). And the hooks of purchase requests are of kind `integer`, which
keeps its default when the answer is no number: a handler that ends with `return true`, as the
snippets for them do, leaves the answer at that default.

### AIDialogue

The script's fields and its pending timers, as one record `me`, since callbacks may
call `Act` twice. `Act` gives the set of results, with silence as one outcome; `told`, a
history, says that it last set out to remark on a killed enemy. `WorldMoves` is the engine, which changes what the soldier does and whether it
hibernates.

## 3. What the runs check

| run | instance | shows |
|---|---|---|
| `channels_safety` | 3 threads, 2 channels, 3 messages, of which the second cannot be received; 185,152 states | `PopsWhatItRead`, `NoLostWakeup`, `AtomicQueues` |
| `channels_live` | 3 threads, 1 channel, 2 messages, of which the second cannot be received; 41,836 states | `CallsReturn`, `DemandServed` |
| `data_messages` | 5210 values: scalars and tables of up to two entries, with tables in them; each sent twice; every order of entries | `Arrives`, `RelayedUnchanged`, `AnswerTells` |
| `runtime` | 2 Lua threads (one leaky, the other with spurious wake-ups) and the main thread, 1 message | `OneSection`, `FrameStartsClear`, `KnotStays`, `WaitsReturn`, `LockGranted`, `HangExplained` |
| `fdslock_comment` | 2 Lua threads, no spurious wake-ups | refutes the comment at `LuaThread.cpp:593` |
| `threads` | 3 threads, with one caller or several, `m_delete` set or not at birth; 78,164 states | `ExitRecorded`, `NoDangling`, `OnlyFinishedLeave`, `WaitMeansEnded`, `WaitReturns` |
| `ai_dialogue` | unbounded; 2,112 states | `FlagsHaveTimers`, `NoOverlap`, `DeferredServed`, `StateNoticed` |
| `da_registrations` | 1 file, 3 states, calls 4 deep, all uses; 11,039,447 states | `NoneLost`, `AttachedRegistered`, `UndefinedHasCause`, `PointedOpen`, `CommandsListed` |
| `lua_reload` | 1 file, 4 states, calls 4 deep | `ReloadHappens` |
| `lua_names` | 2 files, `Reload_Lua` | refutes the doc at `LuaFunctions.cpp:7205` |
| `hook_results` | 2 states, one with `OnError`; an event of each kind and `Sound_Heard`; 2 hooks deep; 4,551,176 states | `RefusalStands`, `RefusalHasCause`, `WordsCount`, `NothingElseLeft` |
| `hook_damage` | 1 state, `DA_Damage_Request_Event` | refutes the snippet at `LuaPlugins/.vscode/DAEvents.code-snippets:53` |

Bounds. Three threads are the least in which a third gets between two that hand a
message over, and two channels the least in which a notification can be meant for
another; three messages let `Get_All_Data` take two while one is being sent. That the second cannot be
received lets calls succeed before the failure, fail at once, and fail when `Get_All_Data` has taken one. The
order of threads and channel names plays no part, so `channels_safety` uses their
symmetry; `channels_live` does not, since symmetry is unsound for liveness. In
`LuaStates` four states let a start, a reload and a loaded file overlap, and a depth
of four reaches a handler under `UnloadingLua` under a handler under a hook; with all that can be
registered `da_registrations` has three states, enough for one before a reload, one after it
and one loaded in between. In `hook_results` two states are the least in which a later
answer can undo an earlier one, and two hooks the least in which one works in the frame
left by another; `MaxSlots` stops failures from piling up. In `runtime` two Lua threads and the main thread give every
knot of two and three; a third Lua thread adds no kind of wait and puts liveness out of reach.
One message tells an empty channel from one that is not. In `data_messages` two entries are the
least in which keys can collide and a pass can end half way, a table in a table the least in
which a call returns to a call, and two trips the least in which something received is sent on. `MaxStates`, `MaxDepth`, `MaxSends`,
`MaxThreads`, `MaxMessages`, `MaxTrips`, `MaxWalks` and `MaxSlots` are the only bounds, and
each is a constant.

Deadlock checking is off where the system may stop: when a receive has failed and everyone else
wants `m_locker`, when all messages are sent and
everyone demands, when the lock was leaked, when the bound on threads or states is
reached or undefined behaviour was met.

Fairness. The channels and the FDS lock assume that a mutex that is released again
and again is given at some time to each thread that asks for it (strong fairness of
the acquisition), which Windows' mutexes give in practice and which no code of the
plugin could replace, and that a thread inside a critical section goes on. `RFairness` adds that
the server thinks again and again while it is not in a call, that sections and scripts that
can go on end (scripts that loop for ever keep their section for ever, and nothing in the code would help), and
that a `Demand_Data` which finds messages again and again takes one. Nothing is
assumed of callers: no thread need ever call, nor send. Spurious wake-ups are never required.
`ThreadTable` assumes that scripts end. `LuaStates` assumes that handlers and files end, at
whatever depth, and that the server thinks while a reload is due; `AIDialogue` that the
engine delivers its timers.

What the runs found. The doc, the snippet and the comment that the violation runs refute do
not say what the code does; `findings` in `PROJECT.json` quotes them. Where the code permits
what nothing in the repository excludes, the properties state the exact extent of it:

* `NoDangling` and `WaitMeansEnded` except a `Wait_Thread` during which another caller purges an object
  from the table: it then follows its iterator to freed memory, or joins another thread than the one named.
* `CallsReturn` and `DemandServed` except what follows a receive that fails with `m_locker` held: every
  later call of a channel function, on whatever channel, blocks for ever.
* `OnlyFinishedLeave` excepts the threads whose `m_delete` happened to be set at birth: they leave the
  table while they run.
* `DeferredServed`: put-off news is acted on, unless the soldier hibernates or dies first.
* `UndefinedHasCause` names five causes of undefined behaviour: `Destroy_Lua_Thread`, `Load_Lua` below a
  hook, a file that fails after it has registered something, a crate or console function that is
  there at a reload, and a chat command that unregisters itself while it runs. One more is outside the
  model: a `Register_Script` called from a coroutine keeps the coroutine's `lua_State`, which Lua may collect.
* `KnotStays` and `HangExplained` tell how a server hangs: a script of the main thread that waits for a
  thread in `Lock`, a section that waits for the main thread, a thread that ends inside its section.
* `RefusalHasCause` names failures next to refusals: a handler that fails in a state without `OnError`
  refuses, since the nil that is left is read as its answer.
* `Arrives` and `AnswerTells` list the conversions of a message and the tables that cannot be sent or received.

## 4. What is proved

For every value of the constants, from the assumptions named in the modules
(`ChannelsAssumption`, `DataMessagesAssumption`, `FdsLockAssumption`, `ThreadRuntimeAssumption`, `ThreadTableAssumption`,
`LuaStatesAssumption`, `DARegistrationsAssumption`, `HookResultsAssumption`; TLC evaluates
each on a run). They say that bounds are natural numbers, that names for nobody are
not names of somebody, that a new `m_delete` has some value, that a value to be sent has one of Lua's types, and that what a server uses is
among what can be used. Every strengthening called `IInv` below was an invariant of a TLC run
before it was proved.

| module | theorems (and the property stated) |
|---|---|
| `FdsLock_proofs` | `TypeCorrect` (`TypeOK`), `MutualExclusion` (`OneSection`), `FrameStart` (`FrameStartsClear`) |
| `ThreadRuntime_proofs` | `ImplementsLock`, `RuntimeExclusion` (`OneSection`), `RuntimeFrameStart` (`FrameStartsClear`), `RTypeCorrect` (`RTypeOK`), `KnotsStay` (`KnotStays`) |
| `Channels_proofs` | `TypeCorrect` (`TypeOK`), `PopSafe` (`PopsWhatItRead`), `WakeupSafe` (`NoLostWakeup`), `Refinement` (`AtomicQueues`) |
| `DataMessages_proofs` | `TypeCorrect` (`TypeOK`), `CopiesArrive` (`Arrives`), `RelaysSame` (`RelayedUnchanged`), `AnswersTell` (`AnswerTells`) |
| `ThreadTable_proofs` | `TypeCorrect` (`TypeOK`), `ExitsSeen` (`ExitRecorded`), `IteratorsGood` (`NoDangling`), `Leavers` (`OnlyFinishedLeave`), `WaitsFully` (`WaitMeansEnded`) |
| `DARegistrations_proofs` | `TypeCorrect` (`DATypeOK`), `NothingLost` (`NoneLost`), `ObjectsRegistered` (`AttachedRegistered`), `UndefinedCaused` (`UndefinedHasCause`), `PointersOpen` (`PointedOpen`), `CommandsAgree` (`CommandsListed`) |
| `HookResults_proofs` | `TypeCorrect` (`TypeOK`), `RefusalsStand` (`RefusalStands`), `RefusalsCaused` (`RefusalHasCause`), `WordsCounted` (`WordsCount`), `StacksClean` (`NothingElseLeft`) |
| `AIDialogue_proofs` | `TypeCorrect` (`TypeOK`), `FlagsTimed` (`FlagsHaveTimers`), `LinesApart` (`NoOverlap`) |

How each argument goes:

* **FdsLock**, any number of Lua threads, any of which may be leaky. Mutual exclusion is
  not inductive alone. `HolderInv` adds that a Lua thread is at `locked`, `section` or `gone`
  only while `m_lockerFDS` is its own; that whoever releases the mutex holds it then follows
  for each action, and `FrameStart` follows because only the main thread holds the mutex when
  it leaves `Lock_Check`.
* **ThreadRuntime**, any number of Lua threads and any bound on messages. Each step of `RSpec`
  is one of the lock's or leaves its variables alone (`<1>step`), so that exclusion and
  the start of frames follow without a second proof. `KnotsStay`: for a set in which
  everybody waits for the set, no member can take a step that ends its wait, and no other
  agent can give it what it waits for (one case for each action and each way of waiting); the
  knot is the union of such sets, each of which is still one after any step.
* **Channels**, any threads, names and number of messages. `IInv` adds `HolderInv` (a thread
  is inside exactly while it holds `m_locker`) and `LocationInv` (which function reaches which
  location). `PopsWhatItRead` is kept because no second thread is inside while one has
  read and not yet popped; `NoLostWakeup` because a `Push` moves its thread to the notification,
  with the mutex still held, and `NotifyAll` leaves nobody asleep.
* **The refinement of ChannelSpec.** `ResultInv` says of each call what it has collected where
  it stands: nothing before the channels serve it, one message after a read that is no
  `Get_All_Data`, and at the release of `m_locker` exactly what its function promises
  (`ReturnOK`). `SoundInv` adds that what was read can be received, so that a failing `Get_All_Data` has
  popped exactly what comes before the first message that cannot, which is the abstract `Fail`. With it the start of a call is a `Request`, taking `m_locker` or pushing is an
  `Open` or invisible, the release is the `Effect` (`<1>effect`, one case for each function),
  and all other steps stutter (`<1>stutter`): the abstract queue is the concrete one with
  what the holder has popped put back before it, or without the message it has just pushed, and
  to pop what was read moves it from one side to the other (`FrontLast`).
* **DataMessages**, values of any size and nesting, in any number of trips. What a recursive
  function computes is as a rule shown by induction over the data, which this prover cannot do.
  Here it is an invariant of the steps: a call for a table ends after those for the tables in it,
  so that an entry that is a table is in `read` or `made` before the table that holds it. `ReadInv`
  and `MadeInv` relate each table to what was made of it, entry by entry; `Call` says the same
  of a call under way and the entries it has visited, `Inside` that each call is for the key or the
  value its caller is at. `Arrives` follows by joining the two relations. For `RelayedUnchanged`, `Keeps`
  says that a set of tables closed under its values, with keys and scalars that no conversion changes, is read
  and made unchanged; whatever was received is of this kind (`Received`) but for the keys that are
  tables. For `AnswerTells`, `Origins` follows the calls of a get back to the tables that were sent, so
  that the key at which `lua_settable` fails is found in the value itself.
* **ThreadTable**, any number of threads, one caller or many, any memory at birth. `NewInv`
  describes the thread that runs and is not yet in the table: it is the last one, and, since
  `New_Thread` has `m_locker`, it is not through `setThreadExit`. So `ObjectInv` can say that
  `m_running` is right for every object in the table. `WaitInv` says of every caller in
  `Wait_Thread`, unless it is in `raced`, that its node holds the thread it names; that with one caller nobody
  is ever in `raced` follows since that caller is the one who would purge. `Purged` says what `remove_if` and `erase` leave.
* **DARegistrations**, and with it **LuaStates**, of whose steps it has every one: any files,
  states, depth of calls and set of uses. `ManagerInv` says that the open states are those in
  `Lua` and those whose file is loading; `StackInv` what each call under way may
  count on: a walk that is not `stale` knows the length of `Lua`, a `stale` one and a handler in a
  closed state have a cause in `did`. `CallsAndStates` shows these two for every step, and
  `RegistrationsStep` what the registrations need of them. That undefined behaviour
  has no sixth cause is thus proved for all histories.
* **HookResults**, any number of states, any answers, events nested to any depth. The three
  properties of an answer speak of a hook that has heard some of its states; they are kept by a
  step only for a hook whose place among the states is known (`Place`). The step `<1>hears` is the heart of it: one
  more answer, failure or absence keeps a hook in place and sound, for each kind. For
  `NothingElseLeft` the frames have to be counted (`FramesInv`): a state has one frame more than
  hooks below the innermost that run a handler in it, so that the end of a hook that works
  in an inner frame is never mistaken for one in the outermost. The proof corrected the
  type invariant: with no Lua state at all a hook has `last = 0`.
* **AIDialogue**, histories of any length. `LineInv` says that a living soldier has one timer 2
  while it speaks and none otherwise, and that a dead one may have two; `SightInv` that the two
  remarks are held back exactly while their timers are pending. `FlagsTimed` needs that news put
  off has a timer to wait for, which holds because `Act` never takes a timer away.

Only model-checked: the liveness properties (`CallsReturn`, `DemandServed`, `WaitsReturn`,
`LockGranted`, `HangExplained`, `WaitReturns`, `ReloadHappens`, `DeferredServed`, `StateNoticed`),
which are out of the prover's reach, since they rest on fairness and so on ENABLED. Every
invariant and every action property of a passing run has a theorem. The three
violation runs are counterexamples and need no proof.

## 5. Not modelled, and the plan

Left out for good: the wrappers of `LuaFunctions.cpp` and `Lua_Class.*`, which keep no
state, and the null game modes, a list that only grows; dialogs and HUD elements (`LuaDialog.*`), bare pointers to objects whose life is
decided by engine code that is not here; the shutdown of the plugin; calls of
the manager and of Dragonade from worker threads that have `Load_FDS_Functions` (`LuaStates` and `DARegistrations`
are of the main thread only; that a section can overlap the game is what `fdslock_comment` shows); the
engine's own behaviour beyond what the plugin relies on; third-party code (`LuaLib`, `LuaSocket`, `LoadLib`,
SQLite), which is by far most of the repository's lines. Of the server's chat command manager
only that it finds a command by its trigger is modelled, one trigger for each command.

What is left: the shutdown of the plugin (`~luatt`) and of its threads is the part of the
manager that could still be modelled. The limit of the Lua stack, which a value nested deeply enough passes
in `convertData` and `ReturnDataLua`, would need a depth in `DataMessages`.
