# espotify in TLA+

espotify is an Erlang NIF library around libspotify. Erlang processes call NIFs
on the scheduler threads of the virtual machine; a thread of the library runs
libspotify's main loop; another one sends callback messages to an Erlang
process; libspotify and the audio driver have threads of their own. They share
the global `g_state`, a feedback queue and an audio fifo, partly under mutexes
and partly not. These modules model those parts, check them with TLC on small
instances and prove the central invariants with TLAPS for all of them.

File and line numbers refer to the repository; `c_src/...` stands for
`src/c_src/...` when the repository is checked out under `src/`.

## 1. The system and its components

| Component | State | Operations | Talks to |
|---|---|---|---|
| Feedback queue and references (`c_src/espotify_async.c`) | linked list `head`/`tail`/`next`, `stopping`, `ref_env`, `ref_cnt`, callback pid | `async_env_acquire`, `async_env_release_and_send`, `async_make_ref`, `async_return_ref`, `async_set_pid`, `async_start`, `async_stop`; the thread `thr_main` | fed by every callback and NIF; sends to the Erlang process |
| Main loop and command channel (`c_src/spotifyctl/spotifyctl.c`) | `cmd`, `cmd_arg1`, `cmd_error_msg`, `cmd_result`, `notify_events`, two mutexes, two condition variables | `spotifyctl_run`, `notify_main_thread`, `do_cmd0`, `do_cmd1`, `wait_for_cmd_result` | NIFs post commands; libspotify's threads notify |
| Load queue (`spotifyctl.c`, `playlists.c`) | list `load_queue_head`/`load_queue_tail`, no lock | `track_info`, `load_playlist`, `load_queue_add`, `load_queue_check`, `metadata_updated`, `pl_state_change` | filled by NIFs and callbacks, walked by the main thread, answers through the feedback queue |
| Audio fifo (`audio.c`, `spotifyctl.c`) | tail queue, `qlen`, mutex, condition variable | `music_delivery`, `audio_get`, `audio_fifo_flush` | libspotify's delivery thread, the driver's thread, the main thread |
| Session life cycle (`espotify.c`, `spotifyctl.c`) | `priv->session`, its `tid`, `running`, `logged_in`, `async_state` | `start`, `stop`, `load`, `unload`, `logged_in`, `logged_out`, entry and exit of `spotifyctl_run` | creates and joins the main thread |
| Player (`spotifyctl.c`, `espotify.c`) | `current_track`, `player_load_track`, track references | `player_load/play/seek/unload/current_track`, `metadata_updated`, `end_of_track`, `play_token_lost` | commands through the channel; `stop` and `current_track` directly |
| Playlist containers (`playlists.c`) | a `container_load_data` per request, callbacks per playlist | `load_container`, `container_loaded`, `pl_pc_state_change` | libspotify callbacks |
| Browse, image and search requests | the reference handed to libspotify | `browse_album`, `browse_artist`, `load_image`, `search` and their `_complete` callbacks | feedback queue |
| Term builders (`espotify_util.c`, `espotify_callbacks.c`) | none | libspotify objects to Erlang records | called by every feedback |
| Audio drivers (`alsa-audio.c`, `openal-audio.c`, `osx-audio.c`, `dummy-audio.c`) | the device, OpenAL's three buffers, `frame` | take packets, reopen or reset at a new rate | the fifo, the device |
| Erlang stubs, build, `playtrack.c`, `queue.h` | none of their own | types; an example program; vendored macros | |

What is hard in it: NIFs run concurrently with the main thread and with one
another, and most of `g_state` has no lock; two condition variables are waited
for, one of them without a predicate; both library threads initialise flags
that another thread may already have set; objects of libspotify are reference
counted by hand across several paths; memory is freed before its last use. The
full list, with lines, is `hazards` in `PROJECT.json`.

What makes each part correct:

- feedback queue: a FIFO channel; the list and the memory stay sound; no lost
  wakeup; a pushed message is delivered; unloading ends; references keep their
  terms while they are outstanding;
- command channel: each call is carried out once, gets its own result, and its
  stack frame outlives the command; the main thread never sleeps on work;
- load queue: every request is answered once, no cell is used after `free`,
  and a session leaves nothing to the next one;
- audio fifo: frames are heard in order without gaps, `qlen` is exact and
  bounded, the driver never sleeps on data;
- audio drivers: what is heard moves forward at its own rate, and no packet is
  lost or overwritten when the format changes or the source runs dry;
- session: one main loop at a time, on a valid block, with a feedback queue,
  and `stop` returns;
- player: no track is used after its release, a track that plays is current,
  `loading` is followed by its message;
- requests: each reference is returned once, what was created for it is given
  back then, and a request that can be answered is;
- term builders: every message has the declared types and arities, each field
  is in its place, and a record that says it is loaded has its data.

## 2. Modules

| Module | Models | Checked by | Proved in |
|---|---|---|---|
| `Async` | feedback queue, references, unload | `MCAsync` | `AsyncProofs` |
| `FeedbackChannel` | what the feedback queue promises: a FIFO channel | refined by `Async` | `AsyncProofs` |
| `MainLoop` | main loop and command channel | `MCMainLoop` | `MainLoopProofs` |
| `CommandService` | what the command channel promises: an RPC | refined by `MainLoop` | `MainLoopProofs` |
| `LoadQueue` | load queue and its callers | `MCLoadQueue` | `LoadQueueProofs` |
| `AudioFifo` | audio fifo with a driver that takes packets | extended by `AudioDrivers` | `AudioDriversProofs` |
| `AudioDrivers` | the fifo with each of the four drivers | `MCAudioDrivers` | `AudioDriversProofs` |
| `Session` | start, stop and the run of the main thread | `MCSession` | `SessionProofs` |
| `Player` | player commands and callbacks | `MCPlayer` | `PlayerProofs` |
| `Requests` | browse, image, search and container requests | `MCRequests` | `RequestsProofs` |
| `RequestTable` | what a reference promises: one answer at most | refined by `LoadQueue` and `Requests` | `LoadQueueProofs`, `RequestsProofs` |
| `Terms` | the messages and the tuples in them | `MCTerms` | `TermsProofs` |

Each module is about one component and one kind of hazard; where two components
meet, each module keeps what the other one does to its own state (`Player` has
`Stop` and `RunEnd`, `Session` leaves tracks out, `LoadQueue` has
`player_load_track`, and `MainLoop`, `LoadQueue`, `Player` and `Requests` each
have their part of the end of a session and of the next one's beginning).
`Async`, `MainLoop`, `LoadQueue` and `Requests` are compared with an abstract
specification through `INSTANCE ... WITH`; `AudioDrivers` composes the fifo with its drivers, and
implements `AudioFifo`.

### How state and actions correspond to the code

The variables have the names of the fields and locals of the code; `pc` and
`mpc` say where a NIF's or the main thread's execution is. The grain of a step
is what another thread can see: a critical section of a mutex is one step, and
code that runs without one is split at each access to shared memory. Auxiliary
variables, marked in the declarations, are read by no guard.

*Async.* `Push`, `PopWait`, `PopItem`, `PopStop`, `QueueStop` are the critical
sections of `queue->lock`; `MakeRef`/`CountRef` and `ReturnRef`/`UncountRef`
split the unlocked `ref_cnt++` and `ref_cnt--` into load and store;
`InitRefEnv`, `InitRefCnt` and `InitStopping` are the three stores with which
`thr_main` starts on its own thread, and what `ref_cnt` holds before is in
`Garbage`; `CheckRefs`/`ClearRefs` the test and the `enif_clear_env` after each
message; `Join` is the end of `enif_thread_join`.

*MainLoop.* `Post` is the critical section of `do_cmd0/1`, `WaitResult` and
`Return` are the two halves of `wait_for_cmd_result`. The main thread goes
round `MainWait`, `TakeEvents`/`ProcessEvents`, `TakeCmd`, `BeginCmd` (lines
574-575), `Execute` (577-599), `SignalResult` (600). What a command does to the
player is its result here. `LoopEnd` leaves the loop with `notify_mutex` locked,
so that nobody posts or notifies (`MutexFree`), and drops the command that is
waiting; `RunBegin` initialises the condition variables again, after which a
caller that sleeps on the old one is "stranded". `answer` records what each call
returned and `dropped` whose command a session has dropped, for the comparison
with `CommandService`.

*LoadQueue.* A cell is the k-th track of a request. `AddCell`, `SetHead`,
`Link`, `SetTail` are the memory accesses of `load_queue_add`, for the cell in
`item`, with the others of the same request in `todo`; `WalkPast`,
`Unlink`, `ReplyAndFree`, `Advance` those of `load_queue_check`. A load that gives
a store its address is one step with it, and `pl_state_change` looks at all
tracks of its playlist in one step. `RunEnd` clears
`async_state`, `FreeCell`, `ForgetHead` and `ForgetTail` clean the queue up
(`spotifyctl.c:618-626`), and `RunBegin` is the next session.

*AudioFifo.* A packet is its first frame's position in the stream and its
number of samples, so order and gaps can be stated; `Play` is the driver using
and freeing the packet it holds.

*AudioDrivers.* `Play` becomes what each driver does: `AlsaPlay` reopens the
device at a new rate and may lose a write, `OsxPlay` plays everything at one
rate, `DummyPlay` frees. OpenAL's loop is `QueueBuffer` (prefill), `Unqueue`
(poll and unqueue), `Refill`, and at a new format `FormatChanged` (the packet is
freed), `Detach` (line 123) and `Restart` (the source is stopped, and the packet
copied); `Hear` is the source (external), which stops when it has played its last
buffer. `Deliver` may get the freed packet's memory. `Fill` is `alBufferData` with
`alSourceQueueBuffers`. OpenAL's calls may be refused: see section 5.

*Session.* `Start` ... `StartThread` are the lines of `espotify_start`, `Stop`
... `StopDone` those of `spotifyctl_stop` and `do_stop`; `RunBegin` ...
`RunEnd` those of `spotifyctl_run`. `running` and `logged_in` are read and
written in steps of their own. `login` is libspotify's state (external).

*Player.* `refs` counts what the library has retained and not released; `bad`
becomes true when NULL or a released track is given to libspotify. The unlocked
steps of `_ensure_unload_track`, `metadata_updated` and
`player_current_track` are steps; the look of `player_play`, `_seek` and `_unload`
at `current_track` is one step with the post of their command, which is carried
out later, whatever has become of the track.

*Requests.* Every NIF that hands a reference to libspotify is an action, its
`spotifyctl_*` function an operator of that name. `browse_album` looks at the
object it has created (`Look`) and may complete the request itself, with the
steps `SendResult` and `Release` that libspotify's callbacks also take on the
main thread. `LoggedIn` is the container that `logged_in` loads with NULL for a
reference (`spotifyctl.c:42`). `obj` is libspotify's object, `data` the `container_load_data`,
`plwatch` the playlists that `pl_pc_state_change` is registered for. An object
that libspotify has in its cache may or may not be called back for. At
`SessionEnds` `async_state` is cleared and nothing else: objects, blocks and
registrations stay, libspotify may forget callbacks that were due, and a reply
before `SessionBegins` uses NULL.

*Terms.* Each `*_tuple` function is an operator of its name that gives the
tuple's fields in their order, with the Erlang type of each and what of
libspotify it tells (`of`). A playlist that has neither loaded nor a link gets a `null` where
`playlist_tuple` reads its link. A message nests its tuples six deep at most (a
playlist's track's album's artist's name), so `WithParts` six times over gives
all the parts of one (`MsgPairs`), without recursion. `loaded` grows at any time; a builder sees the
objects that were loaded when it asked, and `late` those that loaded while it
was at work. `Fields` is `include/espotify.hrl`.

### Conditional properties

Much of this code is right only as long as calls come one at a time, although
nothing enforces that. So that one run checks both what always holds and what
holds for such clients, the modules record that it has happened, in variables
that no guard reads:

- `Async.raced`: an unlocked update of `ref_cnt` has overlapped another one, or
  `thr_main`'s start, which sets it to 0;
- `MainLoop.disturbed`: a call was posted during another one, or
  `pthread_cond_wait` returned without a signal;
- `LoadQueue.overlapped`: a NIF or callback that uses the list began before
  another one had ended, or when no session ran;
- `LoadQueue.batched`: `load_queue_check` began with two tracks loaded that one
  playlist was waiting for (`spotifyctl.c:453-464` answers for each of them);
- `AudioDrivers.reused`, `.refused`: the memory of the packet that caused a reset
  was allocated again; the first call that OpenAL refused;
- `Session.overlapped`, `.early`, `.failed`: a start or stop during another
  one; a stop before the loop was entered; a start that returned badarg;
- `Player.raced`: a thread began a command, a callback, `stop` or
  `player_current_track` while another was at one (more than two uses of
  `current_track` at once);
- `Requests.met`, `.batched`, `.late`: a callback came during the
  `browse_album` it completes; two playlists that one request watches had loaded
  before the first callback; a `browse_album` ran while no session did.

A property that begins with `~disturbed =>` and the like states what a client
that calls in turn may rely on; those without it hold in every interleaving.

## 3. Runs

The bounds are in the `.cfg` files. TLC explores each instance completely.

| Run | Instance | Shows |
|---|---|---|
| `async` | 2 threads, 1 message, 2 replies, 2 pids | list, memory, wakeups, refinement of the channel, delivery, exact `ref_cnt` |
| `async_refs` | 1 thread | violated: an outstanding reference keeps its term |
| `main_loop` | 2 callers, a command with three results and one without argument, any number of sessions | wakeups and events always; for calls in turn an RPC that returns each call its own result, carried out in its session or never, and frames that outlive their use; no deadlock |
| `main_loop_return` | 1 caller | violated: a call returns |
| `load_queue` | 2 NIF threads and the main thread, a track and a playlist of two that share a track, the player waiting for it, sessions that end and begin | no double free, refinement of the request table by tracks, and a sound list in which nothing of an earlier session is left; without overlap no NULL pointer, an answer, and refinement of the table by playlists too |
| `load_queue_lost` | 3 track requests, no overlap | violated: each is answered |
| `audio` | the four drivers, rates 1 and 2, deliveries of 1 and 2 frames, 7 frames in all | order, `qlen`, wakeups, room again; OpenAL's ring and that what is heard moves forward, until a call is refused; its rate always |
| `audio_change` | as `audio` | violated: the packet that brought a new rate is kept |
| `session` | 2 processes, 2 sessions | one loop, valid session, stop returns once the loop is entered |
| `player` | 2 NIF threads, 2 tracks, 2 references each | references, player and `current_track`, `loading` is answered |
| `requests` | 1 NIF thread, any 3 requests or logins, 2 containers that share a playlist, sessions that end and begin | one message per reference, exactly when its object or block is given back; every request that can be answered is |
| `terms` | an artist, an album, 2 tracks, 2 playlists, each loaded, loading or not | types, arities (four exceptions), order and presence of the fields of every message |

Why these bounds are enough for the hazards at hand: two threads that push and
one that pops give every interleaving of two critical sections with each
position in a list that becomes empty, one and two long; three replies or
messages let a list be empty again with a stale tail in between. Two callers
are enough to overwrite a command slot and to steal a result. Two tracks with
one shared between a request and a playlist give two cells for one track; three
tracks are needed for the lost request, and its run has them. In the fifo, two
rates make the limit change between deliveries, and the sizes let a delivery
end before, at and after it; seven frames fill OpenAL's three buffers, change
the rate and fill them again. Two sessions are needed for what one leaves to the
next; two processes for what start and stop do to each other. Two tracks are a
current and a loading one. Three requests of any kinds give a request for each
thread and one in libspotify; one NIF thread is enough, since requests of
different NIFs touch different objects (`RequestsProofs` covers any number). In `Terms` two of a kind are an element
that is loaded and one that is not. `MaxPos`, `MaxStarts` and `MaxRefs` bound counters
that the code does not bound, in guards of the actions that increase them.

### Fairness

- `thr_main`, the main thread, the driver and a NIF that has been entered run
  on (weak fairness): they are threads of the operating system, and the code
  has no other scheduler. Nobody has to call, notify or deliver, and no
  spurious wakeup has to happen.
- `Session`: weak fairness of the main thread's and the callers' steps; strong
  fairness of `Notify` while a login or logout is under way, because the main
  thread releases `notify_mutex` again and again and a mutex is eventually
  given to a thread that waits for it; strong fairness of the callback of a
  login or logout that has been asked for, and of
  `sp_session_process_events` returning a `next_timeout` other than 0: both are
  assumptions about libspotify.
- `AudioDrivers`: weak fairness of the driver's thread and of `Hear`: a source
  that plays goes on.
- `Player`: weak fairness of the main thread, strong fairness of
  `MetadataUpdated`, since libspotify calls it between commands once a track's
  metadata has arrived.
- `Requests`: weak fairness of each thread and of the callbacks that are due;
  nothing has to load.

### What the violated runs show

- `async_refs`: `ref_cnt == 0` is tested and `ref_env` cleared
  (`espotify_async.c:143-144`) while a NIF makes a reference in it; no two updates
  of `ref_cnt` overlap in the trace, so an exact count does not help.
- `main_loop_return`: the result is signalled before the caller waits
  (`spotifyctl.c:191`, `:600`), and the call hangs.
- `load_queue_lost`: the tail still points to a freed cell
  (`spotifyctl.c:438-444`), the next request is linked behind it.
- `audio_change`: the packet is freed at line 105 of `openal-audio.c` and read at
  lines 127-131, although line 126 says "Make sure we don't lose the audio packet
  that caused the change". The source has run dry in the trace, so line 123 could
  detach its buffers; that a detach is refused is a second way to lose the packet,
  which the property leaves out.

Other disagreements seen while modelling, for which no run is kept:
a reference made between lines 133 and 134 of `espotify_async.c` loses its count;
`thr_main` sets `stopping = 0` (`espotify_async.c:136`) after a `queue_stop` may
have set it to 1, and `espotify.c:469` "wait for async thread to exit" waits for
ever (`UnloadTerminates` of `Async`); `running = 1` (`spotifyctl.c:527`) may
overwrite the stop of a session that has just been started, which never returns
although `espotify_api.erl:86-88` says it does (`StopReturns` of `Session`);
`current_track` is released between the two reads of `player_current_track`
(`espotify.c:218-221`, `CurrentTrackValid` of `Player`);
two processes that call `player_load` at once read each other's result
(`spotifyctl.c:200`); `metadata_updated` returns before `load_queue_check` when
it has handled the player's track (`:144`); a playlist whose last two tracks
are loaded by one update is answered twice (`:461`, `RepliedOnce` of
`LoadQueue`; `TableSpec` says that nothing else answers it twice); after a `start` that returns badarg each later one says
`already_started` (`espotify.c:76-97`); a `player_load` that libspotify refuses
copies the message to NULL (`spotifyctl.c:256`); a `player_load` of a loaded
track leaks the reference of the one that was current (`:261`); the message
after `loading` is `{ok, Track}` (`espotify_callbacks.c:65-77`), where
`espotify_api.erl:99-100` and the repository's `README.md:60` say `loaded`; `load_playlistcontainer` is answered by no callback with its
reference (`playlists.c:216-219`); a callback that comes while `browse_album`
looks at its album returns the reference twice (`spotifyctl.c:331-333`); and two
playlists of a container that load together make the second callback use the
`container_load_data` that the first has freed (`playlists.c:117-134`).

About sessions: a command that waits when the loop ends is dropped
(`spotifyctl.c:614`) and its caller sleeps for ever; tracks that wait in the
load queue are freed and never answered, nor are requests that libspotify
forgets at logout; a NIF that replies after `async_state` is cleared passes NULL
to `async_env_acquire`.

About terms: `is_starred` and `is_local` are the wrong way round
(`espotify_util.c:177`, `espotify.hrl:36-37`), and `FieldsInPlace` excepts them;
the id of an image is a binary as long as the image, not 20 bytes
(`espotify_util.c:39-60`); the link of a playlist that a search has found is read
without a look whether it is NULL (`espotify_util.c:331`, called from `:476`); an
album's cover is always `undefined`. `WellTyped` names what it excepts: the id, the
search's links, the error of `logged_in`, and `player_load`, whose documented
result (`Documented`) is not the expected one (`Expected`).

About drivers: a reset of OpenAL's driver normally meets a source that plays, and
`alSourcei(source, AL_BUFFER, 0)` (`openal-audio.c:123`) comes before
`alSourceStop`, so that OpenAL refuses it, although line 122 says "so we need to
reset all buffers": the old buffers stay queued, `buffers[0]`, if it is
one of them, is not given the new packet, and the old ones are played again. Line 116 does not see it:
`alcGetError` is the device's error, not that of `alSourcei`. OpenAL's source is not started again after it has run dry
(`openal-audio.c:86-120`); the prefilled buffers may have different rates
(`:83-85`), which OpenAL refuses too; the buffers that are queued at a reset are
lost when it does detach them (`:122-137`); the
AudioQueue driver plays every rate at 44100 Hz; ALSA drops a packet whose write
fails (`alsa-audio.c:183-213`).

## 4. Proofs

TLAPS checks the theorems for all values of the constants that satisfy the
`ASSUME` of the module (finite sets, `NULL` outside them, positive bounds).

*AsyncProofs.* `IInv` adds to the type invariant `OneOwner` (a thread that is
between acquiring an item and pushing it holds that item alone, and it is not in
the list), `UnloadOrder` (nobody is in a call while the library is unloaded:
the virtual machine guarantees it), and the checked invariants `ListShape` and
`NoSleepOnWork` themselves. Without `OneOwner` a push could append an item that
is already in the list, and `ListShape` would not be inductive. `MemorySafe`
follows from it; `ImplementsChannel` maps each step to a step or a stutter of
`FeedbackChannel`; `RefCountExact` needs a second invariant, `RefInv`, which
relates `ref_cnt` to the references and to the loads under way, and says that
none has been made while `thr_main` has yet to set it, unless one has raced.

*AudioDriversProofs.* The first part is about the fifo: `IInv` adds `Behind`,
that no packet, taken or queued, lies beyond the frames accepted so far. With it
the queue is contiguous after every insertion, and what is heard next is what
comes next. Each step of a driver is a step of `AudioFifo` or a
stutter (`ImplementsFifo`), so what is proved of the fifo holds with every
driver (`FifoSound`). `RingAlwaysSound` rests on `Ring`, which says for each
phase of OpenAL's loop which buffers are queued as long as no call has been
refused, so that the buffer that is filled next never is (`NotQueued`);
`FillBuffer`, `DetachStep` and `RestartStep` are the calls that may be refused.
`HeardInOrder` says that what is heard lies behind what was heard. It follows the
stream backwards from the packet in hand: `InOrder` puts the end of what has been
heard before the queued buffers that will be played, those one after the other
before `Limit`, where all that was taken earlier ends, and the packet in hand
after that. It holds up to the first call that OpenAL refuses and the first time
that the freed packet that the driver reads (`openal-audio.c:127`) has been
overwritten; the rate at which a packet is heard is right beyond both.

*MainLoopProofs.* `IInv` adds `InTurn`: as long as calls take turns, at most one
is not idle, and it is in one of four phases that say where its command is:
`Pending` in `cmd`, `Serving` with the main thread, `Served`, or `Dropped` by the
end of a session. `CallsAlwaysSound` reads pointers and results off the phases;
`ImplementsService` maps each step to `CommandService`: the result that `Return`
reads is `served`, and a command that is carried out is that of a caller that no
session has dropped. `NoLostWakeup` needs no
assumption about the callers.

*LoadQueueProofs.* Nothing is assumed about overlap. `IInv` says what survives
every interleaving: a cell that is to be added is one thread's alone (`Owned`);
a cell that has not been queued yet has no part in anything (`Unseen`); no two
pointers that a walk may follow lead to one cell, and they lead to allocated
cells (`Pointers`, `Walk`); they go forward in some order of the cells
(`Ordered`, a rank that grows along `next`, chosen anew by each step that links
a cell); and an answered track has no cell left (`Answered`). Cells may be lost,
but none is freed or answered twice, and the allocated cells are the
list that `ListAlive` asks for. `TakingTurns` adds where `load_queue_tail` may be
NULL as long as calls and callbacks do not overlap (`ListAlwaysAlive`).
`ImplementsTable` maps each step to a move of one request in `RequestTable`: for
`track_info` from `Answered`, in every interleaving; for `load_playlist` from
`PlaylistOnce`, which says that a playlist has cells only between its
`pl_state_change` and its answer, and that a walk meets at most one that is
loaded, so that the cell that finds all tracks loaded is the last.

*SessionProofs.* Until calls overlap, `IInv` has `InTurn` (one call at a time),
`Bound` (the live thread is that of `priv->session`, and has a queue), `Calling`
(what a call in progress relies on) and `Made` (a finished session has a thread).

*PlayerProofs.* `IInv` adds `CmdShape` (the caller of a command waits, and its
track has room for the reference that the command may take), and, as long as
nobody has raced, `Alone` (one thread at a time uses `current_track`) and
`Covered`: each track has a reference for each pointer to it, less the one that
a thread has just released and not yet overwritten. `TracksValid` follows.
`PlayingAlwaysCurrent` adds `PlayerKnown`, which says at each step of a load and
an unload what libspotify plays.

*RequestsProofs.* `IInv` adds `Shape` (what libspotify holds fits the request's
kind and answer), `NifsApart`, and, as long as things are `Orderly` (no callback
meets its `browse_album`, no playlists load together, no `browse_album` runs
without a session), `Apart` (no two threads complete one request),
`Working` (how far a completion is, while a session runs), and `Waiting`: a
container that waits for a playlist has a live block, and so has a callback that
is due, of which there is at most one. With `Waiting` the block is alive
whenever `pl_pc_state_change` reads it, and is freed once. `ImplementsTable`
maps each step to a move of the one request it concerns; this refinement is in
no run of its own, since `AnsweredOnceReleased` refutes the same mutants.

*TermsProofs.* The invariant is that a message is none or was built by
`Feedback` from some view of libspotify, where what loads during the call is
part of the view. The rest is about the operators. A field that is right is
`RecordGood` or `ListGood`; `Deep0` ... `Deep6` say that all that is nested in
it is, to that depth; each builder has a lemma that gives the depth of its
tuple (`UserDeep` ... `SearchDeep`), from those of the builders that it calls.
As no message is deeper than six levels, `DeepMsg` covers all its parts, and the
three theorems read types, presence and order off it. No induction is needed:
the nesting is bounded by the code, since no builder calls itself.

What only TLC checks: all liveness properties
(`PushedIsDelivered`, `StopHonoured`, `EventsProcessed`, `SleeperAnswered`,
`QueuedIsAnswered`, `RoomAgain`, `StopOnceLooping`, `LoadingIsAnswered`,
`RequestAnswered`), which TLAPS does not reach. Every safety property of every
run that passes has a theorem.

## 5. What the models assume and leave out

- `unload` runs when no NIF executes, and not again: the virtual machine
  guarantees it (`CanCall` of `Async`).
- A reference made before `thr_main` has created `ref_env` kills the virtual
  machine; the model does not continue such runs. One made after that, and before
  `ref_cnt` is set to 0, is in the model.
- A freed load queue cell keeps its `next` field until it is allocated again,
  as with glibc. `LoadQueue` allocates each cell once.
- libspotify calls metadata callbacks on the main thread, between commands,
  inside `sp_session_process_events`, and the completion of a request once, and
  not for an object that has been released (`Requests`). Playlists are not added
  to a container while it is being loaded.
- A thread of libspotify that waits for `notify_mutex` while a new session
  initialises it again is taken to get it (`Session`); POSIX leaves it open.
- Commands in `Player` take turns; how they meet is `MainLoop`'s subject. A
  command posted when no main loop runs is left out.
- `timed` waits in `MainLoop` may end at any time.
- The end of a session is taken when no callback runs on the main thread, in
  `LoadQueue` and `Requests`; when libspotify logs out it may forget callbacks
  that were due, and it need not. The next session finds the mutexes and
  conditions initialised again; what POSIX leaves open about threads that wait
  for the old ones is a choice in `MainLoop`.
- OpenAL is external, and modelled as its 1.1 specification has it: AL_BUFFER
  cannot be set while the source plays, a queued buffer cannot be given new data,
  the buffers of a queue have one format, a source that is stopped counts its whole
  queue as processed and plays all of it when it is started again. A call that
  breaks a rule changes nothing but an error that the driver does not read. An
  implementation that accepts such calls is not modelled.
- `frame` in `openal-audio.c` is counted modulo 3 and does not overflow; the
  number of channels is treated as the rate is. Failing to open a device and the
  assertion of `osx-audio.c:46`, that a packet fits in a buffer of the AudioQueue,
  end the process and are left out.
- A playlist that has loaded has a link (`Terms`); one that has not may have
  none.
- Out of memory, the text of strings, device I/O, and the components marked
  `not_modelled` in `PROJECT.json`.

## 6. Plan

Done: the modules of section 2, with proofs about all of them.

What could be added:

1. `Espotify`: one session with commands, requests and the feedback queue
   composed, on a small instance, and the composition of the abstract
   specifications that it implements.

Not modelled: the Erlang modules (stubs and types without logic of their own),
`playtrack.c` (an example with a `main` of its own), `queue.h` (vendored; the
fifo's list is a sequence) and the build.
