# A verification project for the verge3 engine

verge3 (`src/verge/Source/`) is the engine of a tile based role playing game:
maps with entities that walk on them, a player who is moved by the keyboard,
and scripts (VergeC or Lua) that the engine calls and that call the engine.
This directory holds TLA+ modules of the parts of it whose order of steps is
hard to get right, the TLC configurations that check them on small instances,
and proofs, checked by TLAPS, of what matters most.

Line numbers below are those of `src/verge/Source/` unless a path says
otherwise. `PROJECT.json` maps every definition that models code to its lines
and lists the runs, the mutants that each property rejects, the findings and
the hazards.

## 1. The system

The engine has one thread of its own and a timer thread that counts ticks (100
a second), updates movies and does nothing else; there is no lock between
them. Sounds add two threads of audiere's, its mixer and one for events, which
call the engine back. What makes the engine hard is less parallelism than
*re-entry*: almost
every function can end up calling a script (a zone, a step, a collision, an
activation, a bound key or button, a timer hook, a render hook, the start of a
map), and a script may call almost every function of the engine again,
including those that are on the call stack below it. State read before such a
call is stale after it.

| Component | Files | State it keeps | Operations | Correct when |
|---|---|---|---|---|
| Entity links | g_entity.cpp, g_script.cpp | `follow`, `follower`, `movecode`, `myself` | stalk, clear_stalk, SetPlayer, EntityMove/Stop/Wander…, leaving the map | the two ends of a link agree, nothing dangles, recursions along links end |
| Entity motion | g_entity.cpp | `x`,`y`, waypoint, `path[]` | setxy, move_tick, stalk, think | a convoy follows the track of its head |
| Obstruction and wandering | g_engine.cpp, g_entity.cpp, g_map.h | positions, waypoints, faces | MaxPlayerMove, ObstructDir(Tick), ProcessControls, do_wander…, activation | nobody walks into walls or onto others; wanderers stay in their zone or box |
| Engine loop | g_engine.cpp, g_script.cpp, lua_main.h, win_timer.cpp | call stack, `invc`, `lastentitythink`, `done`, `entitiespaused` | Engine_Start, TimedProcessEntities, ProcessControls, Render, PlayerMove, Map | keys move the player only when no script runs; loops end |
| Controls and keyboard | win_keyboard.cpp, g_controls.cpp, g_script.cpp | `keys[]`, key queue, key buffer, buttons, unpress flags | HandleKeyEvent, ParseKeyEvent, UpdateControls, Unpress, FlushKeyBuffer | typed keys are read in order; buttons fire once; an unpressed button stays so |
| Handles and images | a_handle.h, vid_ddbase.cpp, g_script.cpp, win_movie.cpp, g_vsp.cpp | free stack, slots, owners | LoadImage, FreeImage, windows, movies, tile sets, the screen | one owner for a handle; no handle lost |
| CHR cache | g_engine.cpp, g_entity.cpp | 256 cached character sets | RequestCHR, CleanupCHRs, AllocateEntity, set_chr | an entity wears the CHR it was given, no CHR twice, no false refusal |
| Frame and timer callbacks | g_startup.cpp, g_script.cpp, win_timer.cpp | `hooktimer`, callbacks | ShowPage, HookTimer, HookRetrace | every tick is handed to the callback once, and no countdown too many wraps the counter |
| Sprites | g_sprites.cpp, g_engine.cpp | `sprites`, `lastspritethink`, `event_sprite` | GetSprite, TimedProcessSprites, RenderSprites | a sprite has one turn for each tick and thinks at its rate, also in frames within frames |
| Maps and zones | g_map.cpp, g_map.h | layers, zones, obstruction | load, save, render, zone, CheckZone | triggers fire once for each new tile |
| Tile animation | g_vsp.cpp | `tileidx`, `flipped`, `vadelay` | UpdateAnimations, AnimateTile | pictures stay in the range of their animations, and come on time |
| CHR animation | g_chr.cpp | frame lists | ParseAnimation, GetFrame | a frame of the right direction |
| Sound | g_sound.cpp, snd_audiere.h, snd_fmod.cpp | samples, songs, channels | play, stop, stop callback of another thread | a channel is freed once, no deleted stream is reached, every sound is released |
| Movies | win_movie.cpp | movie handles | load, play, close | a handle is freed once |
| Network | win_network.cpp, g_script.cpp | sockets | SocketSend…, SocketGet… | packets arrive whole and in order, and a read ends |
| Script files | g_script.cpp, a_vfile.cpp, garlick.cpp | `vcfiles`, packs | FileOpen, FileClose, … | a handle names its own file |
| Video and fonts | vid_*.cpp, g_font.cpp, a_image.cpp | surfaces, clip, lucency | blitters | arithmetic on pixels |
| Lua binding, builtins | lua_main.cpp, vc_builtins.cpp, vc_library.cpp | Lua state, tables of functions | argument conversion | each call reaches the right ScriptEngine function |
| Helpers | a_common.cpp, a_config.cpp, a_codec.cpp, algebra3.cpp | none | strings, configuration, zlib, vectors | functions |
| Devices | win_joystick.cpp, win_mouse.cpp, win_system.cpp | device state | input, window messages | |
| Ports | mac_*.cpp, src/mac, psp, linux, iphone | | the same engine on other systems | |
| Third party | src/audiere, corona, dumb, flac-1.1.4, fmod, lua, zlib, sdl-1.3 | | | |
| Tools | src/tools, src/test | | map editor, test data | |

How they meet:

* `Engine_Start` runs `UpdateControls`, `TimedProcessEntities`, `Render` and
  `ShowPage` for ever; `PlayerMove`, and any script that draws a frame, run the
  same functions in loops of their own, inside one of them.
* Entities are global (`entity[]`, `entities`), are deleted with the map, and
  are pointed to by each other, by `myself`, by CHR caching (which decides what
  may be deleted by looking at every entity) and by sprites.
* Images, windows, movies, tile sets and the screen share one set of handles.
* The timer thread writes `systemtime`, `timer` and `hooktimer`; key events
  reach `keys[]` through a queue that `UpdateControls` empties.
* `ShowPage` calls the timer callback and the thinkprocs of sprites; both are
  scripts, and may call `ShowPage`.
* A sound that ends is told to the engine by audiere's event thread, which
  gives the sound's channel back while scripts ask for others.
* Two engines meet over a TCP connection, as streams of bytes that the Socket
  functions cut into packets.

What is hard to test here, and is listed line by line under `hazards`: scripts
that interrupt and re-enter the engine; pointers and waypoints that go stale
when a script moves, links or deletes what they name; calls in an order nobody
wrote (stalk, stalk, wander); caches and pools at their limits; loops that wait
for something scripts may prevent; off-by-one errors in code written once
for each of eight directions; counters and references that two threads change;
and connections that deliver a packet in pieces, or half of it.

## 2. The modules

| Module | Models | Checked by | Proved in |
|---|---|---|---|
| `EntityLinks` | the pointers of a convoy | `MCEntityConvoy` | `EntityLinks_proofs` |
| `EntityConvoy` (extends it) | where its members stand | `MCEntityConvoy` | `EntityLinks_proofs` |
| `Obstruction` | where entities may step | `MCObstruction` | `Obstruction_proofs` |
| `EngineLoop` | the call stack of the engine and its scripts | `MCEngineLoop` | `EngineLoop_proofs` |
| `Frame` | frames, the timer callback and the turns of sprites | `MCFrame` | `Frame_proofs` |
| `Input` | keys, buttons, the key buffer | `MCInput` | `Queues_proofs` |
| `HandlePool` | what a set of handles promises | by `ImageHandles` and `Channels` | |
| `ImageHandles` | the set of image handles and its five users | `MCPictures` | `ImageHandles_proofs` |
| `ChrCache` | the cache of character sets | `MCPictures` | `Pictures_proofs` |
| `TileAnimation` | the strands of animated tiles | `MCPictures` | `Pictures_proofs` |
| `PacketStream` | what a connection promises two scripts | by `Network` | |
| `Network` | sockets, reads, writes and packets | `MCNetwork` | `Queues_proofs` |
| `Channels` | sounds, their channels and three threads | `MCChannels` | `Channels_proofs` |

**EntityLinks.** `follow` and `follower` are functions from slots to a slot or
`NULL`. One action for each call that changes them. A recursion along a link
that does not end overflows the stack and ends the process; `stalk()` itself
walks both pointers in its last statement (183), so `running` turns FALSE in
the step that closes a cycle. `RestalkAllowed` says whether scripts link ends
that are in use: the code lets them, and then the two ends of a link stop
agreeing (section 6).

**EntityConvoy.** Adds position, waypoint and the remembered path to each
entity. `MoveTick` is the whole recursion of `move_tick` along a chain, in the
order of the code: the track is shifted before the follower looks at it.
`TailJoinsOnly` restricts scripts to the calls that keep a convoy in place
(link entities without followers, place only heads); what holds without that
restriction is stated separately. `PlayerControls` is the call of
ProcessControls in TimedProcessEntities (g_engine.cpp:711): it sets the
player's waypoint, also when the player stalks somebody, and no step follows.
`Players` bounds who a script makes the player. `LinksKept` says that a convoy
implements `LinksSpec`.

**Obstruction.** Entities cover rectangles of pixels. `Think` is one turn of
the loop in `Entity::think`: a ready entity decides (`Decisions`: keys,
wandering, move script), and whoever is not ready moves a pixel (`MoveTick`).
`MaxPlayerMove`, with its eight hand-written cases, is the operator `Ahead`
(which pixels are looked at) plus the search; `DistanceIsMax` compares it with
a definition that does not know the cases. Walls and zones belong to the state:
scripts change them by `SetObs` and `SetZone` at any time, also between the
search and the walk, and the code does not look again. Two histories, `raised`
and `rezoned`, hold the tiles that were made walls, or given a zone, since the
player, or each entity, last decided where to go. Left out: the scripts that
run on a collision, obstruction tiles that are solid in part (a tile is solid
or not), speeds and delays (any entity may think next), the letters of move
scripts (moves, turns and the end are kept), zone scripts, and placing,
spawning and linking entities, which are `EntityConvoy`'s.

**EngineLoop.** The state is the call stack: a frame is named after what it
does next, and a frame `hook` is a place where the code may run a script. This
makes every interleaving of the engine with nested scripts a path of the model.
Positions are reduced to "ticks left to the waypoint". A move script is the
letters left (`path`) and those it starts again with at the letter B
(`rewind`); the player may also be told to wander, and its speed may be set to
0, by scripts or by a move script's own letter S. Left out: speeds between and
beyond these (an entity has one turn in a tick or none; a negative speed makes
the code's `while (num_ticks)` count down from below nought), the letter W,
which only takes time, the placing of the player during a walk, by setxy or by
a leader it stalks, and `Entity::delay`.

**Input.** Key events in a queue, taken one at a time by `ParseKeyEvent`;
buttons with their unpress flags; `UpdateControls` as an explicit stack of
calls, since the script of a button may call it again. Arrow keys have codes
beyond the table of characters (99) and are read from whatever lies behind it;
a write behind the key buffer is the undefined behaviour found below. With
`ArrowTypes` FALSE what lies there is taken to be 0, so arrows type nothing;
with TRUE they may type. The position may be one past the buffer (section 6).
Left out: joystick and mouse, Alt-Tab and Alt-X, remapping of keys, and the
clearing of directions by ProcessControls; the four directions work as the
buttons do.

**Frame.** The call stack again, of one frame: `HookTimer`'s loop and its
countdown, the loop of `TimedProcessSprites` and the loop over the sprites
inside it, and above each of them the script it calls, which may draw a frame
of its own. `TimerTick` is the other thread. Where it meets the countdown or a
new hook, one of the two writes of `hooktimer` is lost (`HookCountedRacing`,
`CallHookTimerRacing`: a data race, of which these are the outcomes a build
produces); `raced` remembers that it happened. Sprites are added, freed and
reset by scripts, in the loop over them too, and scripts write a sprite's rate,
wait and timer at any time; `born` remembers the tick from which its timer
counts. Left out: what `RenderSprites` draws, `HookRetrace`, negative rates,
waits and timers, and the fast-forward of the tilde key. `TimerCalls` says
whether the callback itself draws frames or hooks another callback: both count
the counter below nought (section 6), so the run and the theorems take `{}`.

**ImageHandles / HandlePool.** Scripts, windows, movies, tile sets and the
screen all take and give back handles of one set. `HandlePool` is the abstract
promise: a set of handles in use, of which one is taken or given back. The
refinement `PoolKept` maps the free stack and the slots of the code to it.
`OwnImagesOnly` says that scripts free only images they made themselves;
without it the promise is false (a script can free the image of a window that
is open), so the run and the theorems assume it.

**ChrCache.** Requests, the clean-up of unused character sets in the middle of
a request, map changes. The limit of 256 is a constant.

**TileAnimation.** `LoadVSP`'s check, `UpdateAnimations`, `AnimateTiles` for one
strand after another, and `AnimateTile` with its four modes and any other,
which the loader accepts and which moves nothing. The clock moves
between the strands. `PictureAfter` says in closed form which picture a tile
shows after *n* moves of its strand, `Moves` how often a strand moves in *k*
ticks.

**Network / PacketStream.** Two scripts with a list of packets each, that send
the next, wait for the next, ask whether there is one, or close. A packet is
the writes the code makes for it, one after the other (a string: its length,
then its bytes), and each read asks for the bytes the code asks for, blocking or
not. Bytes travel one at a time through a buffer of `Space` at the sender and
`Window` at the receiver; a non-blocking write takes what there is room for and
the code does not look at the result; a reset loses what is on its way. A byte
the reader does not expect is a length of any value up to `MaxGarble`.
`PacketStream` knows only packets; the refinement `StreamKept` excepts an end
of which a write was cut, and a connection that was reset. A packet counts as
sent with its last byte (`Put`): one that ends with an empty field (an empty
string, an empty file) can be read before its sender has made the last, empty,
write; with the model's own count `sent` in its place TLC finds `StreamKept`
violated. A raw packet that is empty is none. `blockread` of no bytes (the
contents of an empty file) returns only when `recv` answers 0; with nothing
behind the field it may also answer that it would block, so such a read may
turn in vain until a byte arrives or the other end closes (`MayTurn`, of which
no fairness is assumed). Left out: making a connection, the files
`SocketGetFile` writes, the web functions, and two limits of strings and raw
packets: the string that is got ends at the first NUL among its characters
(g_script.cpp:1842, 1903), and more than 4095 of them end the program (1839,
1875, 1897). Packets are taken to respect both.

**Channels.** `PlaySample`, `PlayMusic`, `LoadSong`, `PlaySong`, `StopSong`,
`FreeSong`, `StopSound`, `SoundIsPlaying`, `StopMusic` and the stop callback,
split at every point where another thread can come in: the engine's lock, the
device's lock and the queue of events. A stream lives while it has references
(of the engine, of a script's call, of an event on its way), and its address
may be used again afterwards. The channels' handles are of the same class as
the images', and implement the same `HandlePool`. A script that asks for a
sound of which the stream is deleted between look-up and use
(snd_audiere.h:133) ends the process; the model stops there (`UseDeleted`).
Counting a reference is taken to be one step, which audiere does not guarantee.
The three locks are always taken in the order engine, device, events, so they
add no deadlock. Left out: volumes, file names, song handles, FMOD and the
Oakra player.

## 3. The runs

Twelve runs, each with one question. Nine expect to pass; `loop_ready`,
`input_position` and `frame_rate` expect a violation, which section 6 explains.
A type invariant is checked together with an invariant that needs it, under
the name of the module (`LoopInv` is `LoopTypeOK` and `ScriptsHoldControls`).

| Run | Instance | Question |
|---|---|---|
| `convoy_chain` | 3 entities, path of 1, 3 places, free ends only | do links agree, and does each member stand on its leader's track? |
| `convoy_any` | 3 entities, path of 2, 2 places, any link | do pointers stay valid, recursions finite, and does a move restore order? who leaves a stalker off its waypoint? is the convoy an implementation of the links? |
| `obs_walk` | 3 x 2 tiles of 2 pixels, 1 wall, the player and 2 others; a tile that becomes a wall, or changes its zone | are steps free, distances exact, wanderers at home? |
| `loop_nested` | 2 scripts deep, lag up to 1 tick (see the .cfg) | who has the controls, how far ahead do entities run, do PlayerMove and Map end? |
| `loop_ready` | the same, 1 script deep | a finding of section 6 |
| `frame_nested` | 2 ticks, 2 scripts deep, 2 sprites, rates and waits 0 and 1 | is each tick answered once, has each sprite its turns? |
| `frame_rate` | the same | a finding of section 6 |
| `input_nested` | buffer of 3, 2 events queued, 2 nested updates | is typing kept in order, do buttons fire once, do unpressed buttons stay so? |
| `input_position` | the same | a finding of section 6 |
| `pictures` | a set of handles that grows more than once, 2 windows, a movie; a cache of 2 for 3 names; 14 strands of every mode on 23 tiles, 11 ticks | is every handle owned once and none lost? does everybody wear what was asked, is refusal justified? are pictures on time and in their strands? |
| `net_stream` | 2 packets each way, buffers of 2 bytes, an empty file | do packets come whole, do reads end? |
| `channels` | 3 streams, handles added 2 at a time | is a channel one sound's, is every stream alive, is every sound released? |

The MC modules add bounds of their own, each a choice that a behaviour keeps:

* `MCPictures` (`part`): images, CHRs and tiles share no state and no property,
  so a behaviour moves one of the three and leaves the others as they start.
* `MCInput` (`using`): the player uses the two buttons and the letter that runs
  a script, or types with the two letters.
* `MCObstruction` (`changes`): all three entities move and the map stays; or a
  script raises and lowers a wall before the player, the wanderer of the zone
  runs no script and that of the box stands; or it moves a tile between zones,
  and the player stands.
* `MCFrame`: scripts write the rate, the wait and the timer of the first
  sprite, and only the rate of the other.
* `MCEngineLoop` (`OneReason`): a move has no end for one reason at a time, and
  a move script with a B has as many letters before it as the bound allows.

Why these bounds are enough for what they ask:

* *Three entities* are the fewest with a chain of two links, with two stalkers
  of one leader, and with a cycle through an entity that is not the last
  caller. One of them may be the player, the head or a stalker as links go. A
  path of two places is the first whose youngest and oldest place
  differ; three places are the first on which a jump differs from a step. The
  `any` run gives scripts the movement code 0 only (the other codes are in the
  `chain` run), because what the links allow does not depend on the code.
* *Six tiles of four pixels with entities of one tile* have places between
  tiles (an entity in the middle of a step, and one stopped there by a script),
  a free square for diagonal steps, a corner to slide along, and a dead end.
  Two wanderers and the player compete for five free tiles. The tile that may
  become a wall (`ObsTiles`) lies where the player goes first, the one that
  changes its zone (`ZoneTiles`) on the border of the two zones. The player's
  step of two pixels is the first that is searched further than it is walked at
  once. Entities are square: for others the search is wrong (section 6).
* *Scripts two deep* are the first in which a script interrupts a loop that a
  script started: that is where PlayerMove's own loop runs the script that
  starts another move, sets the speed to 0 or makes the player wander. Lag,
  path length and walking time are bounds on counters (`MaxLag`, `MaxPath`,
  `MaxWalk`).
* *A key buffer of three* is the first that two characters do not fill, so
  that their order counts; it wraps around after the third. The code's has 32.
  `MaxEvents` and `MaxUpdates` bound the queue and the nested updates.
* *Two ticks, two scripts deep* are the first frame inside a frame that has
  ticks of its own to answer, and a timer that ticks in each of them. Two
  sprites: one is freed or added while the other thinks.
* *Eleven ticks* take every strand of the `pictures` run through more than one
  cycle of its mode and delay. On tiles that strands share only the range of
  pictures is stated. Among the strands are a ping-pong strand that contains
  two others, one that another crosses, and one of a single tile; the last two
  leave their tiles (section 6).
* *Two packets each way* are the first of which the second may be read in place
  of the first; between them they have every kind, and one ends with an empty
  field. Lengths have one byte and
  ints two in place of two and four, and the buffers hold less than a packet, so
  that every packet takes several writes, arrivals and reads.
* *Three streams*: one that ends, one on its way to the event thread and one
  that is made anew at an address that was used. `MaxEvents` bounds only the
  stops of songs, of which scripts can cause any number.
* *Growth of the handle set* happens more than once, and the CHR cache
  overflows, in the run that is about them.

Deadlock is checked in the runs of `Input`. It is not checked where the modelled
program may really stop (`running` FALSE after a stack overflow, a NULL player
dereferenced by PlayerMove, a deleted stream, two scripts that have closed
their sockets) or where a bound on counters (`MaxTime`) ends it;
in `obs_walk` and `pictures` some script may always act, so that the test would
say nothing.

### Fairness

Three modules have liveness properties. `LoopFairness` assumes that the
engine's thread goes on and that the timer ticks (weak fairness); that a script
that gets control again and again returns at last; and that the machine is not
for ever slower than the clock, so that a loop that catches up with the clock
again and again ends at last before the next tick (strong fairness of
`ScriptReturns` and `LoopExit`, for each depth of scripts). A machine that
takes longer than a tick for every turn does not satisfy this, and the code
has no guard against it. Nothing is assumed of what scripts do. So the two
properties say what may still prevent the end: `PlayerMoveEnds` excepts a
script that left the map, paused the entities, took the player away, or starts
the player's script anew for ever, and a player whose move has no end
(`Endless`): its script has the letter B (g_entity.cpp:515 sets `moveofs` to 0),
a script that its loop runs made it wander (g_script.cpp:774-781; its movement
code is never 0 again by itself), or its speed is 0 and it has no turns
(g_entity.cpp:277). Without any one of the three TLC finds a PlayerMove that
does not return. `MapIsLeft` excepts a `PlayerMove` under
way, whose loop waits for a player that does not move any more.

`NetworkFairness` (weak) assumes that bytes that are on their way arrive unless
the connection is reset, and that a read or a write that has begun goes on; not
that scripts send, get or close. `GetsEnd` holds of a read whose packet was
sent or whose other end has closed, with no reset and no cut write, unless it
is the read of an empty file's contents and nothing is behind them.

`ChannelsFairness` (weak) assumes that the game's thread comes out of the
engine's functions, that audiere's event thread runs, and that a sound ends.
`SoundsReleased` needs all three, and nothing of what scripts do.

## 4. What the properties say

*Links.* `NoDanglingLink`, `RecursionTerminates`, `StalkExcludesOwnMotion` hold
for any calls; `LinksAgree` for scripts that link free ends. *Convoy.*
`ConvoyInv` (each member stands on its leader's track, and the track has no
gap) and `NoJump` for convoys joined at the tail; `StalkersKeptAtWaypoint`
always (a stalker's move or placement takes its waypoint along; only the
controls of a player that stalks set one, and its next drag mends that);
`MoveRestoresOrder` whenever the ends of the links agree (a stalker whose
leader no longer drags it is out of order for ever); `LinksKept`, the
refinement. *Obstruction.* `ObsInv` (the distance found by the eight cases is
the greatest that is free); `KeysKeepOffWalls` (the player's path is not looked
at again while it is walked: the keys carry it onto no wall but one that a
script raised after the search); `StepsAreFree` (nobody else steps onto a wall
or anybody: `move_tick` looks to the side the entity *faces*, which is the side
it walks to because activation turns only entities that are ready);
`WanderersStayHome` (but for a tile that was given another zone since the
wanderer chose its way). That the player never overlaps others is false of the
code, and listed as a hazard. *Engine loop.* `LoopInv` (the controls stay with
the innermost script), `AheadByNestingOnly`, `PlayerMoveEnds`, `MapIsLeft`.
*Frame.* `FrameInv` (no countdown too many), `HookExact` (a call for each tick
since the callback was hooked, unless the two threads met), `SpriteTurns` (a
turn for each tick a sprite has an image and does not wait, whatever frames are
drawn inside the loop and whatever scripts write), `SpritesAheadByNesting` (by
how much such frames put sprites ahead of the clock). *Input.* `InputInv` (the
buffer holds what was typed, in order, as long as that is shorter than the
buffer), `FiredByNestingOnly`, `UnpressHolds`, `RepeatsHeldKey`. *Images.*
`FreeListSound`, `KeepsImage`, `NothingLost`, and the refinement `PoolKept`.
*CHRs.* `WearsWhatWasAsked`, `CacheExact`, `RefusedOnlyWhenFull`. *Tiles.*
`TileInv` (pictures stay in the strands of their tile, but for the tiles of
ping-pong strands that section 6 names), `TilesOnTime` (the picture is the one
the strand's mode and delay give for the ticks since loading). *Network.*
`NetworkInv` (the bytes between the ends are those that were sent, in order; no
script is ended by an error it did not meet), `StreamKept`, `GetsEnd`.
*Channels.* `ChannelsInv` (nothing leads to a deleted stream, no handle is
lost), `ChannelsKept`, the refinement, `SoundsReleased`.

Every property is rejected by a mutant of a mapped definition, written beside
it and marked `Mutant`: each states a bug that code could have (a walk along
one pointer only, a shift in the wrong order, a missing test for ready, a row
that is not moved sideways, a lock that is not taken, a read that leaves its
bytes in the socket).

## 5. What is proved

For every value of the constants that satisfies the assumptions named in the
modules (`LinksAssumption`, `ConvoyAssumption`, …):

* `EntityLinks_proofs`: `LinksSafe` (no pointer dangles) by `LinksInv`, which
  adds to the type that unused slots are empty and not named;
  `RecursionEnds` by `WalksInv`, that while the process runs both pointers end
  from every slot; the step is two lemmas on `Diverges`: redirecting one link
  creates an endless walk only through its start (`RedirectedWalk`), cutting
  one creates none (`CutWalk`); `StalkersDoNotWander`; and, for scripts that
  link free ends, `SingleLinksAgree` and `SingleLinksNotDragged`. Of convoys,
  `ConvoysKeepLinks`: each step of `EntityConvoy` is a step of `EntityLinks` or
  leaves the links alone, so that `ConvoysSafe` follows from the theorems above
  without another invariant.
  Where the members stand: `move_tick` is a recursion along the chain, so its
  values are shown to exist for every length (`Recursion`) and described by
  induction (`Induction`, from the well-foundedness of the naturals): a move is
  a march, in which each member writes its track once and its follower reads
  it after that (`MoveTickMarches`, `MarchRests`, `MarchInOrder`). From this
  `MovesRestoreOrder` and `StalkersStandStill` (the property
  `StalkersKeptAtWaypoint`), whatever scripts do; and when
  scripts link free ends at the tail (`~ RestalkAllowed /\ TailJoinsOnly`)
  `ConvoysInLine` and `NobodyJumps`, since a track whose places are a pixel
  apart stays so when it is shifted.
* `Obstruction_proofs`: the first three are about what an entity has ahead of
  it, and the invariant says that this is a straight way to its waypoint.
  `WalkersDoNotCollide`: everybody but the player faces along its way, so
  `move_tick` looks where it goes (for move scripts that move the way they
  face, and scripts that turn no walker: `Straight`, `TurnsWalking`).
  `KeysAvoidWalls`: what is left of the player's way was searched, so each wall
  on it is one in `raised`, whatever scripts do to the map (for a hot area no
  wider than high, section 6).
  `WanderersKeepHome`: what is left of a wanderer's way ends on the next tile
  and never turns back; that tile has the zone of the first, or is in
  `rezoned`. These two assume that scripts make the player
  neither wander nor walk a box (`Codes`); a move script may still walk it.
  `SearchIsExact`: for a square player the eight cases of MaxPlayerMove find
  the whole free distance (`DistanceIsMax`), by the pixels that one more step
  uncovers in each direction.
  `EntitiesStayOnMap`: a place is on the map when its corners are, and what a
  search or a wanderer's look finds free ends at the edge (`Fenced`: who
  chooses its own way is obstructable, and a tile is no larger than an entity,
  for a wanderer looks as far as it is large and goes a tile). Both together
  are `MapIsSafe`, the run's `ObsInv`.
* `ImageHandles_proofs`: the type and structure of the handle set, that each
  handle in use has one owner, and that the set implements `HandlePool`, under
  `OwnImagesOnly`. The inductive invariant says that the free stack and the
  handles in use are disjoint and the stack has no handle twice; without the
  latter one handle could be handed out twice two steps later. And
  `NoHandleLost`: each handle numbered so far is held or free, from the same
  invariant.
* `Pictures_proofs`, of characters: every entity wears the character set that
  was asked for and the cache holds exactly the sets in use while a map runs,
  by an invariant that relates entities, slots and the names of slots.
  `GivesUpWhenFull`: when a CHR is refused every slot is active, so it is worn,
  and no two slots by the same file; the files worn are as many as the slots.
  Of tiles: `PicturesInStrand` and `PicturesInSet`: what the loader checked
  holds whenever a tile is drawn. A picture stays between the start of one
  strand of its tile and the finish of another, in each mode, and for tiles
  that several strands share. Excepted (`Tame`) are the tiles of a ping-pong
  strand of one tile, and those a ping-pong strand shares with one it does not
  contain: there it is false of the code (section 6). `PicturesOnTime`, for a
  tile that one strand moves, in any mode but random (and not a ping-pong
  strand of one tile): the invariant relates the counter of each strand to its
  ticks by division (`CounterAt`), the picture to the moves made by remainder,
  and for ping-pong also the flag to the half of the turn it is in (`FlipAt`);
  a turn of AnimateTiles is a tick for its strand and for no other
  (`TurnIsTick`).
* `EngineLoop_proofs`: the keys never move the player while a script runs
  (`ScriptsHoldThePlayer`), for scripts nested to any depth. ProcessControls
  tests `invc` once, when it begins; so the invariant is about the stack:
  `invc` is the number of scripts on it (`ScriptsAreCounted`), and no script is
  below a ProcessControls that has begun. The scripts it runs itself are above
  it and have returned when it goes on. `EntitiesKeepTheClock`: a loop is the
  bottom of the stack or stands right above the script or the PlayerMove that
  started it, so there is one more loop than scripts at most; and the clock
  may be overtaken by a tick for each loop that has seen it late and not yet
  counted.
* `Frame_proofs`: `HookNeverWraps` and `HookAnswersEachTick`, for a callback
  that neither draws nor hooks (`TimerCalls = {}`) and any clock, number of
  sprites and depth of frames. The counter alone is not inductive: a second
  countdown further down the stack could take it below nought. The invariant
  adds that a countdown is the top of the stack, or right below a callback on
  top; so there is one at most, and no other script can reset the counter
  while it is due. For the sprites (under the same assumption, though only the
  types need it), `SpritesHaveTheirTurns`: the turns a sprite has had are the
  sprites' clock and the loops on the stack that are past it, counted from the
  tick in `born`; a step moves a
  loop past one sprite, or trades a loop for a tick. `SpritesKeepTheClock`:
  each loop but one stands right above a script of its own, and fewer than
  `MaxNest` scripts run inside each other when one draws a frame.
* `Channels_proofs`: `StreamsStayAlive` and `ChannelsArePooled`, for any number
  of streams, handles and events and every order of the three threads. The
  invariant counts: a stream has a reference for each of its stop events on
  their way, and one more while it is owned, by exactly one of a channel, the
  game's thread that makes or frees it, the list of songs, the music, or the
  event thread between the map of channels and its unref. With a free stack
  without repetitions this gives the types, that no deleted stream is reached,
  that no handle is lost, and that each step is one of the pool.

* `Queues_proofs`, of the keyboard, for buffers of any size, any keys and any
  number of events. `ParseKeyEvent` takes all the events that wait in one step,
  by a recursion along the queue; its values are shown to exist, and what holds
  before one event to hold after it (`Sound`), so it holds after all of them:
  what was typed since the buffer was last empty stands in it from its start up
  to the position, and the key that repeats is held or is an arrow, which gets
  its key only after the last event. From this `TypedIsGot` (GetKeyBuffer reads
  from the position round to it, by remainder) and `HeldKeyRepeats`.
  `UnpressedStaysUnpressed`: an unpressed button is held and marked
  (`Forgiven`), so ReadButtons leaves it out. `HeldButtonFiresFewTimes`, which
  is not inductive as it stands: the runs a held button's script has had, and
  the calls of `UpdateControls` under way that still owe it one because it was
  up when they began, are together no more than the calls that may nest
  (`Accounted`).
* `Queues_proofs`, of connections, for any packets, widths of numbers, buffers
  and lengths that stray bytes are read as. The invariant `InOrder` numbers the
  bytes of an end from its first packet to its last: what the other has read of
  the packet it waits for, what waits in its buffer and what is on its way, one
  after the other, are the bytes from the end of the packets it was given
  (`PacketEnd`) to what is written (`Written`). So a reader finds each field
  where the writer put it, as long as it was sent (`RightWidth`), finds the tag
  it expects (`RightTag`), and gives the script the packet it waited for
  (`RightPacket`). A script may be given more packets than were sent, because a
  blocking read of a closed connection returns nothing; then nothing is left to
  read and nothing will come (`Over`), and it reads the first field of a packet,
  or what follows a tag that never came (`Waits`). The types come first
  (`TypesOK`): a script in the middle of a packet is in a field of it, and lacks
  no more than that field has, or than a length that was read says.
  `BytesInOrder` follows. `PacketsInOrder` is the refinement of `PacketStream`,
  step by step: the last byte of a packet is its sending, the end of a Get
  function its receipt; a cut, a reset and a close are what they are, and no
  other step is seen.

Only model-checked is liveness (`PlayerMoveEnds`, `MapIsLeft`, `GetsEnd`,
`SoundsReleased`): fairness and ENABLED are out of the prover's reach.

## 6. Findings

* `loop_ready`: ProcessControls tests the player before it runs the scripts of
  collisions and of a move's end, and goes on with it afterwards, though the
  script may have moved or removed the player (g_engine.cpp:329, 335).
* `input_position`: the position in the key buffer is compared with its size
  only after it was used, and by `>` (win_keyboard.cpp:228-229). It takes the
  value KEY_BUFFER_SIZE, which the comment at win_keyboard.cpp:27 excludes, and
  the 33rd character typed without a flush is written behind the array.
* `frame_rate`: a sprite thinks when `thinkctr > thinkrate` (g_engine.cpp:745),
  so with the rate 0 each tick and with 1 every other tick; changelog.txt:504
  says "A rate of 1 is every tick, 0 is no thought".

Other disagreements met while modelling, which no run shows. Where the model
has the code's behaviour, the constant that makes it visible is named:

* A stalker that a script redirects stays the follower of its first leader,
  and is dragged by it even after it starts to wander; the comment at
  g_entity.cpp:186 promises that one does not stalk at the same time
  (`EntityLinks` with `RestalkAllowed` TRUE violates `LinksAgree`).
* The south-east case of MaxPlayerMove (g_engine.cpp:280) looks at a row of
  `hoth` pixels instead of `hotw`; a player that is wider than high is let into
  walls, one that is higher than wide is stopped by nothing (`Obstruction` with
  `HotW` and `HotH` different).
* RequestCHR looks for a slot while the entity still wears its old CHR
  (g_engine.cpp:78), so it ends the program although no more than 256 CHRs
  would be present, which changelog.txt:793 allows.
* A timer callback that draws a frame is called again for the tick it is
  answering, and both calls count it down; one that hooks another callback sets
  the counter to 0 and then counts it down. The counter wraps
  (g_script.cpp:595; `Frame` with `TimerCalls` not empty violates `FrameInv`).
* `event.sprite` keeps naming the sprite that thought last, also for a script
  that goes on after it drew a frame; changelog.txt:480 says "currently
  thinking".
* A ping-pong strand turns only exactly at its ends (g_vsp.cpp:219-238). One of
  a single tile walks away from it, one picture a step; and where another
  strand takes the picture past an end (ping-pong on [2, 4] and backward on
  [0, 2], on tile 2), it walks on, below 0 or beyond the tile set.
* PlayerMove does not return when the player's move has no end: its script has
  the letter B (g_entity.cpp:515), or a script that runs meanwhile makes the
  player wander or sets its speed to 0 (`Endless` in `EngineLoop`).
* A script that asks for a sound, or stops it, looks its stream up and then
  uses it without the lock, and the sound may end in between
  (snd_audiere.h:133).
* A non-blocking write may send a part of a packet and nobody looks at the
  result (win_network.cpp:162); a read that finds the connection reset turns
  for ever (win_network.cpp:205), and one of no bytes, for the contents of an
  empty file (g_script.cpp:1791), may turn until more comes; a non-blocking
  read leaves the socket in the mode it set.
* A movie that is closed by hand frees its handle again in the destructor
  (win_movie.cpp:461).

## 7. What is not modelled, and the plan

Pixels and sound samples, file formats, drawing, the Lua binding, devices, the
ports and the vendored libraries stay out: they have no control state of the
engine. Of sound, FMOD and the Oakra player are not modelled; they play the
same part with other libraries. Of what remains, this comes next:

1. **Maps and triggers** (composes `Obstruction` and `EngineLoop`): collision
   scripts in the middle of a search, `px`/`py` overwritten by nested loops,
   a zone trigger for each new tile.
2. **CHR animation**: the frame lists as operators against a reference
   definition.
3. **Movies** on `HandlePool`, with the double free of section 6.
4. **Script files**: the table of 20 handles.
5. **Proofs** of what these add; of what is modelled now, only liveness is
   left to TLC.

The runs stay at twelve and the modules of proofs at eight: a new part joins
the run whose question it sharpens, or takes the place of a run whose property
a theorem covers.

Hazards met while reading that are not in `PROJECT.json`, because no module is
near them yet: `set_chr` keeps the hot area of the old CHR (g_entity.cpp:544);
`__grue_actor_index` and `px`/`py` are globals that nested calls overwrite
(g_engine.cpp:233, 707); a full key buffer has no closing 0
(win_keyboard.cpp:249); only the last key of a batch runs its bound script
(211); the kill switch set by a button's script does not stop the buttons after
it (g_controls.cpp:47); wanderers stopped off the tile grid may block each
other for ever; activation looks one pixel further to the south and east than
to the north and west (g_engine.cpp:541); `autoface` is not initialised for
spawned entities; GetSprite returns a slot again until it has an image
(g_sprites.cpp:45), a sprite keeps the number of an entity of a
map that was left (71); a zone number is not compared with the
number of zones (685); an animation without frames divides by zero
(g_chr.cpp:183); FileClose lets handle VCFILES pass (g_script.cpp:1309).
