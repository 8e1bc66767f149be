------------------------------ MODULE Channels ------------------------------
(***************************************************************************)
(* Sounds, songs and music played through audiere (snd_audiere.h, and      *)
(* device.cpp and device_mixer.cpp of audiere).  Three threads:            *)
(*   the game's, whose scripts play, stop and ask for sounds;              *)
(*   the mixer's, which comes to the end of a sound;                       *)
(*   audiere's event thread, which tells the engine of streams that have   *)
(*   stopped, so that it gives their channel back.                         *)
(* The engine's lock guards the handle set of the channels; the device's   *)
(* makes play, stop, isPlaying and the mixer's reads single steps.  A      *)
(* stream is named by its address, which another stream may have later.    *)
(* Counting a reference is taken to be one step, though audiere counts     *)
(* without a lock.                                                         *)
(***************************************************************************)
EXTENDS Integers, Sequences, FiniteSets, SequencesExt

CONSTANTS
  Streams,     \* addresses of streams
  Chunk,       \* handles added when none is free (16 in the code)
  MaxHandles,  \* bound on the handles of the set
  MaxEvents    \* bound on the stops of songs not yet seen by the event thread

ASSUME ChannelsAssumption ==
  /\ Chunk \in Nat \ {0} /\ MaxHandles \in Nat \ {0} /\ MaxEvents \in Nat
  /\ "none" \notin Streams

VARIABLES
  handles,      \* the stack of free handles, its top last
  handleCount,  \* how many handles there are
  handleVals,   \* the stream of each handle
  channels,     \* the handle of each sound effect, 0 for other streams
  refs,         \* references to each stream; a stream without any is deleted
  playing,      \* streams that play
  songs,        \* songs the script has loaded
  music,        \* the stream of the engine's music
  events,       \* streams of the stop events the event thread has to see
  batch,        \* those of the events it has taken
  lock,         \* who holds the engine's lock
  main,         \* where the game's thread is: at, os, h
  thr           \* where the event thread is

setVars     == <<handles, handleCount, handleVals>>
streamVars  == <<refs, playing, events>>
channelVars == <<setVars, channels, streamVars, songs, music, batch, lock, main, thr>>

NULL   == "none"
Script == [at |-> "script", os |-> NULL, h |-> 0]
Live   == {os \in Streams : refs[os] > 0}

(* The constructor sets handle 0 aside.                                    *)
ChannelsInit ==
  /\ handles = <<>> /\ handleCount = 1
  /\ handleVals = [h \in 0 .. MaxHandles - 1 |-> NULL]
  /\ channels = [os \in Streams |-> 0]
  /\ refs = [os \in Streams |-> 0]
  /\ playing = {} /\ songs = {} /\ music = NULL
  /\ events = <<>> /\ batch = <<>>
  /\ lock = "free" /\ main = Script /\ thr = "wait"

-----------------------------------------------------------------------------
(* Streams.                                                                *)

NewStream(os) == os \notin Live /\ refs' = [refs EXCEPT ![os] = 1]

(* unref: with its last reference a stream goes, and the device forgets it.*)
Unref(os) ==
  /\ refs' = [refs EXCEPT ![os] = @ - 1]
  /\ playing' = IF refs[os] = 1 THEN playing \ {os} ELSE playing

(* Mutant: the event keeps a bare pointer.                                 *)
FireStopEventBare(os) == events' = Append(events, os) /\ UNCHANGED refs

(* The event holds a reference to its stream.                              *)
FireStopEvent(os) ==
  /\ events' = Append(events, os)
  /\ refs' = [refs EXCEPT ![os] = @ + 1]

StopStream(os) ==
  IF os \in playing THEN FireStopEvent(os) /\ playing' = playing \ {os}
  ELSE UNCHANGED streamVars

(* The mixer has read a sound to its end.  Songs and music are repeated.   *)
StreamEnds(os) ==
  /\ os \in playing \ (songs \cup {music})
  /\ StopStream(os)
  /\ UNCHANGED <<setVars, channels, songs, music, batch, lock, main, thr>>

-----------------------------------------------------------------------------
(* The game's thread: sounds.                                              *)

PlaySample(os) ==
  /\ main.at = "script" /\ NewStream(os)
  /\ main' = [at |-> "register", os |-> os, h |-> 0]
  /\ UNCHANGED <<setVars, channels, playing, events, songs, music, batch, lock, thr>>

FreeStack == IF handles = <<>>
             THEN [i \in 1 .. Chunk |-> handleCount + i - 1] ELSE handles
GrownCount == IF handles = <<>> THEN handleCount + Chunk ELSE handleCount

(* registerChannel takes the lock and alloc looks at the top of the stack, *)
RegisterChannel ==
  /\ main.at = "register" /\ lock = "free"
  /\ GrownCount <= MaxHandles
  /\ lock' = "main"
  /\ handles' = FreeStack /\ handleCount' = GrownCount
  /\ main' = [main EXCEPT !.at = "alloc", !.h = FreeStack[Len(FreeStack)]]
  /\ UNCHANGED <<handleVals, channels, streamVars, songs, music, batch, thr>>

(* and pops it; the lock is given back.                                    *)
StoreHandle ==
  /\ main.at = "alloc"
  /\ handles' = Front(handles)
  /\ handleVals' = [handleVals EXCEPT ![main.h] = main.os]
  /\ channels' = [channels EXCEPT ![main.os] = main.h]
  /\ lock' = "free"
  /\ main' = [main EXCEPT !.at = "play"]
  /\ UNCHANGED <<handleCount, streamVars, songs, music, batch, thr>>

StartSample ==
  /\ main.at = "play"
  /\ playing' = playing \cup {main.os}
  /\ main' = Script
  /\ UNCHANGED <<setVars, channels, refs, events, songs, music, batch, lock, thr>>

(* StopSound and SoundIsPlaying take any number and go on if there is a    *)
(* stream behind it, without the lock.                                     *)
GetPointer(call, h) ==
  /\ main.at = "script" /\ h < handleCount /\ handleVals[h] # NULL
  /\ main' = [at |-> call, os |-> handleVals[h], h |-> h]
  /\ UNCHANGED <<setVars, channels, streamVars, songs, music, batch, lock, thr>>

(* The stream may have been deleted since.                                 *)
UseDeleted ==
  /\ main.at \in {"stop", "ask"} /\ main.os \notin Live
  /\ main' = [main EXCEPT !.at = "crashed"]
  /\ UNCHANGED <<setVars, channels, streamVars, songs, music, batch, lock, thr>>

StopSound ==
  /\ main.at = "stop" /\ main.os \in Live
  /\ StopStream(main.os)
  /\ main' = Script
  /\ UNCHANGED <<setVars, channels, songs, music, batch, lock, thr>>

SoundIsPlaying ==
  /\ main.at = "ask" /\ main.os \in Live
  /\ main' = Script
  /\ UNCHANGED <<setVars, channels, streamVars, songs, music, batch, lock, thr>>

-----------------------------------------------------------------------------
(* The game's thread: songs and music, which have no channel.  A script    *)
(* plays, stops and frees songs it has not freed.                          *)

NoMusic == IF music = NULL THEN refs ELSE [refs EXCEPT ![music] = 0]

StopMusic ==
  /\ main.at = "script" /\ music # NULL
  /\ Unref(music) /\ music' = NULL
  /\ UNCHANGED <<setVars, channels, events, songs, batch, lock, main, thr>>

(* The new music may be at the address of the old.                         *)
PlayMusic(os) ==
  /\ main.at = "script" /\ NoMusic[os] = 0
  /\ refs' = [NoMusic EXCEPT ![os] = 1]
  /\ playing' = (playing \ {music}) \cup {os}
  /\ music' = os
  /\ UNCHANGED <<setVars, channels, events, songs, batch, lock, main, thr>>

(* LoadSong stops the music too.                                           *)
LoadSong(os) ==
  /\ main.at = "script" /\ NoMusic[os] = 0
  /\ refs' = [NoMusic EXCEPT ![os] = 1]
  /\ playing' = playing \ {music}
  /\ music' = NULL /\ songs' = songs \cup {os}
  /\ UNCHANGED <<setVars, channels, events, batch, lock, main, thr>>

PlaySong(os) ==
  /\ main.at = "script" /\ os \in songs
  /\ playing' = playing \cup {os}
  /\ UNCHANGED <<setVars, channels, refs, events, songs, music, batch, lock, main, thr>>

StopSong(os) ==
  /\ main.at = "script" /\ os \in songs /\ Len(events) < MaxEvents
  /\ StopStream(os)
  /\ UNCHANGED <<setVars, channels, songs, music, batch, lock, main, thr>>

(* FreeSong is StopSong and then unref.                                    *)
FreeSong(os) ==
  /\ main.at = "script" /\ os \in songs /\ Len(events) < MaxEvents
  /\ StopStream(os)
  /\ main' = [at |-> "free", os |-> os, h |-> 0]
  /\ songs' = songs \ {os}
  /\ UNCHANGED <<setVars, channels, music, batch, lock, thr>>

UnrefSong ==
  /\ main.at = "free"
  /\ Unref(main.os)
  /\ main' = Script
  /\ UNCHANGED <<setVars, channels, events, songs, music, batch, lock, thr>>

-----------------------------------------------------------------------------
(* The event thread.                                                       *)

TakeEvents ==
  /\ thr = "wait" /\ batch = <<>> /\ events # <<>>
  /\ batch' = events /\ events' = <<>>
  /\ UNCHANGED <<setVars, channels, refs, playing, songs, music, lock, main, thr>>

Stopped == Head(batch)

(* Mutant: the channel is given back without the lock.                     *)
UnregisterUnlocked ==
  /\ thr = "wait" /\ batch # <<>>
  /\ IF channels[Stopped] = 0 THEN thr' = "drop" /\ UNCHANGED handleVals
     ELSE thr' = "push" /\ handleVals' = [handleVals EXCEPT ![channels[Stopped]] = NULL]
  /\ UNCHANGED <<handles, handleCount, channels, streamVars, songs, music, batch, lock, main>>

(* unregisterChannel: nothing to do for a stream without a channel; else   *)
(* free clears the handle,                                                 *)
UnregisterChannel ==
  /\ thr = "wait" /\ batch # <<>> /\ lock = "free"
  /\ IF channels[Stopped] = 0 THEN thr' = "drop" /\ UNCHANGED <<handleVals, lock>>
     ELSE /\ lock' = "events" /\ thr' = "push"
          /\ handleVals' = [handleVals EXCEPT ![channels[Stopped]] = NULL]
  /\ UNCHANGED <<handles, handleCount, channels, streamVars, songs, music, batch, main>>

(* pushes it, and the map forgets the stream;                              *)
PushHandle ==
  /\ thr = "push"
  /\ handles' = Append(handles, channels[Stopped])
  /\ channels' = [channels EXCEPT ![Stopped] = 0]
  /\ thr' = "unref"
  /\ UNCHANGED <<handleCount, handleVals, streamVars, songs, music, batch, lock, main>>

(* Mutant: the engine's reference is kept.                                 *)
UnrefSoundForgotten ==
  /\ thr = "unref"
  /\ lock' = "free" /\ thr' = "drop"
  /\ UNCHANGED <<setVars, channels, refs, playing, events, songs, music, batch, main>>

(* the engine gives its reference back, then the lock.                     *)
UnrefSound ==
  /\ thr = "unref"
  /\ Unref(Stopped)
  /\ lock' = "free" /\ thr' = "drop"
  /\ UNCHANGED <<setVars, channels, events, songs, music, batch, main>>

(* The event goes, and gives back its own.                                 *)
DropEvent ==
  /\ thr = "drop"
  /\ Unref(Stopped)
  /\ batch' = Tail(batch) /\ thr' = "wait"
  /\ UNCHANGED <<setVars, channels, events, songs, music, lock, main>>

-----------------------------------------------------------------------------

MainStep  == RegisterChannel \/ StoreHandle \/ StartSample \/ StopSound \/ SoundIsPlaying
               \/ UseDeleted \/ UnrefSong
EventStep == TakeEvents \/ UnregisterChannel \/ PushHandle \/ UnrefSound \/ DropEvent

ChannelsNext ==
  \/ \E os \in Streams : \/ StreamEnds(os) \/ PlaySample(os) \/ PlayMusic(os) \/ LoadSong(os)
                         \/ PlaySong(os) \/ StopSong(os) \/ FreeSong(os)
  \/ \E h \in 0 .. MaxHandles - 1 : GetPointer("stop", h) \/ GetPointer("ask", h)
  \/ StopMusic
  \/ MainStep
  \/ EventStep

ChannelsSpec == ChannelsInit /\ [][ChannelsNext]_channelVars

(* The three threads run, and a sound has an end.                          *)
ChannelsFairness ==
  /\ WF_channelVars(MainStep) /\ WF_channelVars(EventStep)
  /\ \A os \in Streams : WF_channelVars(StreamEnds(os))

FairChannelsSpec == ChannelsSpec /\ ChannelsFairness

-----------------------------------------------------------------------------
(* Properties.                                                             *)

ChannelsTypeOK ==
  /\ handles \in Seq(1 .. MaxHandles - 1) /\ handleCount \in 1 .. MaxHandles
  /\ handleVals \in [0 .. MaxHandles - 1 -> Streams \cup {NULL}]
  /\ channels \in [Streams -> 0 .. MaxHandles - 1]
  /\ refs \in [Streams -> Nat]
  /\ playing \subseteq Streams /\ songs \subseteq Streams
  /\ music \in Streams \cup {NULL}
  /\ events \in Seq(Streams) /\ batch \in Seq(Streams)
  /\ lock \in {"free", "main", "events"}
  /\ main \in [at : {"script", "register", "alloc", "play", "stop", "ask", "free", "crashed"},
               os : Streams \cup {NULL}, h : 0 .. MaxHandles - 1]
  /\ thr \in {"wait", "push", "unref", "drop"}

(* No thread but one that looked a channel up and lost the time to use it  *)
(* finds a stream that was deleted: those behind a channel's handle, those *)
(* that play and those of events on their way are all there.               *)
NoDeletedStream ==
  /\ \A h \in 0 .. MaxHandles - 1 : handleVals[h] \in Live \cup {NULL}
  /\ playing \cup songs \subseteq Live
  /\ ToSet(events) \cup ToSet(batch) \subseteq Live

(* A sound's channel leads to it until its stop was seen, and no handle is *)
(* lost between the thread that gives them out and the one that takes them *)
(* back: each is free, a sound's, or set aside.                            *)
HandlesKept ==
  /\ \A os \in Streams : channels[os] # 0 /\ thr # "push" => handleVals[channels[os]] = os
  /\ 0 .. handleCount - 1 = {0} \cup ToSet(handles) \cup {channels[os] : os \in Streams}

(* Nothing leads to a deleted stream and no handle is lost.                *)
ChannelsInv == ChannelsTypeOK /\ NoDeletedStream /\ HandlesKept

(* The handles of each stream, for HandlePool.                             *)
ChannelOf == [os \in Streams |-> {channels[os]} \ {0}]
Pool == INSTANCE HandlePool WITH
  Handles <- 0 .. MaxHandles - 1, Reserved <- {0}, Users <- Streams, owned <- ChannelOf
(* A channel is one sound's at a time, though one thread gives channels    *)
(* out and another takes them back (HandlePool).                           *)
ChannelsKept == Pool!PoolSpec

(* Every sound that was played is deleted in the end, by itself or when it *)
(* was stopped, whatever else is played, unless the program has crashed.   *)
SoundsReleased ==
  \A os \in Streams : (channels[os] # 0) ~> (os \notin Live \/ main.at = "crashed")

=============================================================================
