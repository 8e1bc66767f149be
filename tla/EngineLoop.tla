----------------------------- MODULE EngineLoop -----------------------------
(***************************************************************************)
(* The loop of Engine_Start and the loops scripts start inside it          *)
(* (g_engine.cpp, g_script.cpp, g_startup.cpp).  The engine has one        *)
(* thread; what makes it hard is that it calls scripts in the middle of    *)
(* its own functions and that scripts call those functions again.          *)
(*                                                                         *)
(* stack is the call stack, its top last.  A frame is named by what it     *)
(* will do next:                                                           *)
(*   main    test of while (!done) in Engine_Start                         *)
(*   frame   Render and ShowPage of that loop                              *)
(*   tpe     entry of TimedProcessEntities                                 *)
(*   while   its loop: lastentitythink < systemtime                        *)
(*   think   ProcessEntities, what it does to the player's entity          *)
(*   ctl     if (!invc) ProcessControls()                                  *)
(*   check   ProcessControls after UpdateControls: is the player ready?    *)
(*   move    ProcessControls: which keys are down?                         *)
(*   walk    set_waypoint_relative on the player                           *)
(*   step    the test for a new tile, with its triggers                    *)
(*   inc     lastentitythink++                                             *)
(*   hook    a place where a script may run                                *)
(*   script  a script that runs                                            *)
(*   pm      the loop of PlayerMove                                        *)
(* One script stands for those the code runs one after another at a place. *)
(***************************************************************************)
EXTENDS Integers, Sequences, FiniteSets

CONSTANTS
  Calls,     \* what scripts do: a subset of AllCalls
  MaxNest,   \* bound on the scripts that run inside each other
  MaxLag,    \* bound on the ticks the entities are behind the clock
  MaxPath,   \* bound on the letters of a move script
  MaxWalk    \* bound on the ticks one step of an entity takes

AllCalls == {"Render", "PlayerMove", "EntityMove", "EntityStop", "EntityWander",
             "SetSpeed", "SetPlayer", "NoPlayer", "Pause", "Unpause", "Map"}

ASSUME LoopAssumption ==
  /\ Calls \subseteq AllCalls
  /\ MaxNest \in Nat /\ MaxLag \in Nat /\ MaxPath \in Nat /\ MaxWalk \in Nat \ {0}

VARIABLES
  stack,      \* the call stack
  invc,       \* how many scripts are running, as the engine counts them
  lag,        \* systemtime - lastentitythink
  paused,     \* entitiespaused
  done,       \* done and die, set by Map
  myself,     \* is there a player?
  movecode,   \* of the player: 0 motionless, 1 wanders, 3 has a move script
  path,       \* letters left of its move script, 0 without one
  rewind,     \* letters it starts again with at the letter B, -1 without B
  walk,       \* ticks left to its waypoint
  speed       \* of the player

playerVars == <<myself, movecode, path, rewind, walk, speed>>
loopVars   == <<stack, invc, lag, paused, done, playerVars>>

Frames == {"main", "frame", "tpe", "while", "think", "ctl", "check", "move",
           "walk", "step", "inc", "hook", "script", "pm"}

(* An entity thinks speed times in 100 ticks: some time, or never.         *)
Speeds == {0, 100}

SetMotionless == movecode' = 0 /\ path' = 0 /\ rewind' = -1 /\ walk' = 0

(* Engine_Start up to the start script of the map, which MAP::MAP runs.    *)
LoopInit ==
  /\ stack = <<"main", "hook">> /\ invc = 0
  /\ lag = 0
  /\ paused = FALSE /\ done = FALSE
  /\ myself = FALSE /\ speed = 100
  /\ movecode = 0 /\ path = 0 /\ rewind = -1 /\ walk = 0

-----------------------------------------------------------------------------
(* The stack.                                                              *)

Top == stack[Len(stack)]
Below == SubSeq(stack, 1, Len(stack) - 1)

At(f)       == Top = f
Become(fs)  == stack' = Below \o fs    \* the top frame goes on as fs
Return      == stack' = Below
CallOn(fs)  == stack' = stack \o fs

Loops == Cardinality({i \in 1 .. Len(stack) : stack[i] = "inc"})

(* The timer thread.  Beyond the bound the difference is left alone.       *)
ClockTick ==
  /\ lag < MaxLag
  /\ lag' = lag + 1
  /\ UNCHANGED <<stack, invc, paused, done, playerVars>>

-----------------------------------------------------------------------------
(* The engine's own functions.                                             *)

(* while (!done): UpdateControls, TimedProcessEntities, and the frame.     *)
MainLoop ==
  /\ At("main") /\ ~done
  /\ CallOn(<<"frame", "tpe", "hook">>)
  /\ UNCHANGED <<invc, lag, paused, done, playerVars>>

(* Mutant: the next map starts with the flag still set.                    *)
NextMapKeepsDone ==
  /\ At("main") /\ done
  /\ CallOn(<<"hook">>)
  /\ lag' = 0
  /\ myself' = FALSE /\ SetMotionless /\ speed' = 100
  /\ UNCHANGED <<invc, done, paused>>

(* The end of a map, and the start of the next.                            *)
NextMap ==
  /\ At("main") /\ done
  /\ CallOn(<<"hook">>)
  /\ lag' = 0 /\ done' = FALSE
  /\ myself' = FALSE /\ SetMotionless /\ speed' = 100
  /\ UNCHANGED <<invc, paused>>

(* Nothing is drawn once a script has asked for another map.               *)
Frame ==
  /\ At("frame")
  /\ IF done THEN Return ELSE Become(<<"hook">>)
  /\ UNCHANGED <<invc, lag, paused, done, playerVars>>

EnterProcess ==
  /\ At("tpe")
  /\ IF paused THEN Return ELSE Become(<<"while">>)
  /\ UNCHANGED <<invc, lag, paused, done, playerVars>>

LoopTurn ==
  /\ At("while") /\ lag > 0 /\ ~done
  /\ Become(<<"inc", "step", "ctl", "think", "hook">>)
  /\ UNCHANGED <<invc, lag, paused, done, playerVars>>

LoopExit ==
  /\ At("while") /\ (lag <= 0 \/ done)
  /\ Return
  /\ UNCHANGED <<invc, lag, paused, done, playerVars>>

(* Mutant: the tick is counted twice.                                      *)
CountTickTwice ==
  /\ At("inc")
  /\ Become(<<"while">>)
  /\ lag' = lag - 2
  /\ UNCHANGED <<invc, paused, done, playerVars>>

CountTick ==
  /\ At("inc")
  /\ Become(<<"while">>)
  /\ lag' = lag - 1
  /\ UNCHANGED <<invc, paused, done, playerVars>>

(* The player has no turn while it is too slow for one.                    *)
NoTurn ==
  /\ ~myself \/ speed = 0
  /\ Become(<<"hook">>) /\ UNCHANGED playerVars

WalksOn ==
  /\ walk > 0
  /\ walk' = walk - 1
  /\ Become(<<"hook">>) /\ UNCHANGED <<movecode, path, rewind, speed>>

Motionless ==
  /\ walk = 0 /\ movecode = 0
  /\ Become(<<IF invc = 0 THEN "ctl" ELSE "hook">>)
  /\ UNCHANGED <<movecode, path, rewind, walk, speed>>

(* do_wanderzone and do_wanderbox set a waypoint or none.                  *)
Wanders ==
  /\ walk = 0 /\ movecode = 1
  /\ walk' \in 0 .. MaxWalk
  /\ Become(<<"hook">>) /\ UNCHANGED <<movecode, path, rewind, speed>>

(* Mutant: a move script starts again when it has ended.                   *)
do_movescriptAgain ==
  /\ walk = 0 /\ movecode = 3
  /\ \/ /\ path > 0 /\ path' = path - 1
        /\ walk' \in 0 .. MaxWalk /\ UNCHANGED <<movecode, rewind>>
     \/ path = 0 /\ path' \in 0 .. MaxPath /\ UNCHANGED <<movecode, rewind, walk>>
  /\ Become(<<"hook">>) /\ UNCHANGED speed

(* One letter, which may take no tick at all and may set the speed; B, and *)
(* the script begins again; or its end.                                    *)
do_movescript ==
  /\ walk = 0 /\ movecode = 3
  /\ \/ /\ path > 0 /\ path' = path - 1
        /\ \/ walk' \in 0 .. MaxWalk /\ UNCHANGED speed
           \/ speed' \in Speeds /\ UNCHANGED walk
        /\ UNCHANGED <<movecode, rewind>>
     \/ /\ path = 0 /\ rewind >= 0 /\ path' = rewind
        /\ UNCHANGED <<movecode, rewind, walk, speed>>
     \/ /\ path = 0 /\ rewind < 0 /\ movecode' = 0
        /\ UNCHANGED <<path, rewind, walk, speed>>
  /\ Become(<<"hook">>)

(* ProcessEntities.  Any entity that moves may run the collision script,   *)
(* before the player's turn and after it; a player that is ready thinks by *)
(* the controls or by its movement code.                                   *)
PlayerThinks ==
  /\ At("think")
  /\ \/ NoTurn
     \/ myself /\ speed > 0 /\ (WalksOn \/ Motionless \/ Wanders \/ do_movescript)
  /\ UNCHANGED <<invc, lag, paused, done, myself>>

(* ProcessControls begins with UpdateControls, which runs bound scripts.   *)
CallControls ==
  /\ At("ctl")
  /\ IF invc = 0 THEN Become(<<"check", "hook">>) ELSE Return
  /\ UNCHANGED <<invc, lag, paused, done, playerVars>>

(* Without a ready player nothing moves; a move script ends here, and      *)
(* PlayerEntityMoveCleanup runs the afterPlayerMove script.                *)
CheckPlayer ==
  /\ At("check")
  /\ \/ /\ ~myself \/ walk > 0 \/ invc > 0
        /\ Return /\ UNCHANGED playerVars
     \/ /\ myself /\ walk = 0 /\ invc = 0 /\ movecode = 3
        /\ SetMotionless /\ Become(<<"move", "hook">>)
        /\ UNCHANGED <<myself, speed>>
     \/ /\ myself /\ walk = 0 /\ invc = 0 /\ movecode # 3
        /\ Become(<<"move">>) /\ UNCHANGED playerVars
  /\ UNCHANGED <<invc, lag, paused, done>>

(* Nothing pressed; a direction, where the way may be obstructed and run   *)
(* the collision script; or b1, which runs the script of an entity or zone.*)
ReadKeys ==
  /\ At("move")
  /\ \/ Return
     \/ Become(<<"walk", "hook">>)
     \/ Become(<<"hook">>)
  /\ UNCHANGED <<invc, lag, paused, done, playerVars>>

(* Without a player the code dereferences NULL: nothing follows.           *)
Walk ==
  /\ At("walk") /\ myself
  /\ walk' \in 0 .. MaxWalk
  /\ Return
  /\ UNCHANGED <<invc, lag, paused, done, myself, movecode, path, rewind, speed>>

(* onStep, CheckZone and afterStep, on a new tile, with no script running. *)
Step ==
  /\ At("step")
  /\ \/ Return
     \/ myself /\ invc = 0 /\ Become(<<"hook">>)
  /\ UNCHANGED <<invc, lag, paused, done, playerVars>>

NoScript ==
  /\ At("hook")
  /\ Return
  /\ UNCHANGED <<invc, lag, paused, done, playerVars>>

(* ExecuteFunctionString and ExecuteCallback.                              *)
RunScript ==
  /\ At("hook") /\ invc < MaxNest
  /\ Become(<<"script">>)
  /\ invc' = invc + 1
  /\ UNCHANGED <<lag, paused, done, playerVars>>

(* Mutant: a flag says that a script runs, not a counter.                  *)
ScriptReturnsFlag ==
  /\ At("script")
  /\ Return
  /\ invc' = 0
  /\ UNCHANGED <<lag, paused, done, playerVars>>

ScriptReturns ==
  /\ At("script")
  /\ Return
  /\ invc' = invc - 1
  /\ UNCHANGED <<lag, paused, done, playerVars>>

-----------------------------------------------------------------------------
(* What scripts call.                                                      *)

Script(call) == At("script") /\ call \in Calls

(* ScriptEngine::Render, and the ShowPage that follows it.                 *)
CallRender ==
  /\ Script("Render")
  /\ CallOn(<<"hook", "tpe">>)
  /\ UNCHANGED <<invc, lag, paused, done, playerVars>>

(* A move script: some letters, and perhaps B.                             *)
SetMoveScript ==
  /\ movecode' = 3 /\ walk' = 0
  /\ path' \in 0 .. MaxPath /\ rewind' \in {-1, path'}

CallPlayerMove ==
  /\ Script("PlayerMove") /\ myself
  /\ SetMoveScript
  /\ CallOn(<<"pm">>)
  /\ UNCHANGED <<invc, lag, paused, done, myself, speed>>

(* EntityMove on the player's entity.                                      *)
CallEntityMove ==
  /\ Script("EntityMove") /\ myself
  /\ SetMoveScript
  /\ UNCHANGED <<stack, invc, lag, paused, done, myself, speed>>

CallEntityStop ==
  /\ Script("EntityStop") /\ myself
  /\ SetMotionless
  /\ UNCHANGED <<stack, invc, lag, paused, done, myself, speed>>

(* EntitySetWanderZone and EntitySetWanderRect on the player's entity.     *)
CallEntitySetWander ==
  /\ Script("EntityWander") /\ myself
  /\ movecode' = 1 /\ path' = 0 /\ rewind' = -1 /\ walk' = 0
  /\ UNCHANGED <<stack, invc, lag, paused, done, myself, speed>>

(* A script sets entity.speed.                                             *)
CallSetSpeed ==
  /\ Script("SetSpeed") /\ myself
  /\ speed' \in Speeds
  /\ UNCHANGED <<stack, invc, lag, paused, done, myself, movecode, path, rewind, walk>>

(* SetPlayer to an entity of any speed, and SetPlayer(-1).                 *)
CallSetPlayer ==
  /\ \/ Script("SetPlayer") /\ myself' = TRUE /\ speed' \in Speeds
     \/ Script("NoPlayer") /\ myself' = FALSE /\ speed' = 100
  /\ SetMotionless
  /\ UNCHANGED <<stack, invc, lag, paused, done>>

CallSetEntitiesPaused ==
  /\ \/ Script("Pause") /\ paused' = TRUE /\ UNCHANGED lag
     \/ Script("Unpause") /\ paused' = FALSE /\ lag' = 0
  /\ UNCHANGED <<stack, invc, done, playerVars>>

CallMap ==
  /\ Script("Map")
  /\ done' = TRUE
  /\ UNCHANGED <<stack, invc, lag, paused, playerVars>>

(* A turn of PlayerMove's loop, and its end, which runs afterPlayerMove.   *)
(* Without a player its test dereferences NULL.                            *)
PlayerMoveLoop ==
  /\ At("pm") /\ myself
  /\ IF movecode # 0 THEN CallOn(<<"hook", "tpe">>) ELSE Become(<<"hook">>)
  /\ UNCHANGED <<invc, lag, paused, done, playerVars>>

-----------------------------------------------------------------------------

ScriptCalls ==
  \/ CallRender \/ CallPlayerMove \/ CallEntityMove \/ CallEntityStop
  \/ CallEntitySetWander \/ CallSetSpeed \/ CallSetPlayer \/ CallSetEntitiesPaused \/ CallMap

EngineStep ==
  \/ MainLoop \/ NextMap \/ Frame \/ EnterProcess \/ LoopTurn \/ LoopExit \/ CountTick
  \/ PlayerThinks \/ CallControls \/ CheckPlayer \/ ReadKeys \/ Walk \/ Step
  \/ NoScript \/ RunScript \/ ScriptReturns \/ PlayerMoveLoop

LoopNext == ClockTick \/ EngineStep \/ ScriptCalls

LoopSpec == LoopInit /\ [][LoopNext]_loopVars

(* The engine's thread goes on, and so does the timer's.  A script that    *)
(* gets control again and again returns at last, and the machine is not    *)
(* for ever slower than the clock: a loop that catches up with it again    *)
(* and again ends at last before the next tick.  At one depth of scripts   *)
(* there is one loop at a time.                                            *)
LoopFairness ==
  /\ WF_loopVars(EngineStep \/ ScriptCalls)
  /\ WF_loopVars(ClockTick)
  /\ \A n \in 0 .. MaxNest : /\ SF_loopVars(ScriptReturns /\ invc = n)
                            /\ SF_loopVars(LoopExit /\ invc = n)

FairLoopSpec == LoopSpec /\ LoopFairness

-----------------------------------------------------------------------------
(* Properties.                                                             *)

(* Engine_Start is at the bottom of the call stack, and the scripts the    *)
(* engine counts are never fewer than none.                                *)
LoopTypeOK ==
  /\ stack \in Seq(Frames) /\ stack # <<>> /\ stack[1] = "main"
  /\ invc \in 0 .. MaxNest /\ lag \in Int
  /\ {paused, done, myself} \subseteq BOOLEAN
  /\ movecode \in {0, 1, 3} /\ path \in 0 .. MaxPath /\ rewind \in -1 .. MaxPath
  /\ walk \in 0 .. MaxWalk /\ speed \in Speeds

(* "No player movement can be done if there's no ready player, or if       *)
(* there's a script active": the keys do not move the player while a       *)
(* script runs, however deep in the engine it was called.                  *)
ScriptsHoldControls == At("walk") => \A i \in 1 .. Len(stack) : stack[i] # "script"

(* Both at once: the stack is one the engine can build, and the keys wait  *)
(* for every script on it.                                                 *)
LoopInv == LoopTypeOK /\ ScriptsHoldControls

(* The same sentence, of the player.                                       *)
OnlyReadyPlayerWalks == At("walk") => myself /\ walk = 0

(* lastentitythink never runs away from systemtime: the entities are ahead *)
(* of the clock by a tick at most for each loop that a script started      *)
(* within another, however often scripts do so.                            *)
AheadByNestingOnly == lag >= Loops - (MaxNest + 1)

Crashed == ~myself /\ Top \in {"walk", "pm"}
InPlayerMove(n) ==
  \E i \in 1 .. Len(stack) :
    stack[i] = "pm" /\ Cardinality({j \in 1 .. i : stack[j] = "script"}) = n
ScriptsCalm == ~ []<><<CallEntityMove \/ CallSetEntitiesPaused>>_loopVars

(* What the player does has no end of its own: its script begins again at  *)
(* the letter B, it wanders, or it stands with the speed 0.                *)
Endless == (movecode = 3 /\ rewind >= 0) \/ movecode = 1 \/ speed = 0

(* A call of PlayerMove, by a script n deep, comes to its end, unless      *)
(* TimedProcessEntities does nothing by then (a script left the map or     *)
(* paused the entities), or the engine crashed for want of a player, or the*)
(* player's move became one without an end; or, for ever, scripts that its *)
(* own loop runs start the player's script anew or unpause the entities,   *)
(* which sets their clock.                                                 *)
PlayerMoveEnds ==
  ScriptsCalm =>
    \A n \in 1 .. MaxNest :
      InPlayerMove(n) ~> (~InPlayerMove(n) \/ done \/ paused \/ Crashed \/ Endless)

(* After Map the engine comes to the next map, unless a PlayerMove is      *)
(* under way: the player does not move any more, so it never returns.      *)
MapIsLeft == done ~> (~done \/ Crashed \/ \E n \in 1 .. MaxNest : InPlayerMove(n))

=============================================================================
