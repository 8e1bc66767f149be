-------------------------------- MODULE Frame --------------------------------
(***************************************************************************)
(* ShowPage (g_startup.cpp), which the engine calls for each frame and     *)
(* scripts call too: HookTimer calls the script's timer callback once for  *)
(* each tick of the timer's thread, then TimedProcessSprites gives each    *)
(* sprite a turn for each tick, and from time to time a turn to think,     *)
(* which is a script again (g_script.cpp, g_engine.cpp, g_sprites.cpp).    *)
(*                                                                         *)
(* stack is the engine's call stack, its top last.  Its frames:            *)
(*   main      the engine, between two calls of ShowPage                   *)
(*   hook      HookTimer: while (hooktimer)                                *)
(*   dec       hooktimer--                                                 *)
(*   think     TimedProcessSprites: while (lastspritethink < systemtime)   *)
(*   sprite    its loop over the sprites, at sprite i                      *)
(*   script    a script the engine called                                  *)
(*   timer     the timer callback                                          *)
(*   proc      the thinkproc of sprite i                                   *)
(* RenderSprites and Flip change nothing of this and are left out.         *)
(***************************************************************************)
EXTENDS Integers, Sequences, FiniteSets

CONSTANTS
  TimerCalls,  \* what the timer callback may do besides: draw, hook
  MaxTime,     \* bound on the clock
  MaxNest,     \* bound on the scripts inside each other
  MaxSprites,  \* bound on the sprites scripts ask for
  MaxRate,     \* bound on thinkrate
  MaxWait,     \* bound on the wait and the timer a script writes
  QUAD         \* the range of an unsigned int (2^32)

ASSUME FrameAssumption ==
  /\ TimerCalls \subseteq {"draw", "hook"}
  /\ {MaxTime, MaxSprites, MaxRate, MaxWait} \subseteq Nat /\ MaxNest \in Nat \ {0}
  /\ QUAD \in Nat /\ QUAD > MaxTime

VARIABLES
  stack,            \* the engine's call stack
  systemtime,       \* ticks of the timer's thread
  hooktimer,        \* ticks the callback has not been called for
  lastspritethink,  \* the tick the sprites have come to
  sprites,          \* the vector of sprites
  event_sprite,     \* event.sprite: the sprite that thinks, scripts are told
  calls,            \* history: calls of the timer callback since the last HookTimer
  ticks,            \* history: ticks counted since then
  raced             \* history: has a write of hooktimer been lost since then?

frameVars == <<stack, systemtime, hooktimer, lastspritethink, sprites, event_sprite,
               calls, ticks, raced>>
hookHist   == <<calls, ticks, raced>>
spriteVars == <<lastspritethink, sprites, event_sprite>>

(* A sprite: image says whether it has one; born is history, the sprites'  *)
(* tick its timer counts from while it has one.                            *)
Sprite == [image : BOOLEAN, wait : 0 .. MaxWait, timer : Nat, thinkctr : Nat,
           thinkrate : 0 .. MaxRate, born : Int]

Born(s, d) == IF s.image THEN s.born + d ELSE 0

Call(f)      == [at |-> f, i |-> 0]
CallOf(f, n) == [at |-> f, i |-> n]

FrameInit ==
  /\ stack = <<Call("main")>>
  /\ systemtime = 0 /\ hooktimer = 0 /\ lastspritethink = 0
  /\ sprites = <<>> /\ event_sprite = 0
  /\ calls = 0 /\ ticks = 0 /\ raced = FALSE

-----------------------------------------------------------------------------
(* The stack.                                                              *)

Top == stack[Len(stack)]
Below == SubSeq(stack, 1, Len(stack) - 1)

At(f)      == Top.at = f
Become(fs) == stack' = Below \o fs
Return     == stack' = Below
CallOn(fs) == stack' = stack \o fs

ScriptFrames == {"script", "timer", "proc"}
InScript == Top.at \in ScriptFrames
Depth == Cardinality({k \in DOMAIN stack : stack[k].at \in ScriptFrames})

(* Sprites are numbered from 1 here.  The loops on the stack that have     *)
(* passed sprite n in the tick they are at, and those at a later sprite.   *)
Past(n) == Cardinality({k \in DOMAIN stack : stack[k].at = "sprite" /\ stack[k].i > n})

ShowPage == <<Call("think"), Call("hook")>>

-----------------------------------------------------------------------------
(* The timer's thread, while the engine is paused and while it is not.     *)

Count(h) == (h + 1) % QUAD

TimerTick ==
  /\ systemtime < MaxTime
  /\ systemtime' = systemtime + 1
  /\ \/ hooktimer' = Count(hooktimer) /\ ticks' = ticks + 1
     \/ UNCHANGED <<hooktimer, ticks>>
  /\ UNCHANGED <<stack, spriteVars, calls, raced>>

-----------------------------------------------------------------------------
(* HookTimer.                                                              *)

(* Mutant: the test comes after the first call.                            *)
HookLoopAnyway ==
  /\ At("hook")
  /\ \/ CallOn(<<Call("dec"), Call("timer")>>) /\ calls' = calls + 1
     \/ hooktimer = 0 /\ Return /\ UNCHANGED calls
  /\ UNCHANGED <<systemtime, hooktimer, spriteVars, ticks, raced>>

HookLoop ==
  /\ At("hook")
  /\ IF hooktimer # 0
     THEN CallOn(<<Call("dec"), Call("timer")>>) /\ calls' = calls + 1
     ELSE Return /\ UNCHANGED calls
  /\ UNCHANGED <<systemtime, hooktimer, spriteVars, ticks, raced>>

(* Mutant: the ticks that came while the callback ran are forgotten.       *)
HookCountedAll ==
  /\ At("dec")
  /\ hooktimer' = 0
  /\ Return
  /\ UNCHANGED <<systemtime, spriteVars, hookHist>>

HookCounted ==
  /\ At("dec")
  /\ hooktimer' = (hooktimer - 1) % QUAD
  /\ Return
  /\ UNCHANGED <<systemtime, spriteVars, hookHist>>

(* hooktimer-- and the hooktimer++ of the timer's thread at the same time: *)
(* one of the two writes is lost.                                          *)
HookCountedRacing ==
  /\ At("dec")
  /\ systemtime < MaxTime
  /\ systemtime' = systemtime + 1
  /\ hooktimer' \in {(hooktimer - 1) % QUAD, Count(hooktimer)}
  /\ ticks' = ticks + 1 /\ raced' = TRUE
  /\ Return
  /\ UNCHANGED <<spriteVars, calls>>

-----------------------------------------------------------------------------
(* TimedProcessSprites.                                                    *)

(* Mutant: one turn for all the ticks there are.                           *)
SpriteLoopOnce ==
  /\ At("think")
  /\ IF lastspritethink < systemtime THEN Become(<<CallOf("sprite", 1)>>) ELSE Return
  /\ lastspritethink' = IF lastspritethink < systemtime THEN systemtime - 1 ELSE lastspritethink
  /\ UNCHANGED <<systemtime, hooktimer, sprites, event_sprite, hookHist>>

SpriteLoop ==
  /\ At("think")
  /\ IF lastspritethink < systemtime THEN Become(<<CallOf("sprite", 1)>>) ELSE Return
  /\ UNCHANGED <<systemtime, hooktimer, spriteVars, hookHist>>

Passed(n) == <<CallOf("sprite", n + 1)>>

(* A sprite without an image, and one that waits: its timer stands still.  *)
SkipSprite ==
  /\ At("sprite")
  /\ \E n \in DOMAIN sprites :
       /\ n = Top.i
       /\ ~sprites[n].image \/ sprites[n].wait # 0
       /\ sprites' = IF sprites[n].image
                     THEN [sprites EXCEPT ![n].wait = @ - 1, ![n].born = @ + 1] ELSE sprites
       /\ Become(Passed(n))
  /\ UNCHANGED <<systemtime, hooktimer, lastspritethink, event_sprite, hookHist>>

ThinkDue(s) == s.thinkctr + 1 > s.thinkrate

SpriteTurn ==
  /\ At("sprite")
  /\ \E n \in DOMAIN sprites :
       /\ n = Top.i
       /\ sprites[n].image /\ sprites[n].wait = 0
       /\ sprites' = [sprites EXCEPT ![n].timer = @ + 1,
                                     ![n].thinkctr = IF ThinkDue(sprites[n]) THEN 0 ELSE @ + 1]
       /\ Become(IF ThinkDue(sprites[n]) THEN Passed(n) \o <<CallOf("proc", n)>> ELSE Passed(n))
       /\ event_sprite' = IF ThinkDue(sprites[n]) THEN n ELSE event_sprite
  /\ UNCHANGED <<systemtime, hooktimer, lastspritethink, hookHist>>

(* Mutant: the tick is counted twice.                                      *)
SpritesDoneTwice ==
  /\ At("sprite") /\ Top.i > Len(sprites)
  /\ lastspritethink' = lastspritethink + 2
  /\ Become(<<Call("think")>>)
  /\ UNCHANGED <<systemtime, hooktimer, sprites, event_sprite, hookHist>>

(* The size of the vector is read anew for each sprite: a script may have  *)
(* made it longer, or empty.                                               *)
SpritesDone ==
  /\ At("sprite") /\ Top.i > Len(sprites)
  /\ lastspritethink' = lastspritethink + 1
  /\ Become(<<Call("think")>>)
  /\ UNCHANGED <<systemtime, hooktimer, sprites, event_sprite, hookHist>>

-----------------------------------------------------------------------------
(* The engine's loop, and what scripts do.                                 *)

NextFrame ==
  /\ At("main")
  /\ CallOn(ShowPage)
  /\ UNCHANGED <<systemtime, hooktimer, spriteVars, hookHist>>

(* Engine_Start sets the sprites to the clock for each map.                *)
NextMap ==
  /\ At("main")
  /\ lastspritethink' = systemtime
  /\ sprites' = [n \in DOMAIN sprites |->
                   [sprites[n] EXCEPT !.born = Born(sprites[n], systemtime - lastspritethink)]]
  /\ UNCHANGED <<stack, systemtime, hooktimer, event_sprite, hookHist>>

RunScript ==
  /\ At("main")
  /\ CallOn(<<Call("script")>>)
  /\ UNCHANGED <<systemtime, hooktimer, spriteVars, hookHist>>

ScriptReturns ==
  /\ InScript
  /\ Return
  /\ UNCHANGED <<systemtime, hooktimer, spriteVars, hookHist>>

MayCall(what) == InScript /\ (At("timer") => what \in TimerCalls)

CallShowPage ==
  /\ MayCall("draw") /\ Depth < MaxNest
  /\ CallOn(ShowPage)
  /\ UNCHANGED <<systemtime, hooktimer, spriteVars, hookHist>>

CallHookTimer ==
  /\ MayCall("hook")
  /\ hooktimer' = 0
  /\ calls' = 0 /\ ticks' = 0 /\ raced' = FALSE
  /\ UNCHANGED <<stack, systemtime, spriteVars>>

(* hooktimer = 0 between the two halves of the timer's hooktimer++.        *)
CallHookTimerRacing ==
  /\ MayCall("hook")
  /\ systemtime < MaxTime
  /\ systemtime' = systemtime + 1
  /\ hooktimer' = Count(hooktimer)
  /\ calls' = 0 /\ ticks' = 0 /\ raced' = TRUE
  /\ UNCHANGED <<stack, spriteVars>>

Free == {n \in DOMAIN sprites : ~sprites[n].image}

NewSprite == [image |-> FALSE, wait |-> 0, timer |-> 0, thinkctr |-> 0, thinkrate |-> 0,
              born |-> 0]

(* GetSprite: the first sprite without an image, which may be one another  *)
(* script was just given, is made new; else there is one more.             *)
CallGetSprite ==
  /\ InScript
  /\ \/ \E n \in Free : /\ \A m \in Free : n <= m
                        /\ sprites' = [sprites EXCEPT ![n] = NewSprite]
     \/ /\ Free = {} /\ Len(sprites) < MaxSprites
        /\ sprites' = Append(sprites, NewSprite)
  /\ UNCHANGED <<stack, systemtime, hooktimer, lastspritethink, event_sprite, hookHist>>

CallSetImage ==
  /\ InScript
  /\ \E n \in Free :
       sprites' = [sprites EXCEPT ![n].image = TRUE,
                                  ![n].born = lastspritethink + Past(n) - sprites[n].timer]
  /\ UNCHANGED <<stack, systemtime, hooktimer, lastspritethink, event_sprite, hookHist>>

(* A script writes the rate, the wait or the timer of any sprite at any    *)
(* time; the timer then counts from another tick.                          *)
CallSetSprite ==
  /\ InScript
  /\ \E n \in DOMAIN sprites :
       \/ \E rate \in 0 .. MaxRate : sprites' = [sprites EXCEPT ![n].thinkrate = rate]
       \/ \E w \in 0 .. MaxWait : sprites' = [sprites EXCEPT ![n].wait = w]
       \/ \E t \in 0 .. MaxWait :
            sprites' = [sprites EXCEPT ![n].timer = t,
                                       ![n].born = Born(sprites[n], sprites[n].timer - t)]
  /\ UNCHANGED <<stack, systemtime, hooktimer, lastspritethink, event_sprite, hookHist>>

CallFreeSprite ==
  /\ InScript
  /\ \E n \in DOMAIN sprites : sprites' = [sprites EXCEPT ![n].image = FALSE, ![n].born = 0]
  /\ UNCHANGED <<stack, systemtime, hooktimer, lastspritethink, event_sprite, hookHist>>

CallResetSprites ==
  /\ InScript
  /\ sprites' = <<>>
  /\ UNCHANGED <<stack, systemtime, hooktimer, lastspritethink, event_sprite, hookHist>>

-----------------------------------------------------------------------------

HookStep   == HookLoop \/ HookCounted \/ HookCountedRacing
SpriteStep == SpriteLoop \/ SkipSprite \/ SpriteTurn \/ SpritesDone
ScriptStep == \/ ScriptReturns \/ CallShowPage \/ CallHookTimer \/ CallHookTimerRacing
              \/ CallGetSprite \/ CallSetImage \/ CallSetSprite \/ CallFreeSprite \/ CallResetSprites

FrameNext == TimerTick \/ HookStep \/ SpriteStep \/ ScriptStep \/ NextFrame \/ NextMap \/ RunScript

FrameSpec == FrameInit /\ [][FrameNext]_frameVars

-----------------------------------------------------------------------------
(* Properties.                                                             *)

Frames == [at : {"main", "hook", "dec", "think", "sprite"} \cup ScriptFrames, i : Nat]

(* Among the types: the engine is at the bottom of the stack.              *)
FrameTypeOK ==
  /\ stack \in Seq(Frames) /\ stack # <<>> /\ stack[1] = Call("main")
  /\ systemtime \in 0 .. MaxTime /\ hooktimer \in 0 .. (QUAD - 1)
  /\ lastspritethink \in Nat /\ event_sprite \in 0 .. MaxSprites
  /\ sprites \in Seq(Sprite) /\ Len(sprites) <= MaxSprites
  /\ calls \in Nat /\ ticks \in Nat /\ raced \in BOOLEAN

(* HookTimer never owes the script more calls than the timer ticked: the   *)
(* counter, which two threads write without a lock and which is decremented*)
(* only after the callback, does not fall below nought (and wrap to four   *)
(* billion calls).  A callback that draws a frame or hooks anew is         *)
(* excepted by TimerCalls: for those it does.                              *)
HookOwesTicks == hooktimer <= systemtime

(* The stack is one the engine can build, and the counter within the ticks.*)
FrameInv == FrameTypeOK /\ HookOwesTicks

Pending == Cardinality({k \in DOMAIN stack : stack[k].at = "dec"})

(* Unless a write was lost, every tick since the script hooked its callback*)
(* is answered by one call of it: none is forgotten while the callback or  *)
(* other scripts run, and none is answered twice.                          *)
HookExact == ~raced => hooktimer = ticks - calls + Pending

(* Every sprite has one turn for each tick the sprites' clock moves while  *)
(* it has an image and does not wait: its timer counts them from what a    *)
(* script last wrote there, no matter how many frames scripts draw within  *)
(* frames, and which sprites they add, free and reset in between.          *)
SpriteTurns ==
  \A n \in DOMAIN sprites : sprites[n].image =>
    sprites[n].timer = lastspritethink + Past(n) - sprites[n].born

(* changelog.txt:504 says of sprite.thinkrate: `A rate of 1 is every tick, *)
(* 0 is no thought.'  The engine thinks each thinkrate + 1 turns.          *)
RateAsDocumented ==
  \A n \in DOMAIN sprites :
    At("sprite") /\ Top.i = n /\ sprites[n].image /\ sprites[n].wait = 0 =>
      /\ sprites[n].thinkrate = 0 => ~ThinkDue(sprites[n])
      /\ sprites[n].thinkrate = 1 => ThinkDue(sprites[n])

Loops == Cardinality({k \in DOMAIN stack : stack[k].at = "sprite"})

(* Sprites get ahead of the clock, but by a tick at most for each loop     *)
(* beyond the first that was started inside another, however often scripts *)
(* do so.                                                                  *)
SpritesAheadByNesting == lastspritethink + Loops < systemtime + MaxNest

=============================================================================
