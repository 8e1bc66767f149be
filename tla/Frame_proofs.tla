----------------------------- MODULE Frame_proofs -----------------------------
(***************************************************************************)
(* The timer callback, for any number of ticks, sprites, frames drawn by   *)
(* scripts and frames drawn within those: HookTimer's counter, written by  *)
(* two threads without a lock, never falls below nought, and unless the    *)
(* threads met, no tick is forgotten or answered twice.                    *)
(*                                                                         *)
(* That hangs on the shape of the stack: a callback that neither draws nor *)
(* hooks keeps its countdown right below the top, so there is never more   *)
(* than one, and nobody sets the counter to 0 while it is due.             *)
(*                                                                         *)
(* And the sprites: each has its turns, however loops that draw frames run *)
(* within each other, since a loop that has passed a sprite has not moved  *)
(* the clock yet; and the clock is not overrun, since each loop but one is *)
(* right above a script of its own.                                        *)
(***************************************************************************)
EXTENDS Frame, FiniteSetTheorems, SequenceTheorems, TLAPS

(* A countdown is due: HookTimer waits for its callback or has just had it.*)
Answering == Top.at \in {"dec", "timer"}

HookShape ==
  \A k \in 1 .. Len(stack) :
    /\ stack[k].at = "dec" => k = Len(stack) \/ (k = Len(stack) - 1 /\ Top.at = "timer")
    /\ stack[k].at = "timer" => k = Len(stack) /\ k > 1 /\ stack[k - 1].at = "dec"

HookIInv ==
  /\ FrameTypeOK
  /\ HookShape
  /\ HookOwesTicks
  /\ Answering => hooktimer >= 1
  /\ ~raced => hooktimer = ticks - calls + (IF Answering THEN 1 ELSE 0)

-----------------------------------------------------------------------------
(* Sequences and numbers.                                                  *)

LEMMA PushedOne ==
  ASSUME NEW S, NEW s \in Seq(S), NEW f \in S
  PROVE  /\ s \o <<f>> \in Seq(S) /\ Len(s \o <<f>>) = Len(s) + 1
         /\ \A k \in 1 .. Len(s) : (s \o <<f>>)[k] = s[k]
         /\ (s \o <<f>>)[Len(s) + 1] = f
OBVIOUS

LEMMA PushedTwo ==
  ASSUME NEW S, NEW s \in Seq(S), NEW f \in S, NEW g \in S
  PROVE  /\ s \o <<f, g>> \in Seq(S) /\ Len(s \o <<f, g>>) = Len(s) + 2
         /\ \A k \in 1 .. Len(s) : (s \o <<f, g>>)[k] = s[k]
         /\ (s \o <<f, g>>)[Len(s) + 1] = f /\ (s \o <<f, g>>)[Len(s) + 2] = g
OBVIOUS

LEMMA TwoFrames ==
  ASSUME NEW S, NEW f \in S, NEW g \in S
  PROVE  <<f>> \o <<g>> = <<f, g>>
<1> DEFINE s == <<f>> \o <<g>>
           t == <<f, g>>
<1>1. /\ <<f>> \in Seq(S) /\ Len(<<f>>) = 1 /\ <<f>>[1] = f
      /\ t \in Seq(S) /\ Len(t) = 2 /\ t[1] = f /\ t[2] = g
  OBVIOUS
<1>2. s \in Seq(S) /\ Len(s) = 2 /\ s[1] = f /\ s[2] = g
  BY <1>1, PushedOne
<1>3. \A i \in 1 .. 2 : i = 1 \/ i = 2
  OBVIOUS
<1> HIDE DEF s, t
<1>4. s = t
  BY <1>1, <1>2, <1>3, SeqEqual
<1> QED
  BY <1>4 DEF s, t

LEMMA Popped ==
  ASSUME NEW S, NEW s \in Seq(S), NEW n \in Nat, n = Len(s), n >= 1
  PROVE  /\ SubSeq(s, 1, n - 1) \in Seq(S)
         /\ Len(SubSeq(s, 1, n - 1)) = n - 1
         /\ \A k \in 1 .. (n - 1) : SubSeq(s, 1, n - 1)[k] = s[k]
<1>1. 1 \in Int /\ n - 1 \in Int /\ \A k \in 1 .. (n - 1) : s[k] \in S
  OBVIOUS
<1>2. /\ SubSeq(s, 1, n - 1) \in Seq(S)
      /\ Len(SubSeq(s, 1, n - 1)) = IF 1 <= n - 1 THEN (n - 1) - 1 + 1 ELSE 0
      /\ \A k \in 1 .. ((n - 1) - 1 + 1) : SubSeq(s, 1, n - 1)[k] = s[1 + k - 1]
  BY <1>1, SubSeqProperties
<1>3. /\ (n - 1) - 1 + 1 = n - 1
      /\ (IF 1 <= n - 1 THEN (n - 1) - 1 + 1 ELSE 0) = n - 1
      /\ \A k \in 1 .. (n - 1) : 1 + k - 1 = k
  OBVIOUS
<1> QED
  BY <1>2, <1>3

LEMMA ModSmall ==
  ASSUME NEW q \in Nat, NEW x \in 0 .. (q - 1)
  PROVE  x % q = x
BY SMT

(* Within the ticks of the clock, hooktimer++ does not wrap.               *)
LEMMA CountsUp ==
  ASSUME NEW h \in Nat, h < MaxTime
  PROVE  Count(h) = h + 1 /\ Count(h) \in 0 .. (QUAD - 1)
<1>1. MaxTime \in Nat /\ QUAD \in Nat /\ QUAD > MaxTime
  BY FrameAssumption
<1>2. h + 1 \in 0 .. (QUAD - 1)
  BY <1>1
<1> QED
  BY <1>1, <1>2, ModSmall DEF Count

(* Nor does hooktimer--, while a tick is owed.                             *)
LEMMA CountsDown ==
  ASSUME NEW h \in 1 .. (QUAD - 1)
  PROVE  (h - 1) % QUAD = h - 1
<1>1. QUAD \in Nat /\ h - 1 \in 0 .. (QUAD - 1)
  BY FrameAssumption
<1> QED
  BY <1>1, ModSmall

-----------------------------------------------------------------------------
(* What the stack's changes leave of its shape.                            *)

(* What a step of FrameNext starts from.                                   *)
LEMMA StackFacts ==
  ASSUME FrameTypeOK
  PROVE  /\ stack \in Seq(Frames) /\ Len(stack) \in Nat \ {0}
         /\ stack[1] = Call("main") /\ Top \in Frames
         /\ Top.at # "main" => Len(stack) > 1
         /\ \A k \in 1 .. Len(stack) : stack[k] \in Frames
<1>1. stack \in Seq(Frames) /\ Len(stack) \in Nat \ {0} /\ stack[1] = Call("main")
  BY DEF FrameTypeOK
<1>2. \A k \in 1 .. Len(stack) : stack[k] \in Frames
  BY <1>1
<1>3. Len(stack) = 1 => Top.at = "main"
  BY <1>1 DEF Top, Call
<1> QED
  BY <1>1, <1>2, <1>3 DEF Top

LEMMA NewFrames ==
  /\ \A f \in {"main", "hook", "dec", "think", "sprite"} \cup ScriptFrames : Call(f) \in Frames
  /\ \A f \in {"sprite", "proc"}, n \in Nat : CallOf(f, n) \in Frames
BY DEF Call, CallOf, Frames, ScriptFrames

Quiet(f) == f.at \notin {"dec", "timer"}

(* Frames of no callback, put on a stack without one, answer nothing.      *)
LEMMA QuietStack ==
  ASSUME NEW base \in Seq(Frames), Len(base) >= 1, base[1] = Call("main"),
         \A k \in 1 .. Len(base) : Quiet(base[k]),
         NEW f \in Frames, NEW g \in Frames, Quiet(f), Quiet(g),
         stack' \in {base, base \o <<f>>, base \o <<f, g>>}
  PROVE  /\ stack' \in Seq(Frames) /\ stack' # <<>> /\ stack'[1] = Call("main")
         /\ HookShape' /\ ~Answering'
<1> DEFINE n == Len(base)
<1>1. n \in Nat /\ n >= 1
  OBVIOUS
<1>2. /\ stack' \in Seq(Frames) /\ Len(stack') \in n .. (n + 2)
      /\ \A k \in 1 .. n : stack'[k] = base[k]
      /\ \A k \in 1 .. Len(stack') : k > n => Quiet(stack'[k])
  <2>1. CASE stack' = base
    BY <1>1, <2>1
  <2>2. CASE stack' = base \o <<f>>
    <3>1. /\ stack' \in Seq(Frames) /\ Len(stack') = n + 1 /\ stack'[n + 1] = f
          /\ \A k \in 1 .. n : stack'[k] = base[k]
      BY <2>2, PushedOne
    <3>2. \A k \in 1 .. (n + 1) : k > n => k = n + 1
      BY <1>1
    <3> QED
      BY <1>1, <3>1, <3>2
  <2>3. CASE stack' = base \o <<f, g>>
    <3>1. /\ stack' \in Seq(Frames) /\ Len(stack') = n + 2
          /\ stack'[n + 1] = f /\ stack'[n + 2] = g
          /\ \A k \in 1 .. n : stack'[k] = base[k]
      BY <2>3, PushedTwo
    <3>2. \A k \in 1 .. (n + 2) : k > n => k = n + 1 \/ k = n + 2
      BY <1>1
    <3> QED
      BY <1>1, <3>1, <3>2
  <2> QED
    BY <2>1, <2>2, <2>3
<1>3. \A k \in 1 .. Len(stack') : Quiet(stack'[k])
  <2>1. \A k \in 1 .. Len(stack') : k > n \/ k \in 1 .. n
    BY <1>1, <1>2
  <2> QED
    BY <1>2, <2>1
<1>4. Len(stack') \in 1 .. Len(stack') /\ 1 \in 1 .. n
  BY <1>1, <1>2
<1>5. \A k \in 1 .. Len(stack') : stack'[k].at # "dec" /\ stack'[k].at # "timer"
  BY <1>3 DEF Quiet
<1>6. HookShape'
  BY <1>5 DEF HookShape
<1>7. ~Answering'
  BY <1>4, <1>5 DEF Answering, Top
<1>8. stack' # <<>> /\ stack'[1] = Call("main")
  BY <1>2, <1>4
<1> QED
  BY <1>2, <1>6, <1>7, <1>8

(* A push of such frames, when nothing is answered.                        *)
LEMMA CallOnShape ==
  ASSUME FrameTypeOK, HookShape, ~Answering,
         NEW f \in Frames, NEW g \in Frames, Quiet(f), Quiet(g),
         stack' \in {stack \o <<f>>, stack \o <<f, g>>}
  PROVE  /\ stack' \in Seq(Frames) /\ stack' # <<>> /\ stack'[1] = Call("main")
         /\ HookShape' /\ ~Answering'
<1>1. /\ stack \in Seq(Frames) /\ Len(stack) \in Nat \ {0} /\ stack[1] = Call("main")
  BY StackFacts
<1>2. \A k \in 1 .. Len(stack) : Quiet(stack[k])
  BY <1>1 DEF HookShape, Answering, Top, Quiet
<1>3. Len(stack) >= 1 /\ stack' \in {stack, stack \o <<f>>, stack \o <<f, g>>}
  BY <1>1
<1> QED
  BY <1>1, <1>2, <1>3, QuietStack

(* A frame that is left, or replaced by such frames.                       *)
LEMMA BecomeShape ==
  ASSUME FrameTypeOK, HookShape, Top.at \notin {"main", "timer"},
         NEW f \in Frames, NEW g \in Frames, Quiet(f), Quiet(g),
         stack' \in {Below, Below \o <<f>>, Below \o <<f, g>>}
  PROVE  /\ stack' \in Seq(Frames) /\ stack' # <<>> /\ stack'[1] = Call("main")
         /\ HookShape' /\ ~Answering'
<1>1. /\ stack \in Seq(Frames) /\ Len(stack) \in Nat \ {0} /\ stack[1] = Call("main")
      /\ Len(stack) > 1 /\ stack # <<>>
  BY StackFacts DEF FrameTypeOK
<1>2. /\ Below \in Seq(Frames) /\ Len(Below) = Len(stack) - 1
      /\ \A k \in 1 .. Len(Below) : Below[k] = stack[k]
  BY <1>1, Popped DEF Below
<1>3. \A k \in 1 .. Len(Below) : Quiet(Below[k])
  <2>1. SUFFICES ASSUME NEW k \in 1 .. Len(Below) PROVE Quiet(stack[k])
    BY <1>2
  <2>2. k \in 1 .. Len(stack) /\ k # Len(stack)
    BY <1>1, <1>2
  <2> QED
    BY <2>2 DEF HookShape, Quiet
<1>4. Len(Below) >= 1 /\ Below[1] = Call("main")
  BY <1>1, <1>2
<1> QED
  BY <1>2, <1>3, <1>4, QuietStack

-----------------------------------------------------------------------------
(* The invariant.                                                          *)

LEMMA HookInit == FrameInit => HookIInv
<1> SUFFICES ASSUME FrameInit PROVE HookIInv
  OBVIOUS
<1>1. MaxTime \in Nat /\ MaxSprites \in Nat /\ QUAD \in Nat /\ QUAD > MaxTime
  BY FrameAssumption
<1>2. stack = <<Call("main")>> /\ Call("main") \in Frames /\ Call("main").at = "main"
  BY NewFrames DEF FrameInit, Call
<1>3. /\ stack \in Seq(Frames) /\ stack # <<>> /\ stack[1] = Call("main")
      /\ Len(stack) = 1 /\ \A k \in 1 .. Len(stack) : stack[k].at = "main"
  BY <1>2
<1>4. HookShape /\ ~Answering
  BY <1>3 DEF HookShape, Answering, Top
<1>5. FrameTypeOK
  <2>1. <<>> \in Seq(Sprite) /\ Len(<<>>) = 0
    OBVIOUS
  <2>2. sprites \in Seq(Sprite) /\ Len(sprites) <= MaxSprites
    BY <1>1, <2>1 DEF FrameInit
  <2>3. /\ systemtime \in 0 .. MaxTime /\ hooktimer \in 0 .. (QUAD - 1)
        /\ lastspritethink \in Nat /\ event_sprite \in 0 .. MaxSprites
        /\ calls \in Nat /\ ticks \in Nat
    BY <1>1 DEF FrameInit
  <2>4. raced \in BOOLEAN
    BY DEF FrameInit
  <2> QED
    BY <1>3, <2>2, <2>3, <2>4 DEF FrameTypeOK
<1> QED
  BY <1>1, <1>4, <1>5 DEF FrameInit, HookIInv, HookOwesTicks

(* What the steps outside of HookTimer have in common: the counter and its *)
(* history stay, and no countdown begins or ends.                          *)
LEMMA SpritesApart ==
  ASSUME HookIInv, FrameTypeOK', HookShape', Answering' <=> Answering,
         UNCHANGED <<hooktimer, hookHist>>, systemtime' = systemtime
  PROVE  HookIInv'
BY DEF HookIInv, HookOwesTicks, hookHist

(* The vector of sprites keeps its type when one is changed.               *)
LEMMA SpriteChanged ==
  ASSUME sprites \in Seq(Sprite), NEW n \in DOMAIN sprites, NEW s \in Sprite,
         sprites' = [sprites EXCEPT ![n] = s]
  PROVE  sprites' \in Seq(Sprite) /\ Len(sprites') = Len(sprites)
OBVIOUS

LEMMA SpriteWaits ==
  ASSUME NEW s \in Sprite, NEW w \in 0 .. MaxWait, NEW b \in Int
  PROVE  [s EXCEPT !.wait = w, !.born = b] \in Sprite
BY DEF Sprite

LEMMA SpritePictured ==
  ASSUME NEW s \in Sprite, NEW i \in BOOLEAN, NEW b \in Int
  PROVE  [s EXCEPT !.image = i, !.born = b] \in Sprite
BY DEF Sprite

LEMMA BornType ==
  ASSUME NEW s \in Sprite, NEW d \in Int
  PROVE  Born(s, d) \in Int
BY DEF Sprite, Born

LEMMA PastType == ASSUME FrameTypeOK, NEW n \in Nat PROVE Past(n) \in Nat
<1>1. stack \in Seq(Frames) /\ DOMAIN stack = 1 .. Len(stack) /\ Len(stack) \in Nat
  BY DEF FrameTypeOK
<1>2. IsFiniteSet(DOMAIN stack)
  BY <1>1, FS_Interval
<1>3. IsFiniteSet({k \in DOMAIN stack : stack[k].at = "sprite" /\ stack[k].i > n})
  BY <1>2, FS_Subset
<1> QED
  BY <1>3, FS_CardinalityType DEF Past

(* The types of all but the stack, after the steps of the sprites.         *)
SpriteSteps ==
  \/ SpriteLoop \/ SkipSprite \/ SpriteTurn \/ SpritesDone \/ NextMap
  \/ CallGetSprite \/ CallSetImage \/ CallSetSprite \/ CallFreeSprite \/ CallResetSprites

LEMMA SpriteTypes ==
  ASSUME FrameTypeOK, SpriteSteps
  PROVE  /\ sprites' \in Seq(Sprite) /\ Len(sprites') <= MaxSprites
         /\ lastspritethink' \in Nat /\ event_sprite' \in 0 .. MaxSprites
         /\ UNCHANGED <<systemtime, hooktimer, hookHist>>
<1>1. /\ sprites \in Seq(Sprite) /\ Len(sprites) \in Nat /\ Len(sprites) <= MaxSprites
      /\ MaxSprites \in Nat /\ MaxRate \in Nat /\ MaxWait \in Nat
      /\ DOMAIN sprites = 1 .. Len(sprites) /\ \A n \in DOMAIN sprites : sprites[n] \in Sprite
      /\ lastspritethink \in Nat /\ event_sprite \in 0 .. MaxSprites
      /\ systemtime \in Nat
  BY FrameAssumption DEF FrameTypeOK
<1>2. CASE SpriteLoop
  BY <1>1, <1>2 DEF SpriteLoop, spriteVars
<1>3. CASE SkipSprite
  <2>1. PICK n \in DOMAIN sprites :
          /\ ~sprites[n].image \/ sprites[n].wait # 0
          /\ sprites' = IF sprites[n].image
                        THEN [sprites EXCEPT ![n].wait = @ - 1, ![n].born = @ + 1] ELSE sprites
    BY <1>3 DEF SkipSprite
  <2>2. CASE ~sprites[n].image
    BY <1>1, <1>3, <2>1, <2>2 DEF SkipSprite
  <2>3. CASE sprites[n].image
    <3> DEFINE s == [sprites[n] EXCEPT !.wait = @ - 1, !.born = @ + 1]
    <3>1. sprites[n].wait \in 1 .. MaxWait /\ sprites[n] \in Sprite
      BY <1>1, <2>1, <2>3 DEF Sprite
    <3>2. s \in Sprite
      <4>1. sprites[n].born \in Int /\ sprites[n].wait \in 1 .. MaxWait /\ MaxWait \in Nat
        BY <1>1, <3>1 DEF Sprite
      <4>2. PICK w \in 0 .. MaxWait, b \in Int : w = sprites[n].wait - 1 /\ b = sprites[n].born + 1
        BY <4>1
      <4>3. [sprites[n] EXCEPT !.wait = w, !.born = b] \in Sprite
        BY <3>1, SpriteWaits
      <4> QED
        BY <4>2, <4>3
    <3>3. sprites' = [sprites EXCEPT ![n] = s]
      BY <1>1, <2>1, <2>3, <3>1 DEF Sprite
    <3>4. sprites' \in Seq(Sprite) /\ Len(sprites') = Len(sprites)
      BY <1>1, <3>2, <3>3, SpriteChanged
    <3> QED
      BY <1>1, <1>3, <3>4 DEF SkipSprite
  <2> QED
    BY <2>2, <2>3
<1>4. CASE SpriteTurn
  <2>1. PICK n \in DOMAIN sprites :
          /\ sprites' = [sprites EXCEPT ![n].timer = @ + 1,
                           ![n].thinkctr = IF ThinkDue(sprites[n]) THEN 0 ELSE @ + 1]
          /\ event_sprite' = IF ThinkDue(sprites[n]) THEN n ELSE event_sprite
    BY <1>4 DEF SpriteTurn
  <2> DEFINE s == [sprites[n] EXCEPT !.timer = @ + 1,
                     !.thinkctr = IF ThinkDue(sprites[n]) THEN 0 ELSE @ + 1]
  <2>2. sprites[n] \in Sprite /\ sprites[n].timer \in Nat /\ sprites[n].thinkctr \in Nat
    BY <1>1 DEF Sprite
  <2>3. s \in Sprite
    <3>1. sprites[n].timer + 1 \in Nat
          /\ (IF ThinkDue(sprites[n]) THEN 0 ELSE sprites[n].thinkctr + 1) \in Nat
      BY <2>2
    <3> QED
      BY <2>2, <3>1 DEF Sprite
  <2>4. sprites' = [sprites EXCEPT ![n] = s]
    BY <1>1, <2>1, <2>2 DEF Sprite
  <2>5. sprites' \in Seq(Sprite) /\ Len(sprites') = Len(sprites)
    BY <1>1, <2>3, <2>4, SpriteChanged
  <2>6. n \in 0 .. MaxSprites
    BY <1>1
  <2> QED
    BY <1>1, <1>4, <2>1, <2>5, <2>6 DEF SpriteTurn
<1>5. CASE SpritesDone
  BY <1>1, <1>5 DEF SpritesDone
<1>6. CASE NextMap
  <2>1. sprites' = [n \in DOMAIN sprites |->
                     [sprites[n] EXCEPT !.born = Born(sprites[n], systemtime - lastspritethink)]]
    BY <1>6 DEF NextMap
  <2>2. \A n \in DOMAIN sprites :
          [sprites[n] EXCEPT !.born = Born(sprites[n], systemtime - lastspritethink)] \in Sprite
    <3>1. SUFFICES ASSUME NEW n \in DOMAIN sprites
                   PROVE  [sprites[n] EXCEPT !.born = Born(sprites[n], systemtime - lastspritethink)] \in Sprite
      OBVIOUS
    <3>2. sprites[n] \in Sprite /\ Born(sprites[n], systemtime - lastspritethink) \in Int
      <4>1. systemtime - lastspritethink \in Int /\ sprites[n] \in Sprite
        BY <1>1
      <4> QED
        BY <4>1, BornType
    <3> QED
      BY <3>2 DEF Sprite
  <2>3. sprites' \in Seq(Sprite) /\ Len(sprites') = Len(sprites)
    BY <1>1, <2>1, <2>2
  <2> QED
    BY <1>1, <1>6, <2>3 DEF NextMap
<1>7. CASE CallGetSprite
  <2>1. NewSprite \in Sprite
    BY <1>1 DEF NewSprite, Sprite
  <2>2. CASE \E n \in Free : sprites' = [sprites EXCEPT ![n] = NewSprite]
    <3>1. PICK n \in DOMAIN sprites : sprites' = [sprites EXCEPT ![n] = NewSprite]
      BY <2>2 DEF Free
    <3>2. sprites' \in Seq(Sprite) /\ Len(sprites') = Len(sprites)
      BY <1>1, <2>1, <3>1, SpriteChanged
    <3> QED
      BY <1>1, <1>7, <3>2 DEF CallGetSprite
  <2>3. CASE Len(sprites) < MaxSprites /\ sprites' = Append(sprites, NewSprite)
    <3>1. sprites' \in Seq(Sprite) /\ Len(sprites') = Len(sprites) + 1
      BY <1>1, <2>1, <2>3
    <3>2. Len(sprites') <= MaxSprites
      BY <1>1, <2>3, <3>1
    <3> QED
      BY <1>1, <1>7, <3>1, <3>2 DEF CallGetSprite
  <2> QED
    BY <1>7, <2>2, <2>3 DEF CallGetSprite
<1>8. CASE CallSetImage
  <2>1. PICK n \in Free :
          sprites' = [sprites EXCEPT ![n].image = TRUE,
                                     ![n].born = lastspritethink + Past(n) - sprites[n].timer]
    BY <1>8 DEF CallSetImage
  <2>2. n \in DOMAIN sprites /\ n \in Nat /\ sprites[n] \in Sprite
    BY <1>1 DEF Free
  <2>3. PICK b \in Int : b = lastspritethink + Past(n) - sprites[n].timer
    <3>1. Past(n) \in Nat
      BY <2>2, PastType
    <3>2. sprites[n].timer \in Nat
      BY <2>2 DEF Sprite
    <3> QED
      BY <1>1, <3>1, <3>2
  <2>4. [sprites[n] EXCEPT !.image = TRUE, !.born = b] \in Sprite
    BY <2>2 DEF Sprite
  <2>5. sprites' = [sprites EXCEPT ![n] = [sprites[n] EXCEPT !.image = TRUE, !.born = b]]
    BY <1>1, <2>1, <2>2, <2>3
  <2>6. sprites' \in Seq(Sprite) /\ Len(sprites') = Len(sprites)
    BY <1>1, <2>2, <2>4, <2>5, SpriteChanged
  <2> QED
    BY <1>1, <1>8, <2>6 DEF CallSetImage
<1>11. CASE CallSetSprite
  <2>1. PICK n \in DOMAIN sprites :
          \/ \E rate \in 0 .. MaxRate : sprites' = [sprites EXCEPT ![n].thinkrate = rate]
          \/ \E w \in 0 .. MaxWait : sprites' = [sprites EXCEPT ![n].wait = w]
          \/ \E t \in 0 .. MaxWait :
               sprites' = [sprites EXCEPT ![n].timer = t,
                                          ![n].born = Born(sprites[n], sprites[n].timer - t)]
    BY <1>11 DEF CallSetSprite
  <2>2. sprites[n] \in Sprite
    BY <1>1
  <2>3. \E s \in Sprite : sprites' = [sprites EXCEPT ![n] = s]
    <3>1. CASE \E rate \in 0 .. MaxRate : sprites' = [sprites EXCEPT ![n].thinkrate = rate]
      <4>1. PICK rate \in 0 .. MaxRate : sprites' = [sprites EXCEPT ![n].thinkrate = rate]
        BY <3>1
      <4>2. [sprites[n] EXCEPT !.thinkrate = rate] \in Sprite
        BY <2>2 DEF Sprite
      <4>3. sprites' = [sprites EXCEPT ![n] = [sprites[n] EXCEPT !.thinkrate = rate]]
        BY <4>1
      <4> QED
        BY <4>2, <4>3
    <3>2. CASE \E w \in 0 .. MaxWait : sprites' = [sprites EXCEPT ![n].wait = w]
      <4>1. PICK w \in 0 .. MaxWait : sprites' = [sprites EXCEPT ![n].wait = w]
        BY <3>2
      <4>2. [sprites[n] EXCEPT !.wait = w] \in Sprite
        BY <2>2 DEF Sprite
      <4>3. sprites' = [sprites EXCEPT ![n] = [sprites[n] EXCEPT !.wait = w]]
        BY <4>1
      <4> QED
        BY <4>2, <4>3
    <3>3. CASE \E t \in 0 .. MaxWait :
                 sprites' = [sprites EXCEPT ![n].timer = t,
                                            ![n].born = Born(sprites[n], sprites[n].timer - t)]
      <4>1. PICK t \in 0 .. MaxWait :
              sprites' = [sprites EXCEPT ![n].timer = t,
                                         ![n].born = Born(sprites[n], sprites[n].timer - t)]
        BY <3>3
      <4>2. sprites[n].timer - t \in Int /\ t \in Nat
        BY <1>1, <2>2 DEF Sprite
      <4>3. PICK b \in Int : b = Born(sprites[n], sprites[n].timer - t)
        BY <2>2, <4>2, BornType
      <4>4. [sprites[n] EXCEPT !.timer = t, !.born = b] \in Sprite
        BY <2>2, <4>2 DEF Sprite
      <4>5. sprites' = [sprites EXCEPT ![n] = [sprites[n] EXCEPT !.timer = t, !.born = b]]
        BY <1>1, <4>1, <4>3
      <4> QED
        BY <4>4, <4>5
    <3> QED
      BY <2>1, <3>1, <3>2, <3>3
  <2>4. sprites' \in Seq(Sprite) /\ Len(sprites') = Len(sprites)
    BY <1>1, <2>3, SpriteChanged
  <2>5. /\ lastspritethink' = lastspritethink /\ event_sprite' = event_sprite
        /\ UNCHANGED <<systemtime, hooktimer, hookHist>>
    BY <1>11 DEF CallSetSprite
  <2>6. Len(sprites') <= MaxSprites
    BY <1>1, <2>4
  <2>7. lastspritethink' \in Nat /\ event_sprite' \in 0 .. MaxSprites
    BY <1>1, <2>5
  <2> QED
    BY <2>4, <2>5, <2>6, <2>7
<1>9. CASE CallFreeSprite
  <2>1. PICK n \in DOMAIN sprites : sprites' = [sprites EXCEPT ![n].image = FALSE, ![n].born = 0]
    BY <1>9 DEF CallFreeSprite
  <2>2. [sprites[n] EXCEPT !.image = FALSE, !.born = 0] \in Sprite
    <3>1. sprites[n] \in Sprite
      BY <1>1
    <3>2. FALSE \in BOOLEAN /\ 0 \in Int
      OBVIOUS
    <3> QED
      BY <3>1, <3>2, SpritePictured, ZenonT(30)
  <2>3. sprites' = [sprites EXCEPT ![n] = [sprites[n] EXCEPT !.image = FALSE, !.born = 0]]
    BY <1>1, <2>1
  <2>4. sprites' \in Seq(Sprite) /\ Len(sprites') = Len(sprites)
    BY <1>1, <2>2, <2>3, SpriteChanged
  <2> QED
    BY <1>1, <1>9, <2>4 DEF CallFreeSprite
<1>10. CASE CallResetSprites
  <2>1. sprites' = <<>> /\ <<>> \in Seq(Sprite) /\ Len(<<>>) = 0
    BY <1>10 DEF CallResetSprites
  <2> QED
    BY <1>1, <1>10, <2>1 DEF CallResetSprites
<1> QED
  BY <1>2, <1>3, <1>4, <1>5, <1>6, <1>7, <1>8, <1>9, <1>10, <1>11 DEF SpriteSteps

(* FrameTypeOK from its parts.                                             *)
LEMMA TypesFromParts ==
  ASSUME FrameTypeOK, stack' \in Seq(Frames), stack' # <<>>, stack'[1] = Call("main"),
         sprites' \in Seq(Sprite), Len(sprites') <= MaxSprites,
         lastspritethink' \in Nat, event_sprite' \in 0 .. MaxSprites,
         UNCHANGED <<systemtime, hooktimer, ticks, raced>>, calls' \in Nat
  PROVE  FrameTypeOK'
BY DEF FrameTypeOK

(* Every step of the sprites puts only frames of no callback on the stack, *)
(* in the place of one, or leaves the stack alone.                         *)
LEMMA SpriteStepsShape ==
  ASSUME FrameTypeOK, HookShape, SpriteSteps
  PROVE  /\ stack' \in Seq(Frames) /\ stack' # <<>> /\ stack'[1] = Call("main")
         /\ HookShape' /\ (Answering' <=> Answering)
<1>1. /\ stack \in Seq(Frames) /\ stack # <<>> /\ stack[1] = Call("main")
      /\ Top \in Frames /\ Top.i \in Nat
  BY StackFacts DEF FrameTypeOK, Frames
<1>2. CASE UNCHANGED stack
  BY <1>1, <1>2 DEF HookShape, Answering, Top
<1>3. CASE Top.at \in {"think", "sprite"} /\ \E f, g \in Frames :
             Quiet(f) /\ Quiet(g) /\ stack' \in {Below, Below \o <<f>>, Below \o <<f, g>>}
  <2>1. ~Answering /\ Top.at \notin {"main", "timer"}
    BY <1>3 DEF Answering
  <2> QED
    BY <1>3, <2>1, BecomeShape
<1>4. \A n \in Nat : /\ CallOf("sprite", n) \in Frames /\ Quiet(CallOf("sprite", n))
                     /\ CallOf("proc", n) \in Frames /\ Quiet(CallOf("proc", n))
  BY NewFrames DEF CallOf, Quiet
<1>5. Call("think") \in Frames /\ Quiet(Call("think"))
  BY NewFrames DEF Call, Quiet
<1>6. CASE SpriteLoop
  BY <1>3, <1>4, <1>6 DEF SpriteLoop, At, Become, Return
<1>7. CASE SkipSprite
  <2>1. PICK n \in DOMAIN sprites : stack' = Below \o Passed(n)
    BY <1>7 DEF SkipSprite, Become
  <2>2. n + 1 \in Nat
    BY DEF FrameTypeOK
  <2>3. stack' = Below \o <<CallOf("sprite", n + 1)>>
    BY <2>1 DEF Passed
  <2> QED
    BY <1>3, <1>4, <1>7, <2>2, <2>3 DEF SkipSprite, At
<1>8. CASE SpriteTurn
  <2>1. PICK n \in DOMAIN sprites :
          stack' = Below \o (IF ThinkDue(sprites[n]) THEN Passed(n) \o <<CallOf("proc", n)>> ELSE Passed(n))
    BY <1>8 DEF SpriteTurn, Become
  <2>2. n \in Nat /\ n + 1 \in Nat
    BY DEF FrameTypeOK
  <2> DEFINE f == CallOf("sprite", n + 1)
             g == CallOf("proc", n)
  <2>3. f \in Frames /\ Quiet(f) /\ g \in Frames /\ Quiet(g)
    BY <1>4, <2>2
  <2>4. <<f>> \o <<g>> = <<f, g>>
    BY <2>3, TwoFrames
  <2>5. stack' \in {Below, Below \o <<f>>, Below \o <<f, g>>}
    BY <2>1, <2>4 DEF Passed
  <2>6. Top.at = "sprite"
    BY <1>8 DEF SpriteTurn, At
  <2> HIDE DEF f, g
  <2> QED
    BY <1>3, <2>3, <2>5, <2>6
<1>9. CASE SpritesDone
  BY <1>3, <1>5, <1>9 DEF SpritesDone, At, Become
<1>10. CASE NextMap \/ CallGetSprite \/ CallSetImage \/ CallSetSprite \/ CallFreeSprite \/ CallResetSprites
  BY <1>2, <1>10 DEF NextMap, CallGetSprite, CallSetImage, CallSetSprite, CallFreeSprite, CallResetSprites
<1> QED
  BY <1>6, <1>7, <1>8, <1>9, <1>10 DEF SpriteSteps

(* Frames and scripts that are called, and a script that returns, other    *)
(* than the callback.                                                      *)
CallSteps == NextFrame \/ RunScript \/ CallShowPage \/ (ScriptReturns /\ ~At("timer"))

LEMMA CallStepsShape ==
  ASSUME TimerCalls = {}, FrameTypeOK, HookShape, CallSteps
  PROVE  /\ stack' \in Seq(Frames) /\ stack' # <<>> /\ stack'[1] = Call("main")
         /\ HookShape' /\ ~Answering /\ ~Answering'
         /\ UNCHANGED <<systemtime, hooktimer, spriteVars, hookHist>>
<1>1. /\ Call("think") \in Frames /\ Call("hook") \in Frames /\ Call("script") \in Frames
      /\ Quiet(Call("think")) /\ Quiet(Call("hook")) /\ Quiet(Call("script"))
  BY NewFrames DEF Call, Quiet, ScriptFrames
<1>2. CASE NextFrame
  BY <1>1, <1>2, CallOnShape DEF NextFrame, At, Answering, CallOn, ShowPage
<1>3. CASE RunScript
  BY <1>1, <1>3, CallOnShape DEF RunScript, At, Answering, CallOn
<1>4. CASE CallShowPage
  BY <1>1, <1>4, CallOnShape DEF CallShowPage, MayCall, InScript, At, Answering, CallOn, ShowPage, ScriptFrames
<1>5. CASE ScriptReturns /\ ~At("timer")
  BY <1>1, <1>5, BecomeShape DEF ScriptReturns, InScript, At, Answering, Return, ScriptFrames
<1> QED
  BY <1>2, <1>3, <1>4, <1>5 DEF CallSteps

LEMMA HookNext == TimerCalls = {} /\ HookIInv /\ [FrameNext]_frameVars => HookIInv'
<1> SUFFICES ASSUME TimerCalls = {}, HookIInv, [FrameNext]_frameVars PROVE HookIInv'
  OBVIOUS
<1>1. FrameTypeOK /\ HookShape /\ HookOwesTicks
  BY DEF HookIInv
<1>2. /\ systemtime \in Nat /\ hooktimer \in Nat /\ calls \in Nat /\ ticks \in Nat
      /\ systemtime <= MaxTime /\ hooktimer <= systemtime /\ hooktimer <= QUAD - 1
      /\ MaxTime \in Nat /\ QUAD \in Nat /\ QUAD > MaxTime
  BY <1>1, FrameAssumption DEF FrameTypeOK, HookOwesTicks
<1>3. /\ sprites \in Seq(Sprite) /\ Len(sprites) <= MaxSprites
      /\ lastspritethink \in Nat /\ event_sprite \in 0 .. MaxSprites
      /\ stack \in Seq(Frames) /\ stack # <<>> /\ stack[1] = Call("main")
  BY <1>1 DEF FrameTypeOK
<1>4. Answering => hooktimer >= 1
  BY DEF HookIInv
<1>5. ~raced => hooktimer = ticks - calls + (IF Answering THEN 1 ELSE 0)
  BY DEF HookIInv
<1>6. CASE UNCHANGED frameVars
  BY <1>6 DEF frameVars, HookIInv, FrameTypeOK, HookShape, HookOwesTicks, Answering, Top
<1>7. CASE TimerTick
  <2>1. /\ systemtime' = systemtime + 1 /\ systemtime < MaxTime
        /\ UNCHANGED <<stack, spriteVars, calls, raced>>
        /\ \/ hooktimer' = hooktimer + 1 /\ hooktimer' \in 0 .. (QUAD - 1) /\ ticks' = ticks + 1
           \/ UNCHANGED <<hooktimer, ticks>>
    BY <1>2, <1>7, CountsUp DEF TimerTick
  <2>2. /\ systemtime' \in 0 .. MaxTime /\ hooktimer' \in 0 .. (QUAD - 1) /\ ticks' \in Nat
        /\ hooktimer' <= systemtime' /\ hooktimer' >= hooktimer
    BY <1>2, <2>1
  <2>3. FrameTypeOK'
    BY <1>1, <2>1, <2>2 DEF FrameTypeOK, spriteVars
  <2>4. HookShape' /\ (Answering' <=> Answering)
    BY <1>1, <2>1 DEF HookShape, Answering, Top
  <2>5. Answering' => hooktimer' >= 1
    BY <1>2, <1>4, <2>2, <2>4
  <2>6. ~raced' => hooktimer' = ticks' - calls' + (IF Answering' THEN 1 ELSE 0)
    <3>1. SUFFICES ASSUME ~raced' PROVE hooktimer' = ticks' - calls' + (IF Answering' THEN 1 ELSE 0)
      OBVIOUS
    <3>2. ~raced /\ calls' = calls
      BY <2>1, <3>1
    <3>3. PICK n \in {0, 1} : n = (IF Answering THEN 1 ELSE 0) /\ n = (IF Answering' THEN 1 ELSE 0)
      BY <2>4
    <3>4. hooktimer = ticks - calls + n
      BY <1>5, <3>2, <3>3
    <3>5. hooktimer' = ticks' - calls + n
      BY <1>2, <2>1, <3>4
    <3> QED
      BY <3>2, <3>3, <3>5
  <2> QED
    BY <2>2, <2>3, <2>4, <2>5, <2>6 DEF HookIInv, HookOwesTicks
<1>8. CASE HookLoop /\ hooktimer # 0
  <2> DEFINE d == Call("dec")
             t == Call("timer")
  <2>1. d \in Frames /\ t \in Frames /\ d.at = "dec" /\ t.at = "timer"
    BY NewFrames DEF Call, ScriptFrames
  <2>2. /\ Top.at = "hook" /\ stack' = stack \o <<d, t>> /\ calls' = calls + 1
        /\ UNCHANGED <<systemtime, hooktimer, spriteVars, ticks, raced>>
    BY <1>8 DEF HookLoop, At, CallOn
  <2>3. /\ Len(stack) \in Nat \ {0} /\ ~Answering
        /\ \A k \in 1 .. Len(stack) : Quiet(stack[k])
    BY <1>1, <1>3, <2>2 DEF HookShape, Answering, Top, Quiet
  <2>4. /\ stack' \in Seq(Frames) /\ Len(stack') = Len(stack) + 2
        /\ \A k \in 1 .. Len(stack) : stack'[k] = stack[k]
        /\ stack'[Len(stack) + 1] = d /\ stack'[Len(stack) + 2] = t
    <3> HIDE DEF d, t
    <3> QED
      BY <1>3, <2>1, <2>2, PushedTwo
  <2>5. stack' # <<>> /\ stack'[1] = Call("main")
    BY <1>3, <2>3, <2>4
  <2>6. FrameTypeOK'
    BY <1>1, <1>2, <1>3, <2>2, <2>4, <2>5, TypesFromParts DEF spriteVars
  <2>7. Top' = t /\ Answering'
    BY <2>1, <2>3, <2>4 DEF Top, Answering
  <2>8. HookShape'
    <3>1. SUFFICES ASSUME NEW k \in 1 .. Len(stack')
                   PROVE  /\ stack'[k].at = "dec" => k = Len(stack') \/ (k = Len(stack') - 1 /\ Top'.at = "timer")
                          /\ stack'[k].at = "timer" => k = Len(stack') /\ k > 1 /\ stack'[k - 1].at = "dec"
      BY DEF HookShape
    <3>2. k \in 1 .. Len(stack) \/ k = Len(stack) + 1 \/ k = Len(stack) + 2
      BY <2>3, <2>4
    <3>3. CASE k \in 1 .. Len(stack)
      BY <2>3, <2>4, <3>3 DEF Quiet
    <3>4. CASE k = Len(stack) + 1
      BY <2>1, <2>3, <2>4, <2>7, <3>4
    <3>5. CASE k = Len(stack) + 2
      <4>1. k - 1 = Len(stack) + 1 /\ k > 1
        BY <2>3, <3>5
      <4> QED
        BY <2>1, <2>4, <3>5, <4>1
    <3> QED
      BY <3>2, <3>3, <3>4, <3>5
  <2>9. hooktimer' >= 1 /\ (~raced' => hooktimer' = ticks' - calls' + 1)
    BY <1>2, <1>5, <1>8, <2>2, <2>3
  <2> QED
    BY <1>2, <2>2, <2>6, <2>7, <2>8, <2>9 DEF HookIInv, HookOwesTicks
<1>9. CASE HookLoop /\ hooktimer = 0
  <2>1. Top.at = "hook" /\ stack' = Below /\ UNCHANGED <<systemtime, hooktimer, spriteVars, hookHist>>
    BY <1>9 DEF HookLoop, At, Return, hookHist
  <2>2. Call("hook") \in Frames /\ Quiet(Call("hook"))
    BY NewFrames DEF Call, Quiet
  <2>3. /\ stack' \in Seq(Frames) /\ stack' # <<>> /\ stack'[1] = Call("main")
        /\ HookShape' /\ ~Answering' /\ ~Answering
    BY <1>1, <2>1, <2>2, BecomeShape DEF Answering
  <2>4. FrameTypeOK'
    BY <1>1, <1>2, <1>3, <2>1, <2>3, TypesFromParts DEF spriteVars, hookHist
  <2> QED
    BY <2>1, <2>3, <2>4, SpritesApart
<1>10. CASE HookCounted \/ HookCountedRacing
  <2>1. Top.at = "dec" /\ stack' = Below /\ Answering
    BY <1>10 DEF HookCounted, HookCountedRacing, At, Return, Answering
  <2>2. Call("hook") \in Frames /\ Quiet(Call("hook"))
    BY NewFrames DEF Call, Quiet
  <2>3. /\ stack' \in Seq(Frames) /\ stack' # <<>> /\ stack'[1] = Call("main")
        /\ HookShape' /\ ~Answering'
    BY <1>1, <2>1, <2>2, BecomeShape
  <2>4. hooktimer \in 1 .. (QUAD - 1) /\ (hooktimer - 1) % QUAD = hooktimer - 1
    BY <1>2, <1>4, <2>1, CountsDown
  <2>5. CASE HookCounted
    <3>1. hooktimer' = hooktimer - 1 /\ UNCHANGED <<systemtime, spriteVars, hookHist>>
      BY <2>4, <2>5 DEF HookCounted
    <3>2. /\ hooktimer' \in 0 .. (QUAD - 1) /\ hooktimer' <= systemtime'
          /\ (~raced' => hooktimer' = ticks' - calls' + 0)
      BY <1>2, <1>5, <2>1, <2>4, <3>1 DEF hookHist
    <3>3. FrameTypeOK'
      BY <1>1, <2>3, <3>1, <3>2 DEF FrameTypeOK, spriteVars, hookHist
    <3> QED
      BY <2>3, <3>2, <3>3 DEF HookIInv, HookOwesTicks
  <2>6. CASE HookCountedRacing
    <3>1. /\ systemtime' = systemtime + 1 /\ systemtime < MaxTime
          /\ hooktimer' \in {(hooktimer - 1) % QUAD, Count(hooktimer)}
          /\ ticks' = ticks + 1 /\ raced' = TRUE /\ UNCHANGED <<spriteVars, calls>>
      BY <2>6 DEF HookCountedRacing
    <3>2. Count(hooktimer) = hooktimer + 1
      BY <1>2, <3>1, CountsUp
    <3>3. /\ systemtime' \in 0 .. MaxTime /\ hooktimer' \in 0 .. (QUAD - 1)
          /\ hooktimer' <= systemtime' /\ ticks' \in Nat
      BY <1>2, <2>4, <3>1, <3>2
    <3>4. raced' \in BOOLEAN
      BY <3>1
    <3>5. FrameTypeOK'
      BY <1>1, <2>3, <3>1, <3>3, <3>4 DEF FrameTypeOK, spriteVars
    <3> QED
      BY <2>3, <3>1, <3>3, <3>5 DEF HookIInv, HookOwesTicks
  <2> QED
    BY <1>10, <2>5, <2>6
<1>11. CASE SpriteSteps
  <2>1. /\ stack' \in Seq(Frames) /\ stack' # <<>> /\ stack'[1] = Call("main")
        /\ HookShape' /\ (Answering' <=> Answering)
    BY <1>1, <1>11, SpriteStepsShape
  <2>2. /\ sprites' \in Seq(Sprite) /\ Len(sprites') <= MaxSprites
        /\ lastspritethink' \in Nat /\ event_sprite' \in 0 .. MaxSprites
        /\ UNCHANGED <<systemtime, hooktimer, hookHist>>
    BY <1>1, <1>11, SpriteTypes
  <2>3. FrameTypeOK'
    BY <1>1, <1>2, <2>1, <2>2, TypesFromParts DEF hookHist
  <2> QED
    BY <2>1, <2>2, <2>3, SpritesApart
<1>12. CASE CallSteps
  <2>1. /\ stack' \in Seq(Frames) /\ stack' # <<>> /\ stack'[1] = Call("main")
        /\ HookShape' /\ ~Answering /\ ~Answering'
        /\ UNCHANGED <<systemtime, hooktimer, spriteVars, hookHist>>
    BY <1>1, <1>12, CallStepsShape
  <2>2. FrameTypeOK'
    BY <1>1, <1>2, <1>3, <2>1, TypesFromParts DEF hookHist, spriteVars
  <2> QED
    BY <2>1, <2>2, SpritesApart
<1>13. CASE ScriptReturns /\ At("timer")
  <2>1. Top.at = "timer" /\ stack' = Below /\ UNCHANGED <<systemtime, hooktimer, spriteVars, hookHist>>
    BY <1>13 DEF ScriptReturns, At, Return
  <2>2. Len(stack) \in Nat /\ Len(stack) > 1 /\ stack[Len(stack) - 1].at = "dec"
    BY <1>1, <1>3, <2>1, StackFacts DEF HookShape, Top
  <2>3. /\ stack' \in Seq(Frames) /\ Len(stack') = Len(stack) - 1
        /\ \A k \in 1 .. (Len(stack) - 1) : stack'[k] = stack[k]
    BY <1>3, <2>1, <2>2, Popped DEF Below
  <2>4. stack' # <<>> /\ stack'[1] = Call("main") /\ Top'.at = "dec"
    BY <1>3, <2>2, <2>3 DEF Top
  <2>5. HookShape'
    <3>1. SUFFICES ASSUME NEW k \in 1 .. Len(stack')
                   PROVE  /\ stack'[k].at = "dec" => k = Len(stack')
                          /\ stack'[k].at # "timer"
      BY DEF HookShape
    <3>2. k \in 1 .. Len(stack) /\ k # Len(stack) /\ stack'[k] = stack[k]
      BY <2>2, <2>3
    <3> QED
      BY <1>1, <2>2, <2>3, <3>2 DEF HookShape
  <2>6. FrameTypeOK'
    BY <1>1, <1>2, <1>3, <2>1, <2>3, <2>4, TypesFromParts DEF hookHist, spriteVars
  <2>7. Answering' <=> Answering
    BY <2>1, <2>4 DEF Answering
  <2> QED
    BY <2>1, <2>5, <2>6, <2>7, SpritesApart
<1>14. CASE CallHookTimer \/ CallHookTimerRacing
  <2>1. ~Answering /\ UNCHANGED <<stack, spriteVars>> /\ calls' = 0 /\ ticks' = 0
    <3>1. InScript /\ ~At("timer") /\ UNCHANGED <<stack, spriteVars>> /\ calls' = 0 /\ ticks' = 0
      BY <1>14 DEF CallHookTimer, CallHookTimerRacing, MayCall
    <3> QED
      BY <3>1 DEF InScript, At, Answering, ScriptFrames
  <2>2. HookShape' /\ ~Answering'
    BY <1>1, <2>1 DEF HookShape, Answering, Top
  <2>3. CASE CallHookTimer
    <3>1. hooktimer' = 0 /\ raced' \in BOOLEAN /\ systemtime' = systemtime
      BY <2>3 DEF CallHookTimer
    <3>2. FrameTypeOK'
      BY <1>1, <1>2, <2>1, <3>1 DEF FrameTypeOK, spriteVars
    <3> QED
      BY <1>2, <2>1, <2>2, <3>1, <3>2 DEF HookIInv, HookOwesTicks
  <2>4. CASE CallHookTimerRacing
    <3>1. /\ systemtime' = systemtime + 1 /\ systemtime < MaxTime
          /\ hooktimer' = Count(hooktimer) /\ raced' = TRUE
      BY <2>4 DEF CallHookTimerRacing
    <3>2. hooktimer' = hooktimer + 1 /\ hooktimer' \in 0 .. (QUAD - 1)
      BY <1>2, <3>1, CountsUp
    <3>3. raced' \in BOOLEAN /\ systemtime' \in 0 .. MaxTime
      BY <1>2, <3>1
    <3>4. FrameTypeOK'
      BY <1>1, <2>1, <3>2, <3>3 DEF FrameTypeOK, spriteVars
    <3> QED
      BY <1>2, <2>2, <3>1, <3>2, <3>4 DEF HookIInv, HookOwesTicks
  <2> QED
    BY <1>14, <2>3, <2>4
<1> QED
  BY <1>6, <1>7, <1>8, <1>9, <1>10, <1>11, <1>12, <1>13, <1>14
     DEF FrameNext, HookStep, SpriteStep, ScriptStep, SpriteSteps, CallSteps

(* There is one countdown on the stack, or none.                           *)
LEMMA OnePending ==
  ASSUME FrameTypeOK, HookShape
  PROVE  Pending = IF Answering THEN 1 ELSE 0
<1> DEFINE D == {k \in DOMAIN stack : stack[k].at = "dec"}
<1>1. Len(stack) \in Nat \ {0} /\ DOMAIN stack = 1 .. Len(stack)
  BY DEF FrameTypeOK
<1>2. \A k \in DOMAIN stack :
        /\ stack[k].at = "dec" => k = Len(stack) \/ (k = Len(stack) - 1 /\ Top.at = "timer")
        /\ stack[k].at = "timer" => k = Len(stack) /\ k > 1 /\ stack[k - 1].at = "dec"
  BY <1>1 DEF HookShape
<1>3. CASE Top.at = "dec"
  <2>1. \A k \in DOMAIN stack : stack[k].at = "dec" <=> k = Len(stack)
    BY <1>1, <1>2, <1>3 DEF Top
  <2>2. Len(stack) \in DOMAIN stack
    BY <1>1
  <2>3. D = {Len(stack)}
    BY <2>1, <2>2
  <2>4. Cardinality(D) = 1
    BY <2>3, FS_Singleton
  <2> QED
    BY <1>3, <2>4 DEF Pending, Answering
<1>4. CASE Top.at = "timer"
  <2>1. Len(stack) > 1 /\ stack[Len(stack) - 1].at = "dec" /\ stack[Len(stack)].at # "dec"
    BY <1>1, <1>2, <1>4 DEF Top
  <2>2. \A k \in DOMAIN stack : stack[k].at = "dec" <=> k = Len(stack) - 1
    BY <1>1, <1>2, <1>4, <2>1
  <2>3. Len(stack) - 1 \in DOMAIN stack
    BY <1>1, <2>1
  <2>4. D = {Len(stack) - 1}
    BY <2>2, <2>3
  <2>5. Cardinality(D) = 1
    BY <2>4, FS_Singleton
  <2> QED
    BY <1>4, <2>5 DEF Pending, Answering
<1>5. CASE ~Answering
  <2>1. D = {}
    BY <1>1, <1>2, <1>5 DEF Top, Answering
  <2>2. Cardinality(D) = 0
    BY <2>1, FS_EmptySet
  <2> QED
    BY <1>5, <2>2 DEF Pending
<1> QED
  BY <1>3, <1>4, <1>5 DEF Answering

-----------------------------------------------------------------------------

(* HookTimer owes its callback no more calls than the clock has ticked, so *)
(* its counter never wraps, if the callback neither draws nor hooks.       *)
THEOREM HookNeverWraps == TimerCalls = {} /\ FrameSpec => []FrameInv
<1>1. CASE TimerCalls = {}
  <2>1. HookIInv /\ [FrameNext]_frameVars => HookIInv'
    BY <1>1, HookNext
  <2>2. HookIInv => FrameInv
    BY DEF HookIInv, FrameInv
  <2> QED
    BY <2>1, <2>2, HookInit, PTL DEF FrameSpec
<1> QED
  BY <1>1

(* And it owes exactly those it did not make, while no write is lost.      *)
THEOREM HookAnswersEachTick == TimerCalls = {} /\ FrameSpec => []HookExact
<1>1. CASE TimerCalls = {}
  <2>1. HookIInv /\ [FrameNext]_frameVars => HookIInv'
    BY <1>1, HookNext
  <2>2. HookIInv => HookExact
    BY OnePending DEF HookIInv, HookExact
  <2> QED
    BY <2>1, <2>2, HookInit, PTL DEF FrameSpec
<1> QED
  BY <1>1

-----------------------------------------------------------------------------
(* Sprites.  Their loops that are past a sprite, counted on the stack.     *)

Passes(f, m) == f.at = "sprite" /\ f.i > m
Passers(s, m) == {k \in DOMAIN s : Passes(s[k], m)}

(* What one such frame adds to the count.                                  *)
One(p) == IF p THEN 1 ELSE 0

LEMMA PastIsCounted ==
  ASSUME NEW m
  PROVE  Past(m) = Cardinality(Passers(stack, m)) /\ Past(m)' = Cardinality(Passers(stack', m))
BY DEF Past, Passers, Passes

(* Every loop is past the sprite before the first.                         *)
LEMMA LoopsAreCounted ==
  ASSUME NEW s \in Seq(Frames)
  PROVE  {k \in DOMAIN s : s[k].at = "sprite"} = Passers(s, -1)
<1>1. \A k \in DOMAIN s : s[k].i > -1
  <2>1. SUFFICES ASSUME NEW k \in DOMAIN s PROVE s[k].i > -1
    OBVIOUS
  <2>2. s[k] \in Frames
    OBVIOUS
  <2>3. s[k].i \in Nat
    BY <2>2 DEF Frames
  <2> QED
    BY <2>3
<1>2. \A k \in DOMAIN s : s[k].at = "sprite" <=> Passes(s[k], -1)
  BY <1>1 DEF Passes
<1> QED
  BY <1>2 DEF Passers

LEMMA PassersFinite ==
  ASSUME NEW s \in Seq(Frames), NEW m
  PROVE  /\ IsFiniteSet(Passers(s, m)) /\ Cardinality(Passers(s, m)) \in Nat
         /\ Len(s) + 1 \notin Passers(s, m)
<1>1. DOMAIN s = 1 .. Len(s) /\ Len(s) \in Nat
  OBVIOUS
<1>2. IsFiniteSet(DOMAIN s)
  BY <1>1, FS_Interval
<1>3. Passers(s, m) \subseteq DOMAIN s
  BY DEF Passers
<1>4. IsFiniteSet(Passers(s, m))
  BY <1>2, <1>3, FS_Subset
<1>5. Len(s) + 1 \notin DOMAIN s
  BY <1>1
<1> QED
  BY <1>3, <1>4, <1>5, FS_CardinalityType

LEMMA PassersPushed ==
  ASSUME NEW s \in Seq(Frames), NEW f \in Frames, NEW m
  PROVE  Cardinality(Passers(s \o <<f>>, m)) = Cardinality(Passers(s, m)) + One(Passes(f, m))
<1> DEFINE t == s \o <<f>>
<1>1. /\ t \in Seq(Frames) /\ Len(t) = Len(s) + 1 /\ t[Len(s) + 1] = f
      /\ \A k \in 1 .. Len(s) : t[k] = s[k]
  BY PushedOne
<1> HIDE DEF t
<1>2. /\ DOMAIN s = 1 .. Len(s) /\ DOMAIN t = 1 .. Len(t) /\ Len(s) \in Nat
      /\ Len(s) + 1 \in DOMAIN t
      /\ \A k \in DOMAIN t : k \in DOMAIN s \/ k = Len(s) + 1
      /\ \A k \in DOMAIN s : k \in DOMAIN t
  BY <1>1
<1>3. Passers(t, m) = Passers(s, m) \cup (IF Passes(f, m) THEN {Len(s) + 1} ELSE {})
  BY <1>1, <1>2 DEF Passers
<1>4. /\ IsFiniteSet(Passers(s, m)) /\ Cardinality(Passers(s, m)) \in Nat
      /\ Len(s) + 1 \notin Passers(s, m)
  BY PassersFinite
<1>5. CASE Passes(f, m)
  <2>1. Passers(t, m) = Passers(s, m) \cup {Len(s) + 1}
    BY <1>3, <1>5
  <2>2. Cardinality(Passers(t, m)) = Cardinality(Passers(s, m)) + 1
    BY <1>4, <2>1, FS_AddElement
  <2> QED
    BY <1>5, <2>2 DEF One, t
<1>6. CASE ~ Passes(f, m)
  <2>1. Passers(t, m) = Passers(s, m)
    BY <1>3, <1>6
  <2>2. Cardinality(Passers(t, m)) = Cardinality(Passers(s, m)) + 0
    BY <1>4, <2>1
  <2> QED
    BY <1>6, <2>2 DEF One, t
<1> QED
  BY <1>5, <1>6

LEMMA PassersPushedTwo ==
  ASSUME NEW s \in Seq(Frames), NEW f \in Frames, NEW g \in Frames, NEW m, ~ Passes(g, m)
  PROVE  Cardinality(Passers(s \o <<f, g>>, m)) = Cardinality(Passers(s, m)) + One(Passes(f, m))
<1> DEFINE t == s \o <<f>>
           u == s \o <<f, g>>
<1>1. /\ Len(t) = Len(s) + 1 /\ t[Len(s) + 1] = f /\ t \in Seq(Frames)
      /\ \A k \in 1 .. Len(s) : t[k] = s[k]
  BY PushedOne
<1>2. /\ Len(u) = Len(s) + 2 /\ u[Len(s) + 1] = f /\ u[Len(s) + 2] = g /\ u \in Seq(Frames)
      /\ \A k \in 1 .. Len(s) : u[k] = s[k]
  BY PushedTwo
<1> HIDE DEF t, u
<1>3. /\ DOMAIN t = 1 .. Len(t) /\ DOMAIN u = 1 .. Len(u) /\ Len(s) \in Nat
      /\ \A k \in DOMAIN t : k \in DOMAIN u /\ u[k] = t[k]
      /\ \A k \in DOMAIN u : k \in DOMAIN t \/ u[k] = g
  <2>1. DOMAIN t = 1 .. Len(t) /\ DOMAIN u = 1 .. Len(u) /\ Len(s) \in Nat
    BY <1>1, <1>2
  <2>2. \A k \in DOMAIN t : k \in DOMAIN u /\ (k \in 1 .. Len(s) \/ k = Len(s) + 1)
    BY <1>1, <1>2, <2>1
  <2>3. \A k \in DOMAIN u : k \in DOMAIN t \/ k = Len(s) + 2
    BY <1>1, <1>2, <2>1
  <2> QED
    BY <1>1, <1>2, <2>1, <2>2, <2>3
<1>4. Passers(u, m) = Passers(t, m)
  BY <1>3 DEF Passers
<1>5. Cardinality(Passers(t, m)) = Cardinality(Passers(s, m)) + One(Passes(f, m))
  BY PassersPushed DEF t
<1> QED
  BY <1>4, <1>5 DEF u

(* The top, and what is below it.                                          *)
LEMMA BelowAndTop ==
  ASSUME stack \in Seq(Frames), stack # <<>>
  PROVE  /\ Below \in Seq(Frames) /\ Top \in Frames /\ Len(Below) = Len(stack) - 1
         /\ \A k \in 1 .. Len(Below) : Below[k] = stack[k]
         /\ stack = Below \o <<Top>>
<1>1. Len(stack) \in Nat /\ Len(stack) >= 1 /\ Top \in Frames
  BY DEF Top
<1>2. /\ Below \in Seq(Frames) /\ Len(Below) = Len(stack) - 1
      /\ \A k \in 1 .. Len(Below) : Below[k] = stack[k]
  BY <1>1, Popped DEF Below
<1> DEFINE t == Below \o <<Top>>
<1>3. /\ t \in Seq(Frames) /\ Len(t) = Len(Below) + 1 /\ t[Len(Below) + 1] = Top
      /\ \A k \in 1 .. Len(Below) : t[k] = Below[k]
  BY <1>1, <1>2, PushedOne
<1> HIDE DEF t
<1>4. Len(t) = Len(stack) /\ Len(Below) + 1 = Len(stack)
  BY <1>1, <1>2, <1>3
<1>5. \A k \in 1 .. Len(stack) : k \in 1 .. Len(Below) \/ k = Len(stack)
  BY <1>1, <1>2
<1>6. \A k \in 1 .. Len(stack) : t[k] = stack[k]
  BY <1>2, <1>3, <1>4, <1>5 DEF Top
<1>7. t = stack
  BY <1>3, <1>4, <1>6, SeqEqual
<1> QED
  BY <1>1, <1>2, <1>7 DEF t

(* What a step makes of the count.                                         *)
LEMMA PassersReplaced ==
  ASSUME stack \in Seq(Frames), stack # <<>>, NEW m,
         NEW f \in Frames, NEW g \in Frames, ~ Passes(g, m)
  PROVE  /\ Cardinality(Passers(stack, m)) = Cardinality(Passers(Below, m)) + One(Passes(Top, m))
         /\ Cardinality(Passers(Below, m)) \in Nat
         /\ stack' \in {Below \o <<f>>, Below \o <<f, g>>} =>
              Cardinality(Passers(stack', m)) = Cardinality(Passers(Below, m)) + One(Passes(f, m))
         /\ stack' \in {stack \o <<f>>, stack \o <<f, g>>} /\ ~ Passes(f, m) =>
              Cardinality(Passers(stack', m)) = Cardinality(Passers(stack, m))
<1>1. Below \in Seq(Frames) /\ Top \in Frames /\ stack = Below \o <<Top>>
  BY BelowAndTop
<1>2. /\ Cardinality(Passers(stack, m)) \in Nat /\ Cardinality(Passers(Below, m)) \in Nat
  BY <1>1, PassersFinite
<1>3. Cardinality(Passers(stack, m)) = Cardinality(Passers(Below, m)) + One(Passes(Top, m))
  <2>1. Cardinality(Passers(Below \o <<Top>>, m)) = Cardinality(Passers(Below, m)) + One(Passes(Top, m))
    BY <1>1, PassersPushed
  <2> QED
    BY <1>1, <2>1
<1>4. ASSUME NEW s \in Seq(Frames), stack' \in {s \o <<f>>, s \o <<f, g>>}
      PROVE  Cardinality(Passers(stack', m)) = Cardinality(Passers(s, m)) + One(Passes(f, m))
  <2>1. CASE stack' = s \o <<f>>
    <3>1. Cardinality(Passers(s \o <<f>>, m)) = Cardinality(Passers(s, m)) + One(Passes(f, m))
      BY PassersPushed
    <3> QED
      BY <2>1, <3>1
  <2>2. CASE stack' = s \o <<f, g>>
    <3>1. Cardinality(Passers(s \o <<f, g>>, m)) = Cardinality(Passers(s, m)) + One(Passes(f, m))
      BY PassersPushedTwo
    <3> QED
      BY <2>2, <3>1
  <2> QED
    BY <1>4, <2>1, <2>2
<1>5. ~ Passes(f, m) => One(Passes(f, m)) = 0
  BY DEF One
<1>6. stack' \in {Below \o <<f>>, Below \o <<f, g>>} =>
        Cardinality(Passers(stack', m)) = Cardinality(Passers(Below, m)) + One(Passes(f, m))
  BY <1>1, <1>4
<1>7. stack' \in {stack \o <<f>>, stack \o <<f, g>>} /\ ~ Passes(f, m) =>
        Cardinality(Passers(stack', m)) = Cardinality(Passers(stack, m))
  <2>1. SUFFICES ASSUME stack' \in {stack \o <<f>>, stack \o <<f, g>>}, ~ Passes(f, m)
                 PROVE  Cardinality(Passers(stack', m)) = Cardinality(Passers(stack, m))
    OBVIOUS
  <2>2. Cardinality(Passers(stack', m)) = Cardinality(Passers(stack, m)) + 0
    BY <1>4, <1>5, <2>1
  <2> QED
    BY <1>2, <2>2
<1> QED
  BY <1>2, <1>3, <1>6, <1>7

(* Outside of the sprites' loop the counts stay.                           *)
OtherSteps ==
  \/ TimerTick \/ HookStep \/ ScriptStep \/ NextFrame \/ NextMap \/ RunScript

LEMMA PassersKept ==
  ASSUME FrameTypeOK, OtherSteps, NEW m
  PROVE  Cardinality(Passers(stack', m)) = Cardinality(Passers(stack, m))
<1>1. stack \in Seq(Frames) /\ stack # <<>>
  BY DEF FrameTypeOK
<1>2. \A f \in {"hook", "dec", "think"} \cup ScriptFrames : Call(f) \in Frames /\ ~ Passes(Call(f), m)
  BY NewFrames DEF Call, Passes, ScriptFrames
<1>3. CASE UNCHANGED stack
  BY <1>3
<1>4. CASE stack' = Below /\ Top.at # "sprite"
  <2>1. /\ Cardinality(Passers(stack, m)) = Cardinality(Passers(Below, m)) + One(Passes(Top, m))
        /\ Cardinality(Passers(Below, m)) \in Nat
    BY <1>1, <1>2, PassersReplaced
  <2>2. One(Passes(Top, m)) = 0
    BY <1>4 DEF One, Passes
  <2> QED
    BY <1>4, <2>1, <2>2
<1>5. CASE \E f, g \in Frames : /\ ~ Passes(f, m) /\ ~ Passes(g, m)
                                /\ stack' \in {stack \o <<f>>, stack \o <<f, g>>}
  BY <1>1, <1>5, PassersReplaced
<1>6. CASE TimerTick \/ NextMap
  BY <1>3, <1>6 DEF TimerTick, NextMap
<1>7. CASE HookStep
  <2>1. CASE HookLoop
    <3>1. stack' = stack \o <<Call("dec"), Call("timer")>> \/ (stack' = Below /\ Top.at # "sprite")
      BY <2>1 DEF HookLoop, At, CallOn, Return
    <3>2. Call("dec") \in Frames /\ Call("timer") \in Frames
          /\ ~ Passes(Call("dec"), m) /\ ~ Passes(Call("timer"), m)
      BY <1>2 DEF ScriptFrames
    <3> QED
      BY <1>4, <1>5, <3>1, <3>2
  <2>2. CASE HookCounted \/ HookCountedRacing
    BY <1>4, <2>2 DEF HookCounted, HookCountedRacing, At, Return
  <2> QED
    BY <1>7, <2>1, <2>2 DEF HookStep
<1>8. CASE NextFrame \/ CallShowPage
  <2>1. stack' = stack \o <<Call("think"), Call("hook")>>
    BY <1>8 DEF NextFrame, CallShowPage, CallOn, ShowPage
  <2> QED
    BY <1>2, <1>5, <2>1
<1>9. CASE RunScript
  <2>1. stack' = stack \o <<Call("script")>> /\ Call("script") \in Frames /\ ~ Passes(Call("script"), m)
    BY <1>2, <1>9 DEF RunScript, CallOn, ScriptFrames
  <2> QED
    BY <1>5, <2>1
<1>10. CASE ScriptReturns
  <2>1. stack' = Below /\ Top.at # "sprite"
    BY <1>10 DEF ScriptReturns, InScript, Return, ScriptFrames
  <2> QED
    BY <1>4, <2>1
<1>11. CASE \/ CallHookTimer \/ CallHookTimerRacing
            \/ CallGetSprite \/ CallSetImage \/ CallSetSprite \/ CallFreeSprite \/ CallResetSprites
  BY <1>3, <1>11 DEF CallHookTimer, CallHookTimerRacing, CallGetSprite, CallSetImage, CallSetSprite,
                     CallFreeSprite, CallResetSprites
<1> QED
  BY <1>6, <1>7, <1>8, <1>9, <1>10, <1>11 DEF OtherSteps, ScriptStep

(* Within it, the loop that is on top of the stack moves on.               *)
LEMMA PassersMove ==
  ASSUME FrameTypeOK, NEW m \in Int
  PROVE  /\ Cardinality(Passers(Below, m)) \in Nat
         /\ Cardinality(Passers(stack, m)) = Cardinality(Passers(Below, m)) + One(Passes(Top, m))
         /\ SpriteLoop /\ lastspritethink < systemtime =>
              /\ Top.at = "think"
              /\ Cardinality(Passers(stack', m)) = Cardinality(Passers(Below, m)) + One(1 > m)
         /\ SpriteLoop /\ ~ (lastspritethink < systemtime) =>
              /\ Top.at = "think"
              /\ Cardinality(Passers(stack', m)) = Cardinality(Passers(Below, m))
         /\ SkipSprite \/ SpriteTurn =>
              /\ Top.at = "sprite" /\ Top.i \in DOMAIN sprites
              /\ Cardinality(Passers(stack', m)) = Cardinality(Passers(Below, m)) + One(Top.i + 1 > m)
         /\ SpritesDone =>
              /\ Top.at = "sprite" /\ Top.i > Len(sprites)
              /\ Cardinality(Passers(stack', m)) = Cardinality(Passers(Below, m))
<1>1. stack \in Seq(Frames) /\ stack # <<>> /\ DOMAIN sprites = 1 .. Len(sprites)
  BY DEF FrameTypeOK
<1>2. /\ \A n \in Nat : /\ CallOf("sprite", n) \in Frames /\ CallOf("proc", n) \in Frames
                        /\ Passes(CallOf("sprite", n), m) <=> n > m
                        /\ ~ Passes(CallOf("proc", n), m)
      /\ Call("think") \in Frames /\ ~ Passes(Call("think"), m)
  BY NewFrames DEF Call, CallOf, Passes
<1>3. /\ Cardinality(Passers(Below, m)) \in Nat
      /\ Cardinality(Passers(stack, m)) = Cardinality(Passers(Below, m)) + One(Passes(Top, m))
  BY <1>1, <1>2, PassersReplaced
<1>4. ASSUME SpriteLoop, lastspritethink < systemtime
      PROVE  /\ Top.at = "think"
             /\ Cardinality(Passers(stack', m)) = Cardinality(Passers(Below, m)) + One(1 > m)
  <2>1. Top.at = "think" /\ stack' = Below \o <<CallOf("sprite", 1)>>
    BY <1>4 DEF SpriteLoop, At, Become
  <2>2. CallOf("sprite", 1) \in Frames /\ (Passes(CallOf("sprite", 1), m) <=> 1 > m)
    BY <1>2
  <2>3. Cardinality(Passers(stack', m)) = Cardinality(Passers(Below, m)) + One(Passes(CallOf("sprite", 1), m))
    BY <1>1, <1>2, <2>1, <2>2, PassersReplaced
  <2> QED
    BY <2>1, <2>2, <2>3 DEF One
<1>5. ASSUME SpriteLoop, ~ (lastspritethink < systemtime)
      PROVE  Top.at = "think" /\ Cardinality(Passers(stack', m)) = Cardinality(Passers(Below, m))
  BY <1>5 DEF SpriteLoop, At, Return
<1>6. ASSUME SkipSprite \/ SpriteTurn
      PROVE  /\ Top.at = "sprite" /\ Top.i \in DOMAIN sprites
             /\ Cardinality(Passers(stack', m)) = Cardinality(Passers(Below, m)) + One(Top.i + 1 > m)
  <2>1. /\ Top.at = "sprite"
        /\ \E n \in DOMAIN sprites :
             /\ n = Top.i
             /\ stack' \in {Below \o Passed(n), Below \o (Passed(n) \o <<CallOf("proc", n)>>)}
    BY <1>6 DEF SkipSprite, SpriteTurn, At, Become
  <2>2. PICK n \in DOMAIN sprites :
          /\ n = Top.i
          /\ stack' \in {Below \o Passed(n), Below \o (Passed(n) \o <<CallOf("proc", n)>>)}
    BY <2>1
  <2>3. n \in Nat /\ n + 1 \in Nat
    BY <1>1
  <2> DEFINE f == CallOf("sprite", n + 1)
             g == CallOf("proc", n)
  <2>4. f \in Frames /\ g \in Frames /\ (Passes(f, m) <=> n + 1 > m) /\ ~ Passes(g, m)
    BY <1>2, <2>3
  <2>5. <<f>> \o <<g>> = <<f, g>>
    BY <2>4, TwoFrames
  <2>6. stack' \in {Below \o <<f>>, Below \o <<f, g>>}
    BY <2>2, <2>5 DEF Passed
  <2> HIDE DEF f, g
  <2>7. Cardinality(Passers(stack', m)) = Cardinality(Passers(Below, m)) + One(Passes(f, m))
    BY <1>1, <2>4, <2>6, PassersReplaced
  <2>8. One(Passes(f, m)) = One(n + 1 > m)
    BY <2>4 DEF One
  <2> QED
    BY <2>1, <2>2, <2>7, <2>8
<1>7. ASSUME SpritesDone
      PROVE  /\ Top.at = "sprite" /\ Top.i > Len(sprites)
             /\ Cardinality(Passers(stack', m)) = Cardinality(Passers(Below, m))
  <2>1. Top.at = "sprite" /\ Top.i > Len(sprites) /\ stack' = Below \o <<Call("think")>>
    BY <1>7 DEF SpritesDone, At, Become
  <2>2. Cardinality(Passers(stack', m)) = Cardinality(Passers(Below, m)) + One(Passes(Call("think"), m))
    BY <1>1, <1>2, <2>1, PassersReplaced
  <2>3. One(Passes(Call("think"), m)) = 0
    BY <1>2 DEF One
  <2> QED
    BY <1>3, <2>1, <2>2, <2>3
<1> QED
  BY <1>3, <1>4, <1>5, <1>6, <1>7

-----------------------------------------------------------------------------
(* Each sprite has its turns.                                              *)

(* s has had a turn for each tick since it was born, if the sprites' clock *)
(* shows l and p loops are past it.                                        *)
InTurn(s, l, p) == s.image => s.timer = l + p - s.born

LEMMA InTurnEach ==
  /\ SpriteTurns <=> \A n \in DOMAIN sprites :
                         InTurn(sprites[n], lastspritethink, Cardinality(Passers(stack, n)))
  /\ SpriteTurns' <=> \A n \in DOMAIN sprites' :
                          InTurn(sprites'[n], lastspritethink', Cardinality(Passers(stack', n)))
BY PastIsCounted DEF SpriteTurns, InTurn

LEMMA TurnTaken ==
  ASSUME NEW s \in Sprite, NEW l \in Nat, NEW p \in Nat, InTurn(s, l, p), s.image, s.wait = 0
  PROVE  InTurn([s EXCEPT !.timer = @ + 1, !.thinkctr = IF ThinkDue(s) THEN 0 ELSE @ + 1], l, p + 1)
<1> DEFINE t == [s EXCEPT !.timer = @ + 1, !.thinkctr = IF ThinkDue(s) THEN 0 ELSE @ + 1]
<1>1. s.timer \in Nat /\ s.born \in Int /\ t.timer = s.timer + 1 /\ t.born = s.born
  BY DEF Sprite
<1> HIDE DEF t
<1> QED
  BY <1>1 DEF InTurn, t

LEMMA TurnWaited ==
  ASSUME NEW s \in Sprite, NEW l \in Nat, NEW p \in Nat, InTurn(s, l, p)
  PROVE  InTurn([s EXCEPT !.wait = @ - 1, !.born = @ + 1], l, p + 1)
<1> DEFINE t == [s EXCEPT !.wait = @ - 1, !.born = @ + 1]
<1>1. /\ s.timer \in Nat /\ s.born \in Int
      /\ t.timer = s.timer /\ t.born = s.born + 1 /\ t.image = s.image
  BY DEF Sprite
<1> HIDE DEF t
<1> QED
  BY <1>1 DEF InTurn, t

(* The steps of the loop over the sprites: sprite n is passed by one loop  *)
(* more, or one loop comes to its end and the clock moves.                 *)
LEMMA LoopInTurn ==
  ASSUME FrameTypeOK, SpriteTurns, SpriteStep
  PROVE  SpriteTurns'
<1>1. /\ DOMAIN sprites = 1 .. Len(sprites) /\ Len(sprites) \in Nat
      /\ \A n \in DOMAIN sprites : sprites[n] \in Sprite /\ n \in Nat /\ n \in Int /\ n >= 1
      /\ lastspritethink \in Nat /\ systemtime \in Nat
      /\ Top.i \in Nat
  <2>1. Top.i \in Nat
    BY StackFacts DEF Frames
  <2> QED
    BY <2>1, FrameAssumption DEF FrameTypeOK
<1> DEFINE Now(n) == Cardinality(Passers(stack, n))
           Then(n) == Cardinality(Passers(stack', n))
           Base(n) == Cardinality(Passers(Below, n))
<1>2. \A n \in DOMAIN sprites : InTurn(sprites[n], lastspritethink, Now(n))
  BY InTurnEach
<1>3. \A n \in DOMAIN sprites : Base(n) \in Nat /\ Now(n) = Base(n) + One(Passes(Top, n))
  BY <1>1, PassersMove
<1>4. CASE SpriteLoop
  <2>1. sprites' = sprites /\ lastspritethink' = lastspritethink
    BY <1>4 DEF SpriteLoop, spriteVars
  <2>2. ASSUME NEW n \in DOMAIN sprites PROVE Then(n) = Now(n)
    <3>1. Top.at = "think" /\ (Then(n) = Base(n) + One(1 > n) \/ Then(n) = Base(n))
      BY <1>1, <1>4, PassersMove
    <3>2. One(1 > n) = 0 /\ One(Passes(Top, n)) = 0
      BY <1>1, <3>1 DEF One, Passes
    <3> QED
      BY <1>3, <3>1, <3>2
  <2> QED
    BY <1>2, <2>1, <2>2, InTurnEach
<1>5. CASE SkipSprite \/ SpriteTurn
  <2>1. PICK k \in DOMAIN sprites :
          /\ k = Top.i
          /\ \/ ~ sprites[k].image /\ sprites' = sprites
             \/ sprites' = [sprites EXCEPT ![k].wait = @ - 1, ![k].born = @ + 1]
             \/ /\ sprites[k].image /\ sprites[k].wait = 0
                /\ sprites' = [sprites EXCEPT ![k].timer = @ + 1,
                                ![k].thinkctr = IF ThinkDue(sprites[k]) THEN 0 ELSE @ + 1]
    BY <1>5 DEF SkipSprite, SpriteTurn
  <2>2. lastspritethink' = lastspritethink /\ DOMAIN sprites' = DOMAIN sprites
    BY <1>5, <2>1 DEF SkipSprite, SpriteTurn
  <2>3. ASSUME NEW n \in DOMAIN sprites
        PROVE  Then(n) = Now(n) + One(n = k)
    <3>1. Top.at = "sprite" /\ Then(n) = Base(n) + One(k + 1 > n)
      BY <1>1, <1>5, <2>1, PassersMove
    <3>2. One(k + 1 > n) = One(Passes(Top, n)) + One(n = k)
      <4>1. Passes(Top, n) <=> k > n
        BY <2>1, <3>1 DEF Passes
      <4>2. k \in Nat /\ n \in Nat
        BY <1>1
      <4> QED
        BY <4>1, <4>2 DEF One
    <3>3. One(Passes(Top, n)) \in Nat /\ One(n = k) \in Nat
      BY DEF One
    <3> QED
      BY <1>3, <3>1, <3>2, <3>3
  <2>4. ASSUME NEW n \in DOMAIN sprites, n # k
        PROVE  InTurn(sprites'[n], lastspritethink', Then(n))
    <3>1. sprites'[n] = sprites[n]
      BY <2>1, <2>4
    <3>2. Then(n) = Now(n)
      <4>1. One(n = k) = 0 /\ Now(n) \in Nat
        <5>1. Passes(Top, n) \in BOOLEAN => One(Passes(Top, n)) \in Nat
          BY DEF One
        <5>2. One(Passes(Top, n)) \in Nat
          BY DEF One
        <5> QED
          BY <1>3, <2>4, <5>2 DEF One
      <4> QED
        BY <2>3, <4>1
    <3> QED
      BY <1>2, <2>2, <3>1, <3>2
  <2>5. InTurn(sprites'[k], lastspritethink', Then(k))
    <3>1. Then(k) = Now(k) + 1 /\ Now(k) \in Nat
      <4>1. One(k = k) = 1 /\ One(Passes(Top, k)) \in Nat
        BY DEF One
      <4> QED
        BY <1>3, <2>3, <4>1
    <3>2. sprites[k] \in Sprite /\ InTurn(sprites[k], lastspritethink, Now(k))
      BY <1>1, <1>2
    <3>3. CASE ~ sprites[k].image /\ sprites' = sprites
      BY <2>2, <3>2, <3>3 DEF InTurn
    <3>4. CASE sprites' = [sprites EXCEPT ![k].wait = @ - 1, ![k].born = @ + 1]
      <4>1. sprites'[k] = [sprites[k] EXCEPT !.wait = @ - 1, !.born = @ + 1]
        BY <3>2, <3>4 DEF Sprite
      <4>2. InTurn([sprites[k] EXCEPT !.wait = @ - 1, !.born = @ + 1], lastspritethink, Now(k) + 1)
        BY <1>1, <3>1, <3>2, TurnWaited
      <4> QED
        BY <2>2, <3>1, <4>1, <4>2
    <3>5. CASE /\ sprites[k].image /\ sprites[k].wait = 0
               /\ sprites' = [sprites EXCEPT ![k].timer = @ + 1,
                                ![k].thinkctr = IF ThinkDue(sprites[k]) THEN 0 ELSE @ + 1]
      <4>1. sprites'[k] = [sprites[k] EXCEPT !.timer = @ + 1,
                             !.thinkctr = IF ThinkDue(sprites[k]) THEN 0 ELSE @ + 1]
        BY <3>2, <3>5 DEF Sprite
      <4>2. InTurn([sprites[k] EXCEPT !.timer = @ + 1,
                      !.thinkctr = IF ThinkDue(sprites[k]) THEN 0 ELSE @ + 1],
                   lastspritethink, Now(k) + 1)
        BY <1>1, <3>1, <3>2, <3>5, TurnTaken
      <4> QED
        BY <2>2, <3>1, <4>1, <4>2
    <3> QED
      BY <2>1, <3>3, <3>4, <3>5
  <2> QED
    BY <2>2, <2>4, <2>5, InTurnEach
<1>6. CASE SpritesDone
  <2>1. sprites' = sprites /\ lastspritethink' = lastspritethink + 1
    BY <1>6 DEF SpritesDone
  <2>2. ASSUME NEW n \in DOMAIN sprites
        PROVE  InTurn(sprites[n], lastspritethink + 1, Then(n))
    <3>1. Top.at = "sprite" /\ Top.i > Len(sprites) /\ Then(n) = Base(n)
      BY <1>1, <1>6, PassersMove
    <3>2. One(Passes(Top, n)) = 1
      <4>1. Top.i > n
        BY <1>1, <3>1
      <4> QED
        BY <3>1, <4>1 DEF One, Passes
    <3>3. Now(n) = Then(n) + 1 /\ Then(n) \in Nat
      BY <1>3, <3>1, <3>2
    <3>4. sprites[n].timer \in Nat /\ sprites[n].born \in Int
      BY <1>1 DEF Sprite
    <3>5. InTurn(sprites[n], lastspritethink, Now(n))
      BY <1>2
    <3> HIDE DEF Now, Then
    <3> QED
      BY <1>1, <3>3, <3>4, <3>5 DEF InTurn
  <2> QED
    BY <2>1, <2>2, InTurnEach
<1> QED
  BY <1>4, <1>5, <1>6 DEF SpriteStep

(* All other steps: scripts give and take sprites, a map begins.           *)
LEMMA ScriptsInTurn ==
  ASSUME FrameTypeOK, SpriteTurns, OtherSteps
  PROVE  SpriteTurns'
<1>1. /\ sprites \in Seq(Sprite)
      /\ DOMAIN sprites = 1 .. Len(sprites) /\ Len(sprites) \in Nat
      /\ \A n \in DOMAIN sprites : sprites[n] \in Sprite
      /\ lastspritethink \in Nat /\ systemtime \in Nat
  BY FrameAssumption DEF FrameTypeOK
<1> DEFINE Now(n) == Cardinality(Passers(stack, n))
           Then(n) == Cardinality(Passers(stack', n))
<1>2. \A n \in DOMAIN sprites : InTurn(sprites[n], lastspritethink, Now(n))
  BY InTurnEach
<1>3. \A n : Then(n) = Now(n)
  BY PassersKept
<1>4. \A n : Now(n) \in Nat
  <2>1. stack \in Seq(Frames)
    BY DEF FrameTypeOK
  <2> QED
    BY <2>1, PassersFinite
<1> HIDE DEF Now, Then
<1>5. SpriteTurns' <=> \A n \in DOMAIN sprites' : InTurn(sprites'[n], lastspritethink', Now(n))
  BY <1>3, InTurnEach DEF Now, Then
<1>6. \A p : InTurn(NewSprite, lastspritethink, p)
  BY DEF NewSprite, InTurn
<1>7. CASE UNCHANGED <<sprites, lastspritethink>>
  BY <1>2, <1>5, <1>7
<1>8. CASE NextMap
  <2>1. /\ lastspritethink' = systemtime
        /\ sprites' = [n \in DOMAIN sprites |->
                         [sprites[n] EXCEPT !.born = Born(sprites[n], systemtime - lastspritethink)]]
    BY <1>8 DEF NextMap
  <2>2. ASSUME NEW n \in DOMAIN sprites
        PROVE  InTurn(sprites'[n], systemtime, Now(n))
    <3>1. sprites[n] \in Sprite /\ sprites[n].timer \in Nat /\ sprites[n].born \in Int
      BY <1>1 DEF Sprite
    <3>2. InTurn(sprites[n], lastspritethink, Now(n)) /\ Now(n) \in Nat
      BY <1>2, <1>4
    <3>3. sprites'[n] = [sprites[n] EXCEPT !.born = Born(sprites[n], systemtime - lastspritethink)]
      BY <2>1
    <3>4. /\ sprites'[n].timer = sprites[n].timer /\ sprites'[n].image = sprites[n].image
          /\ sprites[n].image =>
               sprites'[n].born = sprites[n].born + (systemtime - lastspritethink)
      BY <3>1, <3>3 DEF Sprite, Born
    <3> QED
      BY <1>1, <3>1, <3>2, <3>4 DEF InTurn
  <2>3. DOMAIN sprites' = DOMAIN sprites
    BY <2>1
  <2> QED
    BY <1>5, <2>1, <2>2, <2>3
<1>9. CASE CallGetSprite
  <2>1. /\ lastspritethink' = lastspritethink
        /\ \/ \E n \in Free : sprites' = [sprites EXCEPT ![n] = NewSprite]
           \/ sprites' = Append(sprites, NewSprite)
    BY <1>9 DEF CallGetSprite
  <2>2. ASSUME NEW n \in DOMAIN sprites'
        PROVE  sprites'[n] = NewSprite \/ (n \in DOMAIN sprites /\ sprites'[n] = sprites[n])
    <3>1. CASE \E k \in Free : sprites' = [sprites EXCEPT ![k] = NewSprite]
      BY <3>1 DEF Free
    <3>2. CASE sprites' = Append(sprites, NewSprite)
      BY <1>1, <3>2
    <3> QED
      BY <2>1, <3>1, <3>2
  <2> QED
    BY <1>2, <1>5, <1>6, <2>1, <2>2
<1>10. CASE CallSetImage
  <2>1. PICK k \in Free :
          sprites' = [sprites EXCEPT ![k].image = TRUE,
                                     ![k].born = lastspritethink + Past(k) - sprites[k].timer]
    BY <1>10 DEF CallSetImage
  <2>2. lastspritethink' = lastspritethink /\ k \in DOMAIN sprites /\ Past(k) = Now(k)
    BY <1>10, PastIsCounted DEF CallSetImage, Free, Now
  <2>3. sprites[k] \in Sprite /\ sprites[k].timer \in Nat /\ Now(k) \in Nat
    BY <1>1, <1>4, <2>2 DEF Sprite
  <2>4. InTurn(sprites'[k], lastspritethink, Now(k))
    <3>1. /\ sprites'[k].timer = sprites[k].timer
          /\ sprites'[k].born = lastspritethink + Now(k) - sprites[k].timer
      BY <2>1, <2>2, <2>3 DEF Sprite
    <3> QED
      BY <1>1, <2>3, <3>1 DEF InTurn
  <2>5. DOMAIN sprites' = DOMAIN sprites /\ \A n \in DOMAIN sprites : n # k => sprites'[n] = sprites[n]
    BY <2>1
  <2> QED
    BY <1>2, <1>5, <2>2, <2>4, <2>5
<1>13. CASE CallSetSprite
  <2>1. PICK k \in DOMAIN sprites :
          \/ \E rate \in 0 .. MaxRate : sprites' = [sprites EXCEPT ![k].thinkrate = rate]
          \/ \E w \in 0 .. MaxWait : sprites' = [sprites EXCEPT ![k].wait = w]
          \/ \E t \in 0 .. MaxWait :
               sprites' = [sprites EXCEPT ![k].timer = t,
                                          ![k].born = Born(sprites[k], sprites[k].timer - t)]
    BY <1>13 DEF CallSetSprite
  <2>2. lastspritethink' = lastspritethink
    BY <1>13 DEF CallSetSprite
  <2>3. /\ sprites[k] \in Sprite /\ sprites[k].timer \in Nat /\ sprites[k].born \in Int
        /\ Now(k) \in Nat /\ InTurn(sprites[k], lastspritethink, Now(k))
    BY <1>1, <1>2, <1>4 DEF Sprite
  <2>4. InTurn(sprites'[k], lastspritethink, Now(k))
    <3>1. CASE /\ sprites'[k].timer = sprites[k].timer /\ sprites'[k].image = sprites[k].image
               /\ sprites'[k].born = sprites[k].born
      BY <2>3, <3>1 DEF InTurn
    <3>2. CASE \E t \in 0 .. MaxWait :
                 sprites' = [sprites EXCEPT ![k].timer = t,
                                            ![k].born = Born(sprites[k], sprites[k].timer - t)]
      <4>1. PICK t \in 0 .. MaxWait :
              sprites' = [sprites EXCEPT ![k].timer = t,
                                         ![k].born = Born(sprites[k], sprites[k].timer - t)]
        BY <3>2
      <4>2. t \in Nat
        BY FrameAssumption
      <4>3. PICK b : b = Born(sprites[k], sprites[k].timer - t)
        OBVIOUS
      <4>4. sprites'[k] = [sprites[k] EXCEPT !.timer = t, !.born = b]
        BY <1>1, <4>1, <4>3
      <4>5. sprites'[k].timer = t /\ sprites'[k].image = sprites[k].image /\ sprites'[k].born = b
        BY <2>3, <4>4 DEF Sprite
      <4>6. sprites[k].image => b = sprites[k].born + (sprites[k].timer - t)
        BY <4>3 DEF Born
      <4>7. PICK a \in Nat, c \in Int, p \in Nat :
              a = sprites[k].timer /\ c = sprites[k].born /\ p = Now(k)
        BY <2>3
      <4>8. a = lastspritethink + p - c => t = lastspritethink + p - (c + (a - t))
        BY <1>1, <4>2
      <4>9. sprites'[k].image => a = lastspritethink + p - c
        BY <2>3, <4>5, <4>7 DEF InTurn
      <4> QED
        BY <4>5, <4>6, <4>7, <4>8, <4>9 DEF InTurn
    <3>3. ASSUME \/ \E rate \in 0 .. MaxRate : sprites' = [sprites EXCEPT ![k].thinkrate = rate]
                 \/ \E w \in 0 .. MaxWait : sprites' = [sprites EXCEPT ![k].wait = w]
          PROVE  /\ sprites'[k].timer = sprites[k].timer /\ sprites'[k].image = sprites[k].image
                 /\ sprites'[k].born = sprites[k].born
      BY <2>3, <3>3 DEF Sprite
    <3> QED
      BY <2>1, <3>1, <3>2, <3>3
  <2>5. DOMAIN sprites' = DOMAIN sprites /\ \A n \in DOMAIN sprites : n # k => sprites'[n] = sprites[n]
    BY <2>1
  <2> QED
    BY <1>2, <1>5, <2>2, <2>4, <2>5
<1>11. CASE CallFreeSprite
  <2>1. PICK k \in DOMAIN sprites : sprites' = [sprites EXCEPT ![k].image = FALSE, ![k].born = 0]
    BY <1>11 DEF CallFreeSprite
  <2>2. ASSUME NEW n \in DOMAIN sprites
        PROVE  InTurn(sprites'[n], lastspritethink, Now(n))
    <3>1. CASE n # k
      BY <1>2, <2>1, <3>1
    <3>2. CASE n = k
      <4>1. sprites'[n].image = FALSE
        BY <1>1, <2>1, <3>2 DEF Sprite
      <4> QED
        BY <4>1 DEF InTurn
    <3> QED
      BY <3>1, <3>2
  <2>3. lastspritethink' = lastspritethink /\ DOMAIN sprites' = DOMAIN sprites
    BY <1>11, <2>1 DEF CallFreeSprite
  <2> QED
    BY <1>5, <2>2, <2>3
<1>12. CASE CallResetSprites
  <2>1. DOMAIN sprites' = {}
    BY <1>12 DEF CallResetSprites
  <2> QED
    BY <1>5, <2>1
<1> QED
  BY <1>7, <1>8, <1>9, <1>10, <1>11, <1>12, <1>13
     DEF OtherSteps, HookStep, ScriptStep, TimerTick, HookLoop, HookCounted, HookCountedRacing,
         NextFrame, RunScript, ScriptReturns, CallShowPage, CallHookTimer, CallHookTimerRacing,
         spriteVars

(* Every sprite has one turn for each tick the sprites' clock moves while  *)
(* it does not wait, and its timer counts them, for any number of sprites  *)
(* and ticks, frames drawn within frames, and rates, waits and timers that *)
(* scripts write at any time.                                              *)
THEOREM SpritesHaveTheirTurns == TimerCalls = {} /\ FrameSpec => []SpriteTurns
<1>1. CASE TimerCalls = {}
  <2>1. HookIInv /\ [FrameNext]_frameVars => HookIInv'
    BY <1>1, HookNext
  <2>2. FrameInit => SpriteTurns
    BY DEF FrameInit, SpriteTurns
  <2>3. HookIInv /\ SpriteTurns /\ [FrameNext]_frameVars => SpriteTurns'
    <3> SUFFICES ASSUME HookIInv, SpriteTurns, [FrameNext]_frameVars PROVE SpriteTurns'
      OBVIOUS
    <3>1. FrameTypeOK
      BY DEF HookIInv
    <3>2. CASE UNCHANGED frameVars
      BY <3>2 DEF frameVars, SpriteTurns, Past
    <3>3. CASE SpriteStep
      BY <3>1, <3>3, LoopInTurn
    <3>4. CASE OtherSteps
      BY <3>1, <3>4, ScriptsInTurn
    <3> QED
      BY <3>2, <3>3, <3>4 DEF FrameNext, OtherSteps
  <2> QED
    BY <2>1, <2>2, <2>3, HookInit, PTL DEF FrameSpec
<1> QED
  BY <1>1

-----------------------------------------------------------------------------
(* Loops within loops.                                                     *)

(* TimedProcessSprites, wherever it has got to.                            *)
Stage == {"think", "sprite"}

Callers(s, k) == {j \in 1 .. (k - 1) : s[j].at \in ScriptFrames}

(* A frame is where the engine puts it: such a call is right above the     *)
(* engine's own loop or a script that may still draw a frame.              *)
RootedAt(s, k) ==
  /\ s[k].at = "main" => k = 1
  /\ s[k].at \in Stage =>
       /\ k > 1 /\ s[k - 1].at \in ScriptFrames \cup {"main"}
       /\ Cardinality(Callers(s, k)) < MaxNest

Rooted(s) == \A k \in 1 .. Len(s) : RootedAt(s, k)

(* Frames that may be anywhere.                                            *)
Loose(f) == f.at \notin Stage \cup {"main"}

(* It depends on what is below only.                                       *)
LEMMA SameRoots ==
  ASSUME NEW s, NEW t, NEW k \in Nat \ {0}, RootedAt(s, k),
         \A j \in 1 .. (k - 1) : t[j] = s[j],
         t[k].at = s[k].at \/ (s[k].at \in Stage /\ t[k].at \in Stage)
  PROVE  RootedAt(t, k)
<1>1. Callers(t, k) = Callers(s, k)
  BY DEF Callers
<1>2. k > 1 => k - 1 \in 1 .. (k - 1)
  OBVIOUS
<1>3. "main" \notin Stage
  BY DEF Stage
<1>4. t[k].at = "main" => k = 1
  BY <1>3 DEF RootedAt
<1>5. ASSUME t[k].at \in Stage
      PROVE  /\ k > 1 /\ t[k - 1].at \in ScriptFrames \cup {"main"}
             /\ Cardinality(Callers(t, k)) < MaxNest
  <2>1. s[k].at \in Stage
    BY <1>5
  <2>2. /\ k > 1 /\ s[k - 1].at \in ScriptFrames \cup {"main"}
        /\ Cardinality(Callers(s, k)) < MaxNest
    BY <2>1 DEF RootedAt
  <2>3. t[k - 1] = s[k - 1]
    BY <1>2, <2>2
  <2> QED
    BY <1>1, <2>2, <2>3
<1> QED
  BY <1>4, <1>5 DEF RootedAt

LEMMA RootedPushed ==
  ASSUME NEW s \in Seq(Frames), Rooted(s), NEW f \in Frames,
         Loose(f) \/ RootedAt(s \o <<f>>, Len(s) + 1)
  PROVE  Rooted(s \o <<f>>)
<1> DEFINE t == s \o <<f>>
<1>1. /\ t \in Seq(Frames) /\ Len(t) = Len(s) + 1 /\ t[Len(s) + 1] = f
      /\ \A k \in 1 .. Len(s) : t[k] = s[k]
  BY PushedOne
<1>2. Loose(f) \/ RootedAt(t, Len(s) + 1)
  OBVIOUS
<1> HIDE DEF t
<1>3. SUFFICES ASSUME NEW k \in 1 .. Len(t) PROVE RootedAt(t, k)
  BY DEF Rooted, t
<1>4. Len(s) \in Nat
  OBVIOUS
<1>5. CASE k = Len(s) + 1
  <2>1. CASE Loose(f)
    BY <1>1, <1>5, <2>1 DEF RootedAt, Loose
  <2> QED
    BY <1>2, <1>5, <2>1
<1>6. CASE k # Len(s) + 1
  <2>1. k \in 1 .. Len(s) /\ k \in Nat \ {0} /\ \A j \in 1 .. (k - 1) : j \in 1 .. Len(s)
    BY <1>1, <1>4, <1>6
  <2>2. RootedAt(s, k)
    BY <2>1 DEF Rooted
  <2>3. t[k].at = s[k].at /\ \A j \in 1 .. (k - 1) : t[j] = s[j]
    BY <1>1, <2>1
  <2> QED
    BY <2>1, <2>2, <2>3, SameRoots
<1> QED
  BY <1>5, <1>6

LEMMA RootedPushedTwo ==
  ASSUME NEW s \in Seq(Frames), Rooted(s), NEW f \in Frames, NEW g \in Frames, Loose(g),
         Loose(f) \/ RootedAt(s \o <<f>>, Len(s) + 1)
  PROVE  Rooted(s \o <<f, g>>)
<1> DEFINE t == s \o <<f>>
           u == t \o <<g>>
           v == s \o <<f, g>>
<1>1. t \in Seq(Frames) /\ Rooted(t) /\ Rooted(u)
  <2>1. t \in Seq(Frames) /\ Rooted(t)
    BY RootedPushed, PushedOne
  <2> HIDE DEF t
  <2> QED
    BY <2>1, RootedPushed
<1>2. /\ Len(t) = Len(s) + 1 /\ t[Len(s) + 1] = f
      /\ \A k \in 1 .. Len(s) : t[k] = s[k]
  BY PushedOne
<1>3. /\ v \in Seq(Frames) /\ Len(v) = Len(s) + 2
      /\ v[Len(s) + 1] = f /\ v[Len(s) + 2] = g
      /\ \A k \in 1 .. Len(s) : v[k] = s[k]
  BY PushedTwo
<1> HIDE DEF t, v
<1>4. /\ u \in Seq(Frames) /\ Len(u) = Len(t) + 1 /\ u[Len(t) + 1] = g
      /\ \A k \in 1 .. Len(t) : u[k] = t[k]
  BY <1>1, PushedOne
<1> HIDE DEF u
<1>5. Len(u) = Len(v) /\ Len(t) + 1 = Len(s) + 2 /\ Len(s) \in Nat
  BY <1>2, <1>3, <1>4
<1>6. \A k \in 1 .. Len(v) : k \in 1 .. Len(s) \/ k = Len(s) + 1 \/ k = Len(s) + 2
  BY <1>3, <1>5
<1>7. \A k \in 1 .. Len(v) : u[k] = v[k]
  <2>1. \A k \in 1 .. Len(s) : k \in 1 .. Len(t)
    BY <1>2, <1>5
  <2>2. Len(s) + 1 \in 1 .. Len(t)
    BY <1>2, <1>5
  <2> QED
    BY <1>2, <1>3, <1>4, <1>5, <1>6, <2>1, <2>2
<1>8. u = v
  BY <1>3, <1>4, <1>5, <1>7, SeqEqual
<1> QED
  BY <1>1, <1>8 DEF v

LEMMA RootedBelow ==
  ASSUME stack \in Seq(Frames), stack # <<>>, Rooted(stack)
  PROVE  Rooted(Below)
<1>1. /\ Len(stack) \in Nat /\ Len(Below) = Len(stack) - 1
      /\ \A k \in 1 .. Len(Below) : Below[k] = stack[k]
  BY BelowAndTop
<1>2. SUFFICES ASSUME NEW k \in 1 .. Len(Below) PROVE RootedAt(Below, k)
  BY DEF Rooted
<1>3. /\ k \in 1 .. Len(stack) /\ k \in Nat \ {0}
      /\ \A j \in 1 .. (k - 1) : j \in 1 .. Len(Below)
  BY <1>1
<1>4. RootedAt(stack, k)
  BY <1>3 DEF Rooted
<1>5. Below[k].at = stack[k].at /\ \A j \in 1 .. (k - 1) : Below[j] = stack[j]
  BY <1>1, <1>3
<1> QED
  BY <1>3, <1>4, <1>5, SameRoots

(* A call of TimedProcessSprites is put on the engine's loop, or on a      *)
(* script; below it there may be one script less than MaxNest.             *)
LEMMA ShowPageRooted ==
  ASSUME FrameTypeOK, Rooted(stack),
         Top.at = "main" \/ (Top.at \in ScriptFrames /\ Depth < MaxNest)
  PROVE  RootedAt(stack \o <<Call("think")>>, Len(stack) + 1)
<1>1. /\ stack \in Seq(Frames) /\ Len(stack) \in Nat /\ Len(stack) >= 1
      /\ stack[1] = Call("main") /\ Call("think") \in Frames
      /\ DOMAIN stack = 1 .. Len(stack) /\ Len(stack) \in 1 .. Len(stack)
  BY StackFacts, NewFrames
<1> DEFINE t == stack \o <<Call("think")>>
<1>2. /\ t \in Seq(Frames) /\ t[Len(stack) + 1] = Call("think")
      /\ \A k \in 1 .. Len(stack) : t[k] = stack[k]
  BY <1>1, PushedOne
<1> HIDE DEF t
<1>3. Callers(t, Len(stack) + 1) = {k \in DOMAIN stack : stack[k].at \in ScriptFrames}
  <2>1. (Len(stack) + 1) - 1 = Len(stack)
    BY <1>1
  <2> QED
    BY <1>1, <1>2, <2>1 DEF Callers
<1>4. Cardinality(Callers(t, Len(stack) + 1)) < MaxNest
  <2>1. CASE Top.at = "main"
    <3>1. Len(stack) = 1
      BY <1>1, <2>1 DEF Rooted, RootedAt, Top
    <3>2. \A k \in DOMAIN stack : stack[k].at = "main"
      BY <1>1, <2>1, <3>1 DEF Top
    <3>3. Callers(t, Len(stack) + 1) = {}
      BY <1>3, <3>2 DEF ScriptFrames
    <3>4. Cardinality(Callers(t, Len(stack) + 1)) = 0
      BY <3>3, FS_EmptySet
    <3> QED
      BY <3>4, FrameAssumption
  <2>2. CASE Depth < MaxNest
    BY <1>3, <2>2 DEF Depth
  <2> QED
    BY <2>1, <2>2
<1>5. (Len(stack) + 1) - 1 = Len(stack) /\ Len(stack) + 1 > 1
  BY <1>1
<1>6. t[Len(stack) + 1].at = "think" /\ t[Len(stack)].at \in ScriptFrames \cup {"main"}
  BY <1>1, <1>2 DEF Call, Top
<1>7. RootedAt(t, Len(stack) + 1)
  BY <1>4, <1>5, <1>6 DEF RootedAt
<1> QED
  BY <1>7 DEF t

LEMMA RootedStep ==
  ASSUME FrameTypeOK, Rooted(stack), FrameNext
  PROVE  Rooted(stack')
<1>1. stack \in Seq(Frames) /\ stack # <<>> /\ Len(stack) \in Nat /\ Len(stack) >= 1
  BY DEF FrameTypeOK
<1>2. /\ Below \in Seq(Frames) /\ Rooted(Below) /\ Len(Below) = Len(stack) - 1
      /\ \A k \in 1 .. Len(Below) : Below[k] = stack[k]
  BY <1>1, BelowAndTop, RootedBelow
<1>3. \A f \in {"hook", "dec"} \cup ScriptFrames : Call(f) \in Frames /\ Loose(Call(f))
  BY NewFrames DEF Call, Loose, Stage, ScriptFrames
<1>4. CASE UNCHANGED stack
  BY <1>4
<1>5. CASE stack' = Below
  BY <1>2, <1>5
<1>6. CASE \E f, g \in Frames : Loose(f) /\ Loose(g) /\ stack' \in {stack \o <<f>>, stack \o <<f, g>>}
  BY <1>1, <1>6, RootedPushed, RootedPushedTwo
<1>7. CASE NextFrame \/ CallShowPage
  <2>1. /\ stack' = stack \o <<Call("think"), Call("hook")>>
        /\ Top.at = "main" \/ (Top.at \in ScriptFrames /\ Depth < MaxNest)
    BY <1>7 DEF NextFrame, CallShowPage, CallOn, ShowPage, At, MayCall, InScript
  <2>2. RootedAt(stack \o <<Call("think")>>, Len(stack) + 1)
    BY <2>1, ShowPageRooted
  <2>3. Call("think") \in Frames /\ Call("hook") \in Frames /\ Loose(Call("hook"))
    BY <1>3, NewFrames
  <2>4. Rooted(stack \o <<Call("think"), Call("hook")>>)
    BY <1>1, <2>2, <2>3, RootedPushedTwo
  <2> QED
    BY <2>1, <2>4
<1>8. CASE Top.at \in Stage /\ \E f, g \in Frames :
             f.at \in Stage /\ Loose(g) /\ stack' \in {Below \o <<f>>, Below \o <<f, g>>}
  <2>1. PICK f \in Frames, g \in Frames :
          f.at \in Stage /\ Loose(g) /\ stack' \in {Below \o <<f>>, Below \o <<f, g>>}
    BY <1>8
  <2> DEFINE t == Below \o <<f>>
             n == Len(Below) + 1
  <2>2. /\ t[n] = f /\ \A k \in 1 .. Len(Below) : t[k] = Below[k]
    BY <1>2, PushedOne
  <2> HIDE DEF t
  <2>3. n = Len(stack) /\ n \in Nat \ {0} /\ n - 1 = Len(Below) /\ n \in 1 .. Len(stack)
    BY <1>1, <1>2
  <2>4. RootedAt(stack, n) /\ stack[n].at \in Stage
    BY <1>8, <2>3 DEF Rooted, Top
  <2>5. \A j \in 1 .. (n - 1) : t[j] = stack[j]
    BY <1>2, <2>2, <2>3
  <2>6. RootedAt(t, n)
    <3>1. t[n].at \in Stage
      BY <2>1, <2>2
    <3> HIDE DEF n
    <3> QED
      BY <2>3, <2>4, <2>5, <3>1, SameRoots
  <2>7. RootedAt(Below \o <<f>>, Len(Below) + 1)
    BY <2>6 DEF t
  <2>8. Rooted(Below \o <<f>>) /\ Rooted(Below \o <<f, g>>)
    BY <1>2, <2>1, <2>7, RootedPushed, RootedPushedTwo
  <2> QED
    BY <2>1, <2>8
<1>9. CASE HookStep
  <2>1. stack' = Below \/ stack' = stack \o <<Call("dec"), Call("timer")>>
    BY <1>9 DEF HookStep, HookLoop, HookCounted, HookCountedRacing, Return, CallOn
  <2>2. /\ Call("dec") \in Frames /\ Call("timer") \in Frames
        /\ Loose(Call("dec")) /\ Loose(Call("timer"))
    BY <1>3 DEF ScriptFrames
  <2> QED
    BY <1>5, <1>6, <2>1, <2>2
<1>10. CASE RunScript
  <2>1. stack' = stack \o <<Call("script")>> /\ Call("script") \in Frames /\ Loose(Call("script"))
    BY <1>3, <1>10 DEF RunScript, CallOn, ScriptFrames
  <2> QED
    BY <1>6, <2>1
<1>11. \A n \in Nat : /\ CallOf("sprite", n) \in Frames /\ CallOf("sprite", n).at \in Stage
                      /\ CallOf("proc", n) \in Frames /\ Loose(CallOf("proc", n))
  BY NewFrames DEF CallOf, Loose, Stage
<1>12. CASE SpriteLoop
  <2>1. Top.at \in Stage /\ (stack' = Below \/ stack' = Below \o <<CallOf("sprite", 1)>>)
    BY <1>12 DEF SpriteLoop, At, Become, Return, Stage
  <2> QED
    BY <1>5, <1>8, <1>11, <2>1
<1>13. CASE SkipSprite \/ SpriteTurn
  <2>1. /\ Top.at = "sprite"
        /\ \E n \in DOMAIN sprites :
             stack' \in {Below \o Passed(n), Below \o (Passed(n) \o <<CallOf("proc", n)>>)}
    BY <1>13 DEF SkipSprite, SpriteTurn, At, Become
  <2>2. PICK n \in Nat :
          stack' \in {Below \o Passed(n), Below \o (Passed(n) \o <<CallOf("proc", n)>>)}
    <3>1. \A n \in DOMAIN sprites : n \in Nat
      BY DEF FrameTypeOK
    <3> QED
      BY <2>1, <3>1
  <2> DEFINE f == CallOf("sprite", n + 1)
             g == CallOf("proc", n)
  <2>3. f \in Frames /\ f.at \in Stage /\ g \in Frames /\ Loose(g)
    <3>1. n + 1 \in Nat
      OBVIOUS
    <3> QED
      BY <1>11, <3>1
  <2>4. <<f>> \o <<g>> = <<f, g>>
    BY <2>3, TwoFrames
  <2>5. stack' \in {Below \o <<f>>, Below \o <<f, g>>} /\ Top.at \in Stage
    BY <2>1, <2>2, <2>4 DEF Passed, Stage
  <2> HIDE DEF f, g
  <2> QED
    BY <1>8, <2>3, <2>5
<1>14. CASE SpritesDone
  <2>1. Top.at \in Stage /\ stack' = Below \o <<Call("think")>>
    BY <1>14 DEF SpritesDone, At, Become, Stage
  <2>2. Call("think") \in Frames /\ Call("think").at \in Stage
    BY NewFrames DEF Call, Stage
  <2>3. Call("hook") \in Frames /\ Loose(Call("hook"))
    BY <1>3
  <2> QED
    BY <1>8, <2>1, <2>2, <2>3
<1>15. CASE ScriptReturns
  BY <1>5, <1>15 DEF ScriptReturns, Return
<1>16. CASE \/ TimerTick \/ NextMap \/ CallHookTimer \/ CallHookTimerRacing
            \/ CallGetSprite \/ CallSetImage \/ CallSetSprite \/ CallFreeSprite \/ CallResetSprites
  BY <1>4, <1>16 DEF TimerTick, NextMap, CallHookTimer, CallHookTimerRacing,
                     CallGetSprite, CallSetImage, CallSetSprite, CallFreeSprite, CallResetSprites
<1> QED
  BY <1>7, <1>9, <1>10, <1>12, <1>13, <1>14, <1>15, <1>16 DEF FrameNext, SpriteStep, ScriptStep

(* Below a call of TimedProcessSprites there are fewer loops than scripts  *)
(* may be inside each other: each loop, this one too, is right above a     *)
(* script of its own, but for one at most, which is the engine's.          *)
LEMMA FewLoopsBelow ==
  ASSUME FrameTypeOK, Rooted(stack), Top.at \in Stage
  PROVE  Cardinality(Passers(Below, -1)) < MaxNest
<1>1. stack \in Seq(Frames) /\ stack # <<>> /\ Len(stack) \in Nat /\ Len(stack) >= 1
  BY DEF FrameTypeOK
<1>2. /\ Below \in Seq(Frames) /\ Len(Below) = Len(stack) - 1
      /\ \A k \in 1 .. Len(Below) : Below[k] = stack[k]
      /\ DOMAIN Below = 1 .. Len(Below)
  BY <1>1, BelowAndTop
<1> DEFINE n == Len(stack)
           P == Passers(Below, -1)
           C == Callers(stack, n)
<1>3. RootedAt(stack, n) /\ stack[n].at \in Stage /\ n \in 1 .. n
  BY <1>1 DEF Rooted, Top
<1>4. n > 1 /\ stack[n - 1].at \in ScriptFrames \cup {"main"} /\ Cardinality(C) < MaxNest
  BY <1>3 DEF RootedAt
<1>5. \A k \in P \cup {n} : k \in 1 .. n /\ stack[k].at \in Stage
  <2>1. \A k \in P : k \in 1 .. (n - 1) /\ stack[k].at = "sprite"
    BY <1>2 DEF Passers, Passes
  <2>2. \A k \in 1 .. (n - 1) : k \in 1 .. n
    BY <1>1
  <2> QED
    BY <1>3, <2>1, <2>2 DEF Stage
<1>6. \A k \in P \cup {n} : k \in Nat /\ k - 1 \in C \cup {1}
  <2>1. SUFFICES ASSUME NEW k \in P \cup {n} PROVE k \in Nat /\ k - 1 \in C \cup {1}
    OBVIOUS
  <2>2. k \in 1 .. n /\ stack[k].at \in Stage
    BY <1>5
  <2>3. k > 1 /\ stack[k - 1].at \in ScriptFrames \cup {"main"}
    BY <2>2 DEF Rooted, RootedAt
  <2>4. k - 1 \in 1 .. (n - 1) /\ k - 1 \in 1 .. n
    BY <1>1, <2>2, <2>3
  <2>5. stack[k - 1].at = "main" => k - 1 = 1
    BY <2>4 DEF Rooted, RootedAt
  <2>6. stack[k - 1].at \in ScriptFrames => k - 1 \in C
    BY <2>4 DEF Callers
  <2> QED
    BY <2>2, <2>3, <2>5, <2>6
<1>7. IsFiniteSet(C) /\ Cardinality(C) \in Nat
  <2>1. IsFiniteSet(1 .. (n - 1))
    BY <1>1, FS_Interval
  <2>2. C \subseteq 1 .. (n - 1)
    BY DEF Callers
  <2>3. IsFiniteSet(C)
    BY <2>1, <2>2, FS_Subset
  <2> QED
    BY <2>3, FS_CardinalityType
<1>8. IsFiniteSet(P) /\ Cardinality(P) \in Nat /\ n \notin P
  <2>1. Len(Below) + 1 = n
    BY <1>1, <1>2
  <2> QED
    BY <1>2, <2>1, PassersFinite
<1> HIDE DEF P, C, n
<1>9. Cardinality(P \cup {n}) = Cardinality(P) + 1 /\ IsFiniteSet(P \cup {n})
  BY <1>8, FS_AddElement
<1>10. IsFiniteSet(C \cup {1}) /\ Cardinality(C \cup {1}) <= Cardinality(C) + 1
       /\ Cardinality(C \cup {1}) \in Nat
  <2>1. CASE 1 \in C
    <3>1. C \cup {1} = C
      BY <2>1
    <3>2. \A c \in Nat : c <= c + 1
      OBVIOUS
    <3>3. Cardinality(C) <= Cardinality(C) + 1
      BY <1>7, <3>2
    <3> QED
      BY <1>7, <3>1, <3>3
  <2>2. CASE 1 \notin C
    <3>1. IsFiniteSet(C \cup {1}) /\ Cardinality(C \cup {1}) = Cardinality(C) + 1
      BY <1>7, <2>2, FS_AddElement
    <3> QED
      BY <1>7, <3>1
  <2> QED
    BY <2>1, <2>2
<1>11. Cardinality(P \cup {n}) <= Cardinality(C \cup {1})
  <2> DEFINE under == [k \in P \cup {n} |-> k - 1]
  <2>1. under \in [P \cup {n} -> C \cup {1}]
    BY <1>6
  <2>2. \A j, k \in P \cup {n} : under[j] = under[k] => j = k
    BY <1>6
  <2>3. under \in Injection(P \cup {n}, C \cup {1})
    BY <2>1, <2>2 DEF Injection, IsInjective
  <2> QED
    BY <1>10, <2>3, FS_Injection
<1>12. MaxNest \in Nat
  BY FrameAssumption
<1>13. Cardinality(P) < MaxNest
  BY <1>4, <1>7, <1>8, <1>9, <1>10, <1>11, <1>12
<1> QED
  BY <1>13 DEF P

LEMMA AheadStep ==
  ASSUME FrameTypeOK, FrameTypeOK', Rooted(stack), SpritesAheadByNesting, FrameNext
  PROVE  SpritesAheadByNesting'
<1>1. /\ stack \in Seq(Frames) /\ stack' \in Seq(Frames)
      /\ lastspritethink \in Nat /\ systemtime \in Nat /\ MaxNest \in Nat /\ MaxNest >= 1
      /\ Top.i \in Nat
  <2>1. Top.i \in Nat
    BY StackFacts DEF Frames
  <2> QED
    BY <2>1, FrameAssumption DEF FrameTypeOK
<1> DEFINE now == Cardinality(Passers(stack, -1))
           then == Cardinality(Passers(stack', -1))
           base == Cardinality(Passers(Below, -1))
<1>2. Loops = now /\ Loops' = then
  BY <1>1, LoopsAreCounted DEF Loops
<1>3. now \in Nat /\ then \in Nat
  BY <1>1, PassersFinite
<1>4. base \in Nat /\ now = base + One(Passes(Top, -1))
  BY PassersMove
<1>5. lastspritethink + now < systemtime + MaxNest
  BY <1>2 DEF SpritesAheadByNesting
<1>6. SUFFICES lastspritethink' + then < systemtime' + MaxNest
  BY <1>2 DEF SpritesAheadByNesting
<1>7. CASE SpriteLoop
  <2>1. /\ lastspritethink' = lastspritethink /\ systemtime' = systemtime
        /\ Top.at = "think"
    BY <1>7 DEF SpriteLoop, spriteVars, At
  <2>2. CASE lastspritethink < systemtime
    <3>1. then = base + One(1 > -1) /\ One(1 > -1) = 1
      BY <1>7, <2>2, PassersMove DEF One
    <3>2. base < MaxNest
      BY <2>1, FewLoopsBelow DEF Stage
    <3> HIDE DEF then, base
    <3> QED
      BY <1>1, <1>4, <2>1, <2>2, <3>1, <3>2
  <2>3. CASE ~ (lastspritethink < systemtime)
    <3>1. then = base
      BY <1>7, <2>3, PassersMove
    <3>2. One(Passes(Top, -1)) = 0
      BY <2>1 DEF One, Passes
    <3> QED
      BY <1>4, <1>5, <2>1, <3>1, <3>2
  <2> QED
    BY <2>2, <2>3
<1>8. CASE SkipSprite \/ SpriteTurn
  <2>1. lastspritethink' = lastspritethink /\ systemtime' = systemtime
    BY <1>8 DEF SkipSprite, SpriteTurn
  <2>2. Top.at = "sprite" /\ then = base + One(Top.i + 1 > -1)
    BY <1>8, PassersMove
  <2>3. One(Top.i + 1 > -1) = 1 /\ One(Passes(Top, -1)) = 1
    BY <1>1, <2>2 DEF One, Passes
  <2> QED
    BY <1>4, <1>5, <2>1, <2>2, <2>3
<1>9. CASE SpritesDone
  <2>1. lastspritethink' = lastspritethink + 1 /\ systemtime' = systemtime
    BY <1>9 DEF SpritesDone
  <2>2. Top.at = "sprite" /\ then = base
    BY <1>9, PassersMove
  <2>3. One(Passes(Top, -1)) = 1
    BY <1>1, <2>2 DEF One, Passes
  <2> HIDE DEF now, then, base
  <2> QED
    BY <1>1, <1>4, <1>5, <2>1, <2>2, <2>3
<1>10. CASE NextMap
  <2>1. lastspritethink' = systemtime /\ systemtime' = systemtime /\ Top.at = "main"
        /\ stack' = stack
    BY <1>10 DEF NextMap, At
  <2>2. Len(stack) \in Nat /\ Len(stack) >= 1 /\ Len(stack) \in 1 .. Len(stack)
        /\ DOMAIN stack = 1 .. Len(stack)
    BY DEF FrameTypeOK
  <2>3. Len(stack) = 1
    BY <2>1, <2>2 DEF Rooted, RootedAt, Top
  <2>4. \A k \in DOMAIN stack : stack[k].at = "main"
    BY <2>1, <2>2, <2>3 DEF Top
  <2>5. Passers(stack, -1) = {}
    BY <2>4 DEF Passers, Passes
  <2>6. then = 0
    BY <2>1, <2>5, FS_EmptySet
  <2> HIDE DEF then
  <2> QED
    BY <1>1, <2>1, <2>6
<1>11. CASE OtherSteps /\ ~ NextMap
  <2>1. then = now
    BY <1>11, PassersKept
  <2>2. lastspritethink' = lastspritethink /\ systemtime' >= systemtime /\ systemtime' \in Nat
    <3>1. /\ lastspritethink' = lastspritethink
          /\ systemtime' = systemtime \/ systemtime' = systemtime + 1
      BY <1>11 DEF OtherSteps, HookStep, ScriptStep, TimerTick, HookLoop, HookCounted,
                   HookCountedRacing, NextFrame, RunScript, ScriptReturns, CallShowPage,
                   CallHookTimer, CallHookTimerRacing, CallGetSprite, CallSetImage, CallSetSprite,
                   CallFreeSprite, CallResetSprites, spriteVars
    <3> QED
      BY <1>1, <3>1
  <2> HIDE DEF now, then, base
  <2>3. \A l, n, s, t, m \in Nat : l + n < s + m /\ t >= s => l + n < t + m
    OBVIOUS
  <2>4. lastspritethink + now < systemtime' + MaxNest
    BY <1>1, <1>3, <1>5, <2>2, <2>3
  <2> QED
    BY <2>1, <2>2, <2>4
<1> QED
  BY <1>7, <1>8, <1>9, <1>10, <1>11 DEF FrameNext, SpriteStep, OtherSteps

(* The sprites never run ahead of the clock by more than a tick for each   *)
(* loop beyond the first that a script started inside another, for any     *)
(* number of scripts inside each other.                                    *)
THEOREM SpritesKeepTheClock == TimerCalls = {} /\ FrameSpec => []SpritesAheadByNesting
<1>1. CASE TimerCalls = {}
  <2>1. HookIInv /\ [FrameNext]_frameVars => HookIInv'
    BY <1>1, HookNext
  <2>2. FrameInit => Rooted(stack) /\ SpritesAheadByNesting
    <3> SUFFICES ASSUME FrameInit PROVE Rooted(stack) /\ SpritesAheadByNesting
      OBVIOUS
    <3>1. /\ Len(stack) = 1 /\ DOMAIN stack = {1} /\ stack[1].at = "main"
          /\ lastspritethink = 0 /\ systemtime = 0
      BY DEF FrameInit, Call
    <3>2. Rooted(stack)
      BY <3>1 DEF Rooted, RootedAt, Stage
    <3>3. {k \in DOMAIN stack : stack[k].at = "sprite"} = {}
      BY <3>1
    <3>4. Loops = 0
      BY <3>3, FS_EmptySet DEF Loops
    <3> QED
      BY <3>1, <3>2, <3>4, FrameAssumption DEF SpritesAheadByNesting
  <2>3. HookIInv /\ HookIInv' /\ Rooted(stack) /\ SpritesAheadByNesting /\ [FrameNext]_frameVars
          => (Rooted(stack) /\ SpritesAheadByNesting)'
    <3> SUFFICES ASSUME HookIInv, HookIInv', Rooted(stack), SpritesAheadByNesting,
                        [FrameNext]_frameVars
                 PROVE  Rooted(stack') /\ SpritesAheadByNesting'
      OBVIOUS
    <3>1. FrameTypeOK /\ FrameTypeOK'
      BY DEF HookIInv
    <3>2. CASE UNCHANGED frameVars
      BY <3>2 DEF frameVars, SpritesAheadByNesting, Loops
    <3>3. CASE FrameNext
      BY <3>1, <3>3, RootedStep, AheadStep
    <3> QED
      BY <3>2, <3>3
  <2> QED
    BY <2>1, <2>2, <2>3, HookInit, PTL DEF FrameSpec
<1> QED
  BY <1>1

=============================================================================
