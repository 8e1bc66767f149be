--------------------------- MODULE EngineLoop_proofs ---------------------------
(***************************************************************************)
(* The engine's loops, for scripts nested to any depth: while a script     *)
(* runs, wherever in the engine it was called, the keys do not move the    *)
(* player.                                                                 *)
(*                                                                         *)
(* ProcessControls is entered when invc is 0, and does not ask again when  *)
(* it comes to the step.  So invc must be the number of scripts on the     *)
(* stack, and no script may lie below a ProcessControls that has begun;    *)
(* those it runs itself lie above it, and have returned when it goes on.   *)
(*                                                                         *)
(* And the entities' clock: a loop stands at the bottom of the stack or    *)
(* just above the script that started it, so the scripts bound the loops,  *)
(* and each loop is a tick ahead at most.                                  *)
(***************************************************************************)
EXTENDS EngineLoop, FiniteSetTheorems, SequenceTheorems, TLAPS

(* Where a stack has its scripts.                                          *)
Scripts(s) == {i \in 1 .. Len(s) : s[i] = "script"}

(* ProcessControls, once it has begun.                                     *)
Controls == {"check", "move", "walk"}

(* No script lies below such a frame.                                      *)
HeldBy(s) ==
  \A i \in 1 .. Len(s) : s[i] \in Controls => \A j \in 1 .. i : s[j] # "script"

Shape ==
  /\ stack \in Seq(Frames) /\ stack # <<>> /\ stack[1] = "main"
  /\ invc = Cardinality(Scripts(stack))
  /\ HeldBy(stack)

LoopIInv == LoopTypeOK /\ Shape

-----------------------------------------------------------------------------
(* Stacks.                                                                 *)

(* Frames put on a stack.                                                  *)
LEMMA Grown ==
  ASSUME NEW s \in Seq(Frames), NEW fs \in Seq(Frames)
  PROVE  /\ s \o fs \in Seq(Frames) /\ Len(s \o fs) = Len(s) + Len(fs)
         /\ \A k \in 1 .. Len(s) : (s \o fs)[k] = s[k]
         /\ \A k \in 1 .. Len(s \o fs) :
              k \notin 1 .. Len(s) => \E l \in 1 .. Len(fs) : (s \o fs)[k] = fs[l]
<1>1. /\ s \o fs \in Seq(Frames) /\ Len(s \o fs) = Len(s) + Len(fs)
      /\ \A k \in 1 .. (Len(s) + Len(fs)) :
           (s \o fs)[k] = IF k <= Len(s) THEN s[k] ELSE fs[k - Len(s)]
  BY ConcatProperties
<1>2. PICK n \in Nat, m \in Nat : n = Len(s) /\ m = Len(fs)
  OBVIOUS
<1>3. \A k \in 1 .. n : k \in 1 .. (n + m) /\ k <= n
  BY <1>2
<1>4. \A k \in 1 .. (n + m) : k \notin 1 .. n => ~(k <= n) /\ k - n \in 1 .. m
  BY <1>2
<1> QED
  BY <1>1, <1>2, <1>3, <1>4

(* The stack below its top.                                                *)
LEMMA Popped ==
  ASSUME NEW s \in Seq(Frames), NEW n \in Nat, n = Len(s), n >= 1
  PROVE  /\ SubSeq(s, 1, n - 1) \in Seq(Frames)
         /\ Len(SubSeq(s, 1, n - 1)) = n - 1
         /\ \A k \in 1 .. (n - 1) : SubSeq(s, 1, n - 1)[k] = s[k]
<1>1. 1 \in Int /\ n - 1 \in Int /\ \A k \in 1 .. (n - 1) : s[k] \in Frames
  OBVIOUS
<1>2. /\ SubSeq(s, 1, n - 1) \in Seq(Frames)
      /\ Len(SubSeq(s, 1, n - 1)) = IF 1 <= n - 1 THEN (n - 1) - 1 + 1 ELSE 0
      /\ \A k \in 1 .. ((n - 1) - 1 + 1) : SubSeq(s, 1, n - 1)[k] = s[1 + k - 1]
  BY <1>1, SubSeqProperties
<1>3. /\ (n - 1) - 1 + 1 = n - 1
      /\ (IF 1 <= n - 1 THEN (n - 1) - 1 + 1 ELSE 0) = n - 1
      /\ \A k \in 1 .. (n - 1) : 1 + k - 1 = k
  OBVIOUS
<1> QED
  BY <1>2, <1>3

LEMMA ScriptsFinite ==
  ASSUME NEW s \in Seq(Frames)
  PROVE  IsFiniteSet(Scripts(s)) /\ Cardinality(Scripts(s)) \in Nat
<1>1. IsFiniteSet(1 .. Len(s)) /\ Scripts(s) \subseteq 1 .. Len(s)
  BY FS_Interval DEF Scripts
<1> QED
  BY <1>1, FS_Subset, FS_CardinalityType

Plain(fs)  == \A l \in 1 .. Len(fs) : fs[l] # "script"
Unheld(fs) == \A l \in 1 .. Len(fs) : fs[l] \notin Controls

(* Frames that are no scripts leave the scripts where they are.            *)
LEMMA PlainGrowth ==
  ASSUME NEW s \in Seq(Frames), NEW fs \in Seq(Frames), Plain(fs)
  PROVE  Scripts(s \o fs) = Scripts(s)
<1>1. \A k \in 1 .. Len(s) : k \in 1 .. Len(s \o fs)
  <2>1. Len(s \o fs) = Len(s) + Len(fs) /\ Len(s) \in Nat /\ Len(fs) \in Nat
    BY Grown
  <2> QED
    BY <2>1
<1>2. \A k \in 1 .. Len(s \o fs) : (s \o fs)[k] = "script" => k \in 1 .. Len(s)
  BY Grown DEF Plain
<1> QED
  BY <1>1, <1>2, Grown DEF Scripts

(* ProcessControls may be entered where there is no script.                *)
LEMMA HeldGrowth ==
  ASSUME NEW s \in Seq(Frames), NEW fs \in Seq(Frames), HeldBy(s),
         Unheld(fs) \/ (Plain(fs) /\ Scripts(s) = {})
  PROVE  HeldBy(s \o fs)
<1>1. CASE Unheld(fs)
  <2>1. SUFFICES ASSUME NEW i \in 1 .. Len(s \o fs), (s \o fs)[i] \in Controls,
                        NEW j \in 1 .. i
                 PROVE  (s \o fs)[j] # "script"
    BY DEF HeldBy
  <2>2. i \in 1 .. Len(s)
    BY <1>1, <2>1, Grown DEF Unheld
  <2>3. j \in 1 .. Len(s)
    BY <2>2
  <2>4. (s \o fs)[i] = s[i] /\ (s \o fs)[j] = s[j]
    BY <2>2, <2>3, Grown
  <2> QED
    BY <2>1, <2>2, <2>4 DEF HeldBy
<1>2. CASE Plain(fs) /\ Scripts(s) = {}
  <2>1. Scripts(s \o fs) = {}
    BY <1>2, PlainGrowth
  <2>2. \A i \in 1 .. Len(s \o fs) : \A j \in 1 .. i : j \in 1 .. Len(s \o fs)
    BY Grown
  <2> QED
    BY <2>1, <2>2 DEF HeldBy, Scripts
<1> QED
  BY <1>1, <1>2

(* What a step starts from.                                                *)
LEMMA StackFacts ==
  ASSUME Shape
  PROVE  /\ stack \in Seq(Frames) /\ Len(stack) \in Nat \ {0} /\ stack[1] = "main"
         /\ Top \in Frames /\ (Top # "main" => Len(stack) > 1)
         /\ (Top = "script" <=> Len(stack) \in Scripts(stack))
         /\ invc \in Nat /\ (invc = 0 => Scripts(stack) = {})
<1>1. stack \in Seq(Frames) /\ Len(stack) \in Nat \ {0} /\ stack[1] = "main"
  BY DEF Shape
<1>2. Top \in Frames
  BY <1>1 DEF Top
<1>3. Len(stack) = 1 => Top = "main"
  BY <1>1 DEF Top
<1>4. Len(stack) \in 1 .. Len(stack)
  BY <1>1
<1>5. Top = "script" <=> Len(stack) \in Scripts(stack)
  BY <1>4 DEF Scripts, Top
<1>6. invc \in Nat /\ (invc = 0 => Scripts(stack) = {})
  BY <1>1, ScriptsFinite, FS_EmptySet DEF Shape
<1>7. Top # "main" => Len(stack) > 1
  <2>1. \A n \in Nat \ {0} : n = 1 \/ n > 1
    OBVIOUS
  <2>2. Len(stack) = 1 \/ Len(stack) > 1
    BY <1>1, <2>1, Zenon
  <2> QED
    BY <1>3, <2>2, Zenon
<1> QED
  BY <1>1, <1>2, <1>5, <1>6, <1>7, Zenon

LEMMA BelowFacts ==
  ASSUME Shape, Top # "main"
  PROVE  /\ Below \in Seq(Frames) /\ Len(Below) >= 1 /\ Below[1] = "main"
         /\ Len(Below) = Len(stack) - 1
         /\ Scripts(Below) = Scripts(stack) \ {Len(stack)}
         /\ HeldBy(Below)
         /\ (Top \in Controls => Scripts(stack) = {})
<1>1. PICK n \in Nat : n = Len(stack) /\ n > 1
  BY StackFacts
<1>2. /\ Below \in Seq(Frames) /\ Len(Below) = n - 1
      /\ \A k \in 1 .. (n - 1) : Below[k] = stack[k]
  BY <1>1, StackFacts, Popped DEF Below
<1>3. 1 \in 1 .. (n - 1) /\ n - 1 >= 1 /\ 1 .. (n - 1) = (1 .. n) \ {n}
  BY <1>1
<1>4. Scripts(Below) = Scripts(stack) \ {Len(stack)}
  BY <1>1, <1>2, <1>3 DEF Scripts
<1>5. HeldBy(Below)
  <2>1. \A i \in 1 .. (n - 1) : \A j \in 1 .. i : j \in 1 .. (n - 1) /\ i \in 1 .. n
    BY <1>1
  <2> QED
    BY <1>1, <1>2, <2>1 DEF HeldBy, Shape
<1>6. Top \in Controls => Scripts(stack) = {}
  <2>1. n \in 1 .. n
    BY <1>1
  <2> QED
    BY <1>1, <2>1 DEF HeldBy, Shape, Scripts, Top
<1> QED
  BY <1>1, <1>2, <1>3, <1>4, <1>5, <1>6, StackFacts

(* A step that puts frames of the engine on the stack.                     *)
LEMMA CallOnShape ==
  ASSUME Shape, NEW fs \in Seq(Frames), Plain(fs), Unheld(fs),
         CallOn(fs), invc' = invc
  PROVE  Shape'
<1>1. stack' = stack \o fs /\ stack \in Seq(Frames) /\ stack[1] = "main"
      /\ Len(stack) \in Nat \ {0} /\ Len(fs) \in Nat
  BY StackFacts DEF CallOn
<1>2. stack' \in Seq(Frames) /\ Len(stack') = Len(stack) + Len(fs) /\ stack'[1] = stack[1]
  <2>1. 1 \in 1 .. Len(stack)
    BY <1>1
  <2> QED
    BY <1>1, <2>1, Grown
<1>3. stack' # <<>>
  BY <1>1, <1>2
<1>4. Scripts(stack') = Scripts(stack)
  BY <1>1, PlainGrowth
<1>5. HeldBy(stack')
  BY <1>1, HeldGrowth DEF Shape
<1> QED
  BY <1>1, <1>2, <1>3, <1>4, <1>5 DEF Shape

(* A step that leaves the top frame, or has it go on as frames of the      *)
(* engine; ProcessControls only where there is no script.                  *)
LEMMA BecomeShape ==
  ASSUME Shape, Top \notin {"main", "script"}, invc' = invc,
         NEW fs \in Seq(Frames), Plain(fs), Unheld(fs) \/ Scripts(stack) = {},
         Become(fs) \/ Return
  PROVE  Shape'
<1>1. /\ Below \in Seq(Frames) /\ Len(Below) \in Nat \ {0} /\ Below[1] = "main"
      /\ Scripts(Below) = Scripts(stack) /\ HeldBy(Below)
  <2>1. /\ Below \in Seq(Frames) /\ Len(Below) >= 1 /\ Below[1] = "main"
        /\ Scripts(Below) = Scripts(stack) \ {Len(stack)} /\ HeldBy(Below)
    BY BelowFacts
  <2>2. Len(stack) \notin Scripts(stack)
    BY StackFacts
  <2>3. Scripts(Below) = Scripts(stack)
    BY <2>1, <2>2
  <2>4. Len(Below) \in Nat \ {0}
    BY <2>1
  <2> QED
    BY <2>1, <2>3, <2>4
<1>2. CASE Return
  BY <1>1, <1>2 DEF Shape, Return
<1>3. CASE Become(fs)
  <2>1. stack' = Below \o fs /\ Len(fs) \in Nat
    BY <1>3 DEF Become
  <2>2. stack' \in Seq(Frames) /\ Len(stack') = Len(Below) + Len(fs) /\ stack'[1] = Below[1]
    <3>1. 1 \in 1 .. Len(Below)
      BY <1>1
    <3> QED
      BY <1>1, <2>1, <3>1, Grown
  <2>3. stack' # <<>>
    BY <1>1, <2>1, <2>2
  <2>4. Scripts(stack') = Scripts(stack)
    BY <1>1, <2>1, PlainGrowth
  <2>5. HeldBy(stack')
    BY <1>1, <2>1, HeldGrowth
  <2> QED
    BY <1>1, <2>2, <2>3, <2>4, <2>5 DEF Shape
<1> QED
  BY <1>2, <1>3

(* A script is called, and returns.                                        *)
LEMMA RunShape ==
  ASSUME Shape, RunScript
  PROVE  Shape'
<1>1. /\ At("hook") /\ invc' = invc + 1 /\ Become(<<"script">>)
  BY DEF RunScript
<1>2. /\ Below \in Seq(Frames) /\ Len(Below) \in Nat \ {0} /\ Below[1] = "main"
      /\ Scripts(Below) = Scripts(stack) /\ HeldBy(Below)
  <2>1. Top = "hook" /\ Top # "main" /\ Top # "script"
    BY <1>1 DEF At
  <2>2. /\ Below \in Seq(Frames) /\ Len(Below) >= 1 /\ Below[1] = "main"
        /\ Scripts(Below) = Scripts(stack) \ {Len(stack)} /\ HeldBy(Below)
    BY <2>1, BelowFacts
  <2>3. Len(stack) \notin Scripts(stack)
    BY <2>1, StackFacts
  <2>4. Scripts(Below) = Scripts(stack)
    BY <2>2, <2>3
  <2>5. Len(Below) \in Nat \ {0}
    BY <2>2
  <2> QED
    BY <2>2, <2>4, <2>5
<1>3. <<"script">> \in Seq(Frames) /\ Len(<<"script">>) = 1 /\ <<"script">>[1] = "script"
  BY DEF Frames
<1>4. PICK n \in Nat \ {0} : n = Len(Below)
  BY <1>2
<1>5. /\ stack' = Below \o <<"script">> /\ stack' \in Seq(Frames) /\ Len(stack') = n + 1
      /\ \A k \in 1 .. n : stack'[k] = Below[k]
  BY <1>1, <1>2, <1>3, <1>4, Grown DEF Become
<1>6. stack'[n + 1] = "script"
  <2>1. n + 1 \in 1 .. (n + 1) /\ n + 1 \notin 1 .. n
    BY <1>4
  <2>2. \E l \in 1 .. 1 : stack'[n + 1] = <<"script">>[l]
    BY <1>2, <1>3, <1>4, <1>5, <2>1, Grown
  <2>3. \A l \in 1 .. 1 : l = 1
    OBVIOUS
  <2> QED
    BY <1>3, <2>2, <2>3
<1>7. Scripts(stack') = Scripts(Below) \cup {n + 1} /\ n + 1 \notin Scripts(Below)
  <2>1. \A k : k \in 1 .. (n + 1) <=> (k \in 1 .. n \/ k = n + 1)
    BY <1>4
  <2>2. n + 1 \notin 1 .. n
    BY <1>4
  <2> QED
    BY <1>4, <1>5, <1>6, <2>1, <2>2 DEF Scripts
<1>8. Cardinality(Scripts(stack')) = Cardinality(Scripts(stack)) + 1
  <2>1. /\ IsFiniteSet(Scripts(Below))
        /\ Cardinality(Scripts(Below) \cup {n + 1}) = Cardinality(Scripts(Below)) + 1
    BY <1>2, <1>7, ScriptsFinite, FS_AddElement
  <2> QED
    BY <1>2, <1>7, <2>1, Zenon
<1>9. HeldBy(stack')
  <2>1. Unheld(<<"script">>)
    <3>1. \A l \in 1 .. 1 : l = 1
      OBVIOUS
    <3> QED
      BY <1>3, <3>1 DEF Unheld, Controls
  <2> QED
    BY <1>2, <1>3, <1>5, <2>1, HeldGrowth
<1>10. stack' # <<>> /\ stack'[1] = "main"
  BY <1>2, <1>4, <1>5
<1> QED
  BY <1>1, <1>5, <1>8, <1>9, <1>10 DEF Shape

LEMMA ReturnShape ==
  ASSUME Shape, ScriptReturns
  PROVE  Shape' /\ invc \in Nat \ {0}
<1>1. Top = "script" /\ stack' = Below /\ invc' = invc - 1
  BY DEF ScriptReturns, At, Return
<1>2. /\ Below \in Seq(Frames) /\ Len(Below) >= 1 /\ Below[1] = "main"
      /\ Scripts(Below) = Scripts(stack) \ {Len(stack)} /\ HeldBy(Below)
  BY <1>1, BelowFacts
<1>3. Len(stack) \in Scripts(stack) /\ stack \in Seq(Frames)
  BY <1>1, StackFacts
<1>4. /\ Cardinality(Scripts(Below)) = Cardinality(Scripts(stack)) - 1
      /\ Cardinality(Scripts(stack)) \in Nat /\ Cardinality(Scripts(Below)) \in Nat
  BY <1>2, <1>3, ScriptsFinite, FS_RemoveElement
<1>5. stack' # <<>>
  BY <1>1, <1>2
<1>6. invc' = Cardinality(Scripts(stack')) /\ invc \in Nat \ {0}
  BY <1>1, <1>4 DEF Shape
<1> QED
  BY <1>1, <1>2, <1>5, <1>6 DEF Shape

-----------------------------------------------------------------------------
(* The invariant.                                                          *)

LEMMA LoopInitial == LoopInit => LoopIInv
<1> SUFFICES ASSUME LoopInit PROVE LoopIInv
  OBVIOUS
<1>1. /\ stack \in Seq(Frames) /\ Len(stack) = 2 /\ stack[1] = "main" /\ stack[2] = "hook"
      /\ stack # <<>>
  BY DEF LoopInit, Frames
<1>2. \A k \in 1 .. Len(stack) : stack[k] # "script" /\ stack[k] \notin Controls
  <2>1. \A k \in 1 .. 2 : k = 1 \/ k = 2
    OBVIOUS
  <2> QED
    BY <1>1, <2>1 DEF Controls
<1>3. Scripts(stack) = {} /\ HeldBy(stack)
  BY <1>2 DEF Scripts, HeldBy
<1>4. invc = Cardinality(Scripts(stack))
  BY <1>3, FS_EmptySet DEF LoopInit
<1>5. invc \in 0 .. MaxNest /\ lag \in Int /\ path \in 0 .. MaxPath /\ walk \in 0 .. MaxWalk
      /\ movecode \in {0, 1, 3} /\ rewind \in -1 .. MaxPath /\ speed \in Speeds
  BY LoopAssumption DEF LoopInit, Speeds
<1>6. {paused, done, myself} \subseteq BOOLEAN
  BY DEF LoopInit
<1> QED
  BY <1>1, <1>3, <1>4, <1>5, <1>6 DEF LoopIInv, LoopTypeOK, Shape

(* The frames the engine's own functions put on the stack.                 *)
LEMMA EngineFrames ==
  /\ \A fs \in {<<"frame", "tpe", "hook">>, <<"hook">>, <<"while">>, <<"pm">>,
                 <<"inc", "step", "ctl", "think", "hook">>, <<"ctl">>, <<"hook", "tpe">>} :
       fs \in Seq(Frames) /\ Plain(fs) /\ Unheld(fs)
  /\ \A fs \in {<<"check", "hook">>, <<"move", "hook">>, <<"move">>, <<"walk", "hook">>} :
       fs \in Seq(Frames) /\ Plain(fs)
BY DEF Frames, Plain, Unheld, Controls

LEMMA LoopStep == LoopIInv /\ [LoopNext]_loopVars => LoopIInv'
<1> SUFFICES ASSUME LoopIInv, [LoopNext]_loopVars PROVE LoopIInv'
  OBVIOUS
<1> USE EngineFrames
<1>1. Shape /\ LoopTypeOK
  BY DEF LoopIInv
<1>2. /\ MaxNest \in Nat /\ MaxPath \in Nat /\ MaxWalk \in Nat
      /\ invc \in 0 .. MaxNest /\ lag \in Int /\ lag - 1 \in Int /\ lag + 1 \in Int /\ 0 \in Int
      /\ movecode \in {0, 1, 3} /\ path \in 0 .. MaxPath /\ rewind \in -1 .. MaxPath
      /\ walk \in 0 .. MaxWalk /\ speed \in Speeds
      /\ 0 \in 0 .. MaxPath /\ 0 \in 0 .. MaxWalk /\ -1 \in -1 .. MaxPath
      /\ 100 \in Speeds /\ 0 .. MaxPath \subseteq -1 .. MaxPath
      /\ {paused, done, myself} \subseteq BOOLEAN
  BY <1>1, LoopAssumption DEF LoopTypeOK, Speeds
<1> DEFINE Data == /\ invc' \in 0 .. MaxNest /\ lag' \in Int
                   /\ {paused', done', myself'} \subseteq BOOLEAN
                   /\ movecode' \in {0, 1, 3} /\ path' \in 0 .. MaxPath
                   /\ rewind' \in -1 .. MaxPath /\ walk' \in 0 .. MaxWalk /\ speed' \in Speeds
<1>3. Shape' /\ Data => LoopIInv'
  BY DEF LoopIInv, LoopTypeOK, Shape
<1>4. CASE UNCHANGED loopVars
  BY <1>1, <1>4 DEF LoopIInv, LoopTypeOK, Shape, loopVars, playerVars
<1>5. stack' = stack /\ invc' = invc => Shape'
  BY <1>1 DEF Shape
<1>6. ClockTick => Shape' /\ Data
  BY <1>2, <1>5 DEF ClockTick, playerVars
<1>7. MainLoop => Shape' /\ Data
  BY <1>1, <1>2, CallOnShape DEF MainLoop, playerVars
<1>8. NextMap => Shape' /\ Data
  <2> SUFFICES ASSUME NextMap PROVE Shape' /\ Data
    OBVIOUS
  <2>1. CallOn(<<"hook">>) /\ invc' = invc
    BY DEF NextMap
  <2>2. Shape'
    BY <1>1, <2>1, CallOnShape
  <2>3. Data
    BY <1>2 DEF NextMap, SetMotionless
  <2> QED
    BY <2>2, <2>3
<1>9. Frame => Shape' /\ Data
  BY <1>1, <1>2, BecomeShape DEF Frame, At, playerVars
<1>10. EnterProcess => Shape' /\ Data
  BY <1>1, <1>2, BecomeShape DEF EnterProcess, At, playerVars
<1>11. LoopTurn => Shape' /\ Data
  BY <1>1, <1>2, BecomeShape DEF LoopTurn, At, playerVars
<1>12. LoopExit => Shape' /\ Data
  BY <1>1, <1>2, BecomeShape DEF LoopExit, At, playerVars
<1>13. CountTick => Shape' /\ Data
  BY <1>1, <1>2, BecomeShape DEF CountTick, At, playerVars
<1>14. PlayerThinks => Shape' /\ Data
  <2> SUFFICES ASSUME PlayerThinks PROVE Shape' /\ Data
    OBVIOUS
  <2>1. /\ Top = "think" /\ (Become(<<"hook">>) \/ Become(<<"ctl">>))
        /\ UNCHANGED <<invc, lag, paused, done, myself>>
    BY DEF PlayerThinks, At, NoTurn, WalksOn, Motionless, Wanders, do_movescript
  <2>2. Shape'
    BY <1>1, <2>1, BecomeShape
  <2>3. /\ movecode' \in {0, 1, 3} /\ path' \in 0 .. MaxPath
        /\ rewind' \in -1 .. MaxPath /\ walk' \in 0 .. MaxWalk /\ speed' \in Speeds
    <3>1. CASE NoTurn \/ WalksOn \/ Motionless \/ Wanders
      BY <1>2, <3>1 DEF NoTurn, WalksOn, Motionless, Wanders, playerVars
    <3>2. CASE do_movescript
      BY <1>2, <3>2 DEF do_movescript
    <3> QED
      BY <3>1, <3>2 DEF PlayerThinks
  <2> QED
    BY <1>2, <2>1, <2>2, <2>3
<1>15. CallControls => Shape' /\ Data
  <2> SUFFICES ASSUME CallControls PROVE Shape' /\ Data
    OBVIOUS
  <2>1. Top = "ctl" /\ (Return \/ (invc = 0 /\ Become(<<"check", "hook">>)))
    BY DEF CallControls, At
  <2>2. invc = 0 => Scripts(stack) = {}
    BY <1>1, StackFacts
  <2>3. Shape'
    BY <1>1, <2>1, <2>2, BecomeShape DEF CallControls
  <2> QED
    BY <1>2, <2>3 DEF CallControls, playerVars
<1>16. CheckPlayer => Shape' /\ Data
  <2> SUFFICES ASSUME CheckPlayer PROVE Shape' /\ Data
    OBVIOUS
  <2>1. Top = "check" /\ (Return \/ Become(<<"move", "hook">>) \/ Become(<<"move">>))
    BY DEF CheckPlayer, At
  <2>2. Scripts(stack) = {}
    BY <1>1, <2>1, BelowFacts DEF Controls
  <2>3. Shape'
    BY <1>1, <2>1, <2>2, BecomeShape DEF CheckPlayer
  <2>4. /\ movecode' \in {0, 1, 3} /\ path' \in 0 .. MaxPath /\ rewind' \in -1 .. MaxPath
        /\ walk' \in 0 .. MaxWalk /\ myself' = myself /\ speed' = speed
    BY <1>2 DEF CheckPlayer, SetMotionless, playerVars
  <2> QED
    BY <1>2, <2>3, <2>4 DEF CheckPlayer
<1>17. ReadKeys => Shape' /\ Data
  <2> SUFFICES ASSUME ReadKeys PROVE Shape' /\ Data
    OBVIOUS
  <2>1. Top = "move" /\ (Return \/ Become(<<"walk", "hook">>) \/ Become(<<"hook">>))
    BY DEF ReadKeys, At
  <2>2. Scripts(stack) = {}
    BY <1>1, <2>1, BelowFacts DEF Controls
  <2>3. Shape'
    BY <1>1, <2>1, <2>2, BecomeShape DEF ReadKeys
  <2> QED
    BY <1>2, <2>3 DEF ReadKeys, playerVars
<1>18. Walk => Shape' /\ Data
  BY <1>1, <1>2, BecomeShape DEF Walk, At
<1>19. Step => Shape' /\ Data
  BY <1>1, <1>2, BecomeShape DEF Step, At, playerVars
<1>20. NoScript => Shape' /\ Data
  BY <1>1, <1>2, BecomeShape DEF NoScript, At, playerVars
<1>21. RunScript => Shape' /\ Data
  <2> SUFFICES ASSUME RunScript PROVE Shape' /\ Data
    OBVIOUS
  <2>1. Shape'
    BY <1>1, RunShape
  <2>2. invc' \in 0 .. MaxNest
    BY <1>2 DEF RunScript
  <2> QED
    BY <1>2, <2>1, <2>2 DEF RunScript, playerVars
<1>22. ScriptReturns => Shape' /\ Data
  <2> SUFFICES ASSUME ScriptReturns PROVE Shape' /\ Data
    OBVIOUS
  <2>1. Shape' /\ invc \in Nat \ {0}
    BY <1>1, ReturnShape
  <2>2. invc' \in 0 .. MaxNest
    BY <1>2, <2>1 DEF ScriptReturns
  <2> QED
    BY <1>2, <2>1, <2>2 DEF ScriptReturns, playerVars
<1>23. PlayerMoveLoop => Shape' /\ Data
  <2> SUFFICES ASSUME PlayerMoveLoop PROVE Shape' /\ Data
    OBVIOUS
  <2>1. CASE CallOn(<<"hook", "tpe">>)
    BY <1>1, <1>2, <2>1, CallOnShape DEF PlayerMoveLoop, playerVars
  <2>2. CASE Become(<<"hook">>)
    BY <1>1, <1>2, <2>2, BecomeShape DEF PlayerMoveLoop, At, playerVars
  <2> QED
    BY <2>1, <2>2 DEF PlayerMoveLoop
<1>24. CallRender => Shape' /\ Data
  BY <1>1, <1>2, CallOnShape DEF CallRender, playerVars
<1>25. CallPlayerMove => Shape' /\ Data
  BY <1>1, <1>2, CallOnShape DEF CallPlayerMove, SetMoveScript
<1>26. CallEntityMove => Shape' /\ Data
  BY <1>2, <1>5 DEF CallEntityMove, SetMoveScript
<1>27. CallEntityStop => Shape' /\ Data
  BY <1>2, <1>5 DEF CallEntityStop, SetMotionless
<1>28. CallSetPlayer => Shape' /\ Data
  <2> SUFFICES ASSUME CallSetPlayer PROVE Shape' /\ Data
    OBVIOUS
  <2>1. stack' = stack /\ invc' = invc /\ lag' = lag /\ paused' = paused /\ done' = done
    BY DEF CallSetPlayer
  <2>2. myself' \in BOOLEAN /\ speed' \in Speeds
    <3>1. (myself' = TRUE /\ speed' \in Speeds) \/ (myself' = FALSE /\ speed' = 100)
      BY DEF CallSetPlayer
    <3> QED
      BY <1>2, <3>1
  <2>3. movecode' = 0 /\ path' = 0 /\ rewind' = -1 /\ walk' = 0
    BY DEF CallSetPlayer, SetMotionless
  <2>4. /\ movecode' \in {0, 1, 3} /\ path' \in 0 .. MaxPath
        /\ rewind' \in -1 .. MaxPath /\ walk' \in 0 .. MaxWalk
    BY <1>2, <2>3
  <2> QED
    BY <1>2, <1>5, <2>1, <2>2, <2>4
<1>29. CallSetEntitiesPaused => Shape' /\ Data
  BY <1>2, <1>5 DEF CallSetEntitiesPaused, playerVars
<1>30. CallMap => Shape' /\ Data
  BY <1>2, <1>5 DEF CallMap, playerVars
<1>31. CallEntitySetWander => Shape' /\ Data
  BY <1>2, <1>5 DEF CallEntitySetWander
<1>32. CallSetSpeed => Shape' /\ Data
  BY <1>2, <1>5 DEF CallSetSpeed
<1> QED
  BY <1>3, <1>4, <1>6, <1>7, <1>8, <1>9, <1>10, <1>11, <1>12, <1>13, <1>14, <1>15, <1>16,
     <1>17, <1>18, <1>19, <1>20, <1>21, <1>22, <1>23, <1>24, <1>25, <1>26, <1>27, <1>28,
     <1>29, <1>30, <1>31, <1>32
     DEF LoopNext, EngineStep, ScriptCalls

LEMMA LoopInvariant == LoopSpec => []LoopIInv
<1> QED
  BY LoopInitial, LoopStep, PTL DEF LoopSpec

(* For scripts nested to any depth and doing any of the calls: the stack   *)
(* is one the engine can build, and while any script on it runs the keys   *)
(* do not move the player.                                                 *)
THEOREM ScriptsHoldThePlayer == LoopSpec => []LoopInv
<1>1. LoopIInv => LoopInv
  <2> SUFFICES ASSUME LoopIInv, At("walk") PROVE \A i \in 1 .. Len(stack) : stack[i] # "script"
    BY DEF LoopIInv, LoopInv, ScriptsHoldControls
  <2>1. Top = "walk" /\ Shape
    BY DEF At, LoopIInv
  <2>2. Scripts(stack) = {}
    BY <2>1, BelowFacts DEF Controls
  <2> QED
    BY <2>2 DEF Scripts
<1> QED
  BY <1>1, LoopInvariant, PTL

(* invc, which the engine counts up and down in two functions, is the      *)
(* number of the scripts that run.                                         *)
THEOREM ScriptsAreCounted == LoopSpec => [](invc = Cardinality(Scripts(stack)))
<1>1. LoopIInv => invc = Cardinality(Scripts(stack))
  BY DEF LoopIInv, Shape
<1> QED
  BY <1>1, LoopInvariant, PTL

-----------------------------------------------------------------------------
(* Loops within loops.                                                     *)

(* A call of TimedProcessEntities, wherever it has got to.                 *)
Stage == {"tpe", "while", "inc"}

(* A frame is on the stack where the engine puts it: such a call is the    *)
(* main loop's own, at the third place, or two places above a script, or   *)
(* above the PlayerMove of a script.                                       *)
RootedAt(s, i) ==
  /\ s[i] = "main" => i = 1
  /\ s[i] = "pm" => i > 1 /\ s[i - 1] = "script"
  /\ s[i] \in Stage =>
       \/ i = 3
       \/ /\ i > 3 /\ s[i - 1] = "hook"
          /\ s[i - 2] = "script" \/ (s[i - 2] = "pm" /\ s[i - 3] = "script")

Rooted(s) == \A i \in 1 .. Len(s) : RootedAt(s, i)

(* Frames that may be anywhere.                                            *)
Loose == Frames \ (Stage \cup {"main", "pm"})

Incs(s) == {i \in 1 .. Len(s) : s[i] = "inc"}

LEMMA Placed ==
  ASSUME NEW s \in Seq(Frames), NEW fs \in Seq(Frames), NEW l \in 1 .. Len(fs)
  PROVE  (s \o fs)[Len(s) + l] = fs[l] /\ Len(s) + l \in 1 .. Len(s \o fs)
<1>1. /\ Len(s \o fs) = Len(s) + Len(fs)
      /\ \A k \in 1 .. (Len(s) + Len(fs)) :
           (s \o fs)[k] = IF k <= Len(s) THEN s[k] ELSE fs[k - Len(s)]
  BY ConcatProperties
<1>2. PICK n \in Nat, m \in Nat : n = Len(s) /\ m = Len(fs)
  OBVIOUS
<1>3. n + l \in 1 .. (n + m) /\ ~ (n + l <= n) /\ (n + l) - n = l
  BY <1>2
<1> QED
  BY <1>1, <1>2, <1>3

(* Two stacks that agree below a place agree there.                        *)
LEMMA SameRoots ==
  ASSUME NEW s, NEW t, NEW i \in Nat, i >= 1, RootedAt(s, i),
         \A k \in 1 .. (i - 1) : t[k] = s[k],
         t[i] = s[i] \/ (s[i] \in Stage /\ t[i] \in Stage), s[1] = "main"
  PROVE  RootedAt(t, i)
<1>1. i > 1 => i - 1 \in 1 .. (i - 1)
  OBVIOUS
<1>2. i > 3 => i - 1 \in 1 .. (i - 1) /\ i - 2 \in 1 .. (i - 1) /\ i - 3 \in 1 .. (i - 1)
  OBVIOUS
<1>3. "main" \notin Stage /\ "pm" \notin Stage
  BY DEF Stage
<1>4. t[i] = "main" => i = 1
  BY <1>3 DEF RootedAt
<1>5. t[i] = "pm" => i > 1 /\ t[i - 1] = "script"
  BY <1>1, <1>3 DEF RootedAt
<1>6. ASSUME t[i] \in Stage, i # 3
      PROVE  /\ i > 3 /\ t[i - 1] = "hook"
             /\ t[i - 2] = "script" \/ (t[i - 2] = "pm" /\ t[i - 3] = "script")
  <2>1. s[i] \in Stage
    BY <1>6
  <2>2. /\ i > 3 /\ s[i - 1] = "hook"
        /\ s[i - 2] = "script" \/ (s[i - 2] = "pm" /\ s[i - 3] = "script")
    BY <1>6, <2>1 DEF RootedAt
  <2>3. t[i - 1] = s[i - 1] /\ t[i - 2] = s[i - 2] /\ t[i - 3] = s[i - 3]
    BY <1>2, <2>2
  <2> QED
    BY <2>2, <2>3
<1> QED
  BY <1>4, <1>5, <1>6 DEF RootedAt

LEMMA RootedGrowth ==
  ASSUME NEW s \in Seq(Frames), NEW fs \in Seq(Frames), Rooted(s), Len(s) >= 1, s[1] = "main",
         \A l \in 1 .. Len(fs) : fs[l] \in Loose \/ RootedAt(s \o fs, Len(s) + l)
  PROVE  Rooted(s \o fs)
<1> SUFFICES ASSUME NEW i \in 1 .. Len(s \o fs) PROVE RootedAt(s \o fs, i)
  BY DEF Rooted
<1>1. PICK n \in Nat, m \in Nat : n = Len(s) /\ m = Len(fs)
  OBVIOUS
<1>2. Len(s \o fs) = n + m /\ \A k \in 1 .. n : (s \o fs)[k] = s[k]
  BY <1>1, Grown
<1>3. CASE i <= n
  <2>1. i \in Nat /\ i >= 1 /\ i \in 1 .. n /\ \A k \in 1 .. (i - 1) : k \in 1 .. n
    BY <1>1, <1>2, <1>3
  <2>2. RootedAt(s, i)
    BY <1>1, <2>1 DEF Rooted
  <2>3. \A k \in 1 .. (i - 1) : (s \o fs)[k] = s[k]
    BY <1>2, <2>1
  <2>4. (s \o fs)[i] = s[i]
    BY <1>2, <2>1
  <2> HIDE DEF Rooted
  <2> QED
    BY <2>1, <2>2, <2>3, <2>4, SameRoots
<1>4. CASE i > n
  <2>1. PICK l \in 1 .. m : i = n + l
    <3>1. i - n \in 1 .. m /\ i = n + (i - n)
      BY <1>1, <1>2, <1>4
    <3> QED
      BY <3>1
  <2>2. (s \o fs)[i] = fs[l]
    BY <1>1, <2>1, Placed
  <2>3. CASE fs[l] \in Loose
    BY <2>2, <2>3 DEF RootedAt, Loose
  <2>4. CASE RootedAt(s \o fs, n + l)
    BY <2>1, <2>4
  <2> QED
    BY <1>1, <2>3, <2>4
<1> QED
  BY <1>1, <1>2, <1>3, <1>4

LEMMA RootedBelow ==
  ASSUME Shape, Rooted(stack), Top # "main"
  PROVE  Rooted(Below)
<1>1. PICK n \in Nat : n = Len(stack) /\ n > 1
  BY StackFacts
<1>2. /\ Len(Below) = n - 1 /\ \A k \in 1 .. (n - 1) : Below[k] = stack[k]
      /\ stack[1] = "main"
  BY <1>1, StackFacts, Popped DEF Below
<1> SUFFICES ASSUME NEW i \in 1 .. (n - 1) PROVE RootedAt(Below, i)
  BY <1>2 DEF Rooted
<1>3. i \in Nat /\ i >= 1 /\ i \in 1 .. n /\ \A k \in 1 .. (i - 1) : k \in 1 .. (n - 1)
  BY <1>1
<1>4. RootedAt(stack, i)
  BY <1>1, <1>3 DEF Rooted
<1>5. \A k \in 1 .. (i - 1) : Below[k] = stack[k]
  BY <1>2, <1>3
<1>6. Below[i] = stack[i]
  BY <1>2
<1> QED
  BY <1>2, <1>3, <1>4, <1>5, <1>6, SameRoots

(* The top of the stack goes on as frames that may be anywhere.            *)
LEMMA RootedLoose ==
  ASSUME Shape, Rooted(stack), Top # "main", NEW fs \in Seq(Frames),
         \A l \in 1 .. Len(fs) : fs[l] \in Loose,
         Become(fs) \/ Return
  PROVE  Rooted(stack') /\ Incs(stack') \subseteq Incs(stack)
<1>1. PICK n \in Nat : n = Len(stack) /\ n > 1
  BY StackFacts
<1>2. /\ Below \in Seq(Frames) /\ Len(Below) = n - 1 /\ Below[1] = "main" /\ Rooted(Below)
      /\ \A k \in 1 .. (n - 1) : Below[k] = stack[k]
  BY <1>1, BelowFacts, RootedBelow, StackFacts, Popped DEF Below
<1>3. Incs(Below) \subseteq Incs(stack)
  BY <1>1, <1>2 DEF Incs
<1>4. CASE Return
  BY <1>2, <1>3, <1>4 DEF Return
<1>5. CASE Become(fs)
  <2>1. stack' = Below \o fs
    BY <1>5 DEF Become
  <2>2. Rooted(Below \o fs)
    BY <1>1, <1>2, RootedGrowth
  <2>3. Incs(Below \o fs) \subseteq Incs(Below)
    <3>1. \A k \in 1 .. Len(Below \o fs) : (Below \o fs)[k] = "inc" => k \in 1 .. Len(Below)
      BY <1>2, Grown DEF Loose, Stage
    <3>2. \A k \in 1 .. Len(Below) : (Below \o fs)[k] = Below[k]
      BY <1>2, Grown
    <3> QED
      BY <3>1, <3>2 DEF Incs
  <2> QED
    BY <1>3, <2>1, <2>2, <2>3
<1> QED
  BY <1>4, <1>5

(* TimedProcessEntities goes on: enters its loop, or takes a turn of it.   *)
LEMMA RootedStage ==
  ASSUME Shape, Rooted(stack), Top \in Stage, NEW fs \in Seq(Frames),
         Len(fs) >= 1, fs[1] \in Stage, \A l \in 2 .. Len(fs) : fs[l] \in Loose,
         Become(fs)
  PROVE  /\ Rooted(stack')
         /\ Incs(stack') \subseteq (Incs(stack) \ {Len(stack)}) \cup (IF fs[1] = "inc" THEN {Len(stack)} ELSE {})
<1>0. Top # "main"
  BY DEF Stage
<1>1. PICK n \in Nat : n = Len(stack) /\ n > 1
  BY <1>0, StackFacts
<1>2. /\ Below \in Seq(Frames) /\ Len(Below) = n - 1 /\ Below[1] = "main" /\ Rooted(Below)
      /\ \A k \in 1 .. (n - 1) : Below[k] = stack[k]
      /\ stack[1] = "main"
  BY <1>0, <1>1, BelowFacts, RootedBelow, StackFacts, Popped DEF Below
<1>3. stack' = Below \o fs
  BY DEF Become
<1>4. (n - 1) + 1 = n /\ 1 \in 1 .. Len(fs) /\ n \in 1 .. n
  BY <1>1
<1>5. (Below \o fs)[n] = fs[1]
  BY <1>2, <1>4, Placed
<1>6. \A k \in 1 .. (n - 1) : (Below \o fs)[k] = stack[k]
  BY <1>2, Grown
<1>7. RootedAt(stack, n) /\ stack[n] \in Stage
  BY <1>1, <1>4 DEF Rooted, Top
<1>8. RootedAt(Below \o fs, n)
  <2> DEFINE t == Below \o fs
  <2>1. t[n] \in Stage /\ \A k \in 1 .. (n - 1) : t[k] = stack[k]
    BY <1>5, <1>6
  <2>2. n >= 1 /\ stack[1] = "main"
    BY <1>1, <1>2
  <2> HIDE DEF t
  <2>3. RootedAt(t, n)
    BY <1>7, <2>1, <2>2, SameRoots
  <2> QED
    BY <2>3 DEF t
<1>9. \A l \in 1 .. Len(fs) : l = 1 \/ l \in 2 .. Len(fs)
  OBVIOUS
<1>10. \A l \in 1 .. Len(fs) : fs[l] \in Loose \/ RootedAt(Below \o fs, Len(Below) + l)
  BY <1>2, <1>4, <1>8, <1>9
<1>11. Rooted(Below \o fs)
  BY <1>1, <1>2, <1>10, RootedGrowth
<1>12. ASSUME NEW k \in Incs(Below \o fs)
       PROVE  k \in (Incs(stack) \ {n}) \cup (IF fs[1] = "inc" THEN {n} ELSE {})
  <2>1. k \in 1 .. Len(Below \o fs) /\ (Below \o fs)[k] = "inc"
    BY DEF Incs
  <2>2. CASE k \in 1 .. (n - 1)
    <3>1. k \in 1 .. n /\ k # n
      BY <1>1, <2>2
    <3> QED
      BY <1>1, <1>6, <2>1, <2>2, <3>1 DEF Incs
  <2>3. CASE k \notin 1 .. (n - 1)
    <3>1. PICK m \in Nat : m = Len(fs) /\ m >= 1
      OBVIOUS
    <3>2. Len(Below \o fs) = (n - 1) + m
      BY <1>2, <3>1, Grown
    <3>3. PICK l \in 1 .. m : k = (n - 1) + l
      <4>1. k - (n - 1) \in 1 .. m /\ k = (n - 1) + (k - (n - 1))
        BY <1>1, <2>1, <2>3, <3>1, <3>2
      <4> QED
        BY <4>1
    <3>4. (Below \o fs)[k] = fs[l]
      BY <1>2, <3>1, <3>3, Placed
    <3>5. l = 1
      BY <1>9, <2>1, <3>1, <3>4 DEF Loose, Stage
    <3> QED
      BY <1>4, <2>1, <3>3, <3>4, <3>5
  <2> QED
    BY <2>2, <2>3
<1> QED
  BY <1>1, <1>3, <1>11, <1>12

(* Frames are called above the top.                                        *)
LEMMA RootedCall ==
  ASSUME Shape, Rooted(stack), NEW fs \in Seq(Frames), CallOn(fs),
         \A l \in 1 .. Len(fs) : fs[l] # "inc",
         \A l \in 1 .. Len(fs) : fs[l] \in Loose \/ RootedAt(stack \o fs, Len(stack) + l)
  PROVE  Rooted(stack') /\ Incs(stack') \subseteq Incs(stack)
<1>1. stack' = stack \o fs /\ stack \in Seq(Frames) /\ Len(stack) >= 1 /\ stack[1] = "main"
  BY StackFacts DEF CallOn
<1>2. Rooted(stack \o fs)
  BY <1>1, RootedGrowth
<1>3. \A k \in 1 .. Len(stack \o fs) : (stack \o fs)[k] = "inc" => k \in 1 .. Len(stack)
  BY <1>1, Grown
<1>4. \A k \in 1 .. Len(stack) : (stack \o fs)[k] = stack[k]
  BY <1>1, Grown
<1> QED
  BY <1>1, <1>2, <1>3, <1>4 DEF Incs

(* TimedProcessEntities is called by the engine, Render and PlayerMove.    *)
LEMMA RootedMain ==
  ASSUME Shape, Rooted(stack), Top = "main", CallOn(<<"frame", "tpe", "hook">>)
  PROVE  Rooted(stack') /\ Incs(stack') \subseteq Incs(stack)
<1> DEFINE fs == <<"frame", "tpe", "hook">>
<1>1. /\ fs \in Seq(Frames) /\ Len(fs) = 3 /\ fs[1] = "frame" /\ fs[2] = "tpe" /\ fs[3] = "hook"
      /\ CallOn(fs)
  BY DEF Frames
<1> HIDE DEF fs
<1>2. stack \in Seq(Frames) /\ Len(stack) \in Nat \ {0}
  BY StackFacts
<1>3. Len(stack) = 1
  <2>1. Len(stack) \in 1 .. Len(stack)
    BY <1>2
  <2> QED
    BY <2>1 DEF Rooted, RootedAt, Top
<1>4. \A l \in 1 .. 3 : l = 1 \/ l = 2 \/ l = 3
  OBVIOUS
<1>5. 2 \in 1 .. Len(fs) /\ Len(stack) + 2 = 3
  BY <1>1, <1>3
<1>6. (stack \o fs)[3] = "tpe"
  BY <1>1, <1>2, <1>5, Placed
<1>7. RootedAt(stack \o fs, Len(stack) + 2)
  BY <1>5, <1>6 DEF RootedAt
<1>8. "frame" \in Loose /\ "hook" \in Loose
  BY DEF Loose, Frames, Stage
<1> QED
  BY <1>1, <1>4, <1>7, <1>8, RootedCall

LEMMA RootedRender ==
  ASSUME Shape, Rooted(stack), Top \in {"script", "pm"}, CallOn(<<"hook", "tpe">>)
  PROVE  Rooted(stack') /\ Incs(stack') \subseteq Incs(stack)
<1> DEFINE fs == <<"hook", "tpe">>
<1>1. /\ fs \in Seq(Frames) /\ Len(fs) = 2 /\ fs[1] = "hook" /\ fs[2] = "tpe" /\ CallOn(fs)
  BY DEF Frames
<1> HIDE DEF fs
<1>2. PICK n \in Nat : n = Len(stack) /\ n > 1 /\ stack \in Seq(Frames)
  BY StackFacts
<1>3. /\ stack[n] \in {"script", "pm"}
      /\ stack[n] = "pm" => stack[n - 1] = "script"
  <2>1. n \in 1 .. n
    BY <1>2
  <2> QED
    BY <1>2, <2>1 DEF Rooted, RootedAt, Top
<1>4. \A l \in 1 .. 2 : l = 1 \/ l = 2
  OBVIOUS
<1> DEFINE t == stack \o fs
<1>5. t[n + 2] = "tpe" /\ t[n + 1] = "hook"
  <2>1. 1 \in 1 .. Len(fs) /\ 2 \in 1 .. Len(fs)
    BY <1>1
  <2> QED
    BY <1>1, <1>2, <2>1, Placed
<1>6. t[n] = stack[n] /\ t[n - 1] = stack[n - 1]
  <2>1. n \in 1 .. n /\ n - 1 \in 1 .. n
    BY <1>2
  <2> QED
    BY <1>1, <1>2, <2>1, Grown
<1> HIDE DEF t
<1>7. (n + 2) - 1 = n + 1 /\ (n + 2) - 2 = n /\ (n + 2) - 3 = n - 1 /\ n + 2 > 3
  BY <1>2
<1>8. RootedAt(t, n + 2)
  BY <1>3, <1>5, <1>6, <1>7 DEF RootedAt
<1>9. RootedAt(stack \o fs, Len(stack) + 2)
  BY <1>2, <1>8 DEF t
<1>10. "hook" \in Loose
  BY DEF Loose, Frames, Stage
<1> QED
  BY <1>1, <1>4, <1>9, <1>10, RootedCall

LEMMA RootedPlayerMove ==
  ASSUME Shape, Rooted(stack), Top = "script", CallOn(<<"pm">>)
  PROVE  Rooted(stack') /\ Incs(stack') \subseteq Incs(stack)
<1> DEFINE fs == <<"pm">>
<1>1. fs \in Seq(Frames) /\ Len(fs) = 1 /\ fs[1] = "pm" /\ CallOn(fs)
  BY DEF Frames
<1> HIDE DEF fs
<1>2. PICK n \in Nat : n = Len(stack) /\ n > 1 /\ stack \in Seq(Frames)
  BY StackFacts
<1> DEFINE t == stack \o fs
<1>3. t[n + 1] = "pm" /\ t[n] = "script"
  <2>1. 1 \in 1 .. Len(fs) /\ n \in 1 .. n
    BY <1>1, <1>2
  <2> QED
    BY <1>1, <1>2, <2>1, Placed, Grown DEF Top
<1> HIDE DEF t
<1>4. (n + 1) - 1 = n /\ n + 1 > 1
  BY <1>2
<1>5. RootedAt(t, n + 1)
  BY <1>3, <1>4 DEF RootedAt, Stage
<1>6. RootedAt(stack \o fs, Len(stack) + 1)
  BY <1>2, <1>5 DEF t
<1>7. \A l \in 1 .. 1 : l = 1
  OBVIOUS
<1> QED
  BY <1>1, <1>6, <1>7, RootedCall

(* Above each script there is one loop at most, and one in Engine_Start.   *)
LEMMA OneLoopEach ==
  ASSUME NEW s \in Seq(Frames), Rooted(s)
  PROVE  /\ IsFiniteSet(Incs(s)) /\ Cardinality(Incs(s)) \in Nat
         /\ Cardinality(Incs(s)) <= Cardinality(Scripts(s)) + 1
<1>1. IsFiniteSet(Incs(s)) /\ Cardinality(Incs(s)) \in Nat
  <2>1. IsFiniteSet(1 .. Len(s)) /\ Incs(s) \subseteq 1 .. Len(s)
    BY FS_Interval DEF Incs
  <2> QED
    BY <2>1, FS_Subset, FS_CardinalityType
<1>2. IsFiniteSet(Scripts(s)) /\ Cardinality(Scripts(s)) \in Nat
  BY ScriptsFinite
<1> DEFINE S == Incs(s) \ {3}
           f == [i \in S |-> IF s[i - 2] = "script" THEN i - 2 ELSE i - 3]
<1>3. ASSUME NEW i \in S
      PROVE  /\ i \in 1 .. Len(s) /\ i > 3 /\ s[i - 1] = "hook"
             /\ s[i - 2] = "script" \/ (s[i - 2] = "pm" /\ s[i - 3] = "script")
  <2>1. i \in 1 .. Len(s) /\ s[i] = "inc" /\ i # 3
    BY DEF Incs
  <2>2. RootedAt(s, i) /\ s[i] \in Stage
    BY <2>1 DEF Rooted, Stage
  <2> QED
    BY <2>1, <2>2 DEF RootedAt
<1>4. \A i \in S : f[i] \in Scripts(s)
  <2> SUFFICES ASSUME NEW i \in S PROVE f[i] \in Scripts(s)
    OBVIOUS
  <2>1. i - 2 \in 1 .. Len(s) /\ i - 3 \in 1 .. Len(s)
    BY <1>3
  <2>2. f[i] = IF s[i - 2] = "script" THEN i - 2 ELSE i - 3
    OBVIOUS
  <2> HIDE DEF f
  <2> QED
    BY <1>3, <2>1, <2>2 DEF Scripts
<1>5. \A i, j \in S : f[i] = f[j] => i = j
  <2> SUFFICES ASSUME NEW i \in S, NEW j \in S, f[i] = f[j], i < j PROVE FALSE
    <3>1. \A i \in S : i \in Nat
      BY <1>3
    <3> QED
      BY <3>1
  <2>1. i \in Nat /\ j \in Nat
    BY <1>3
  <2>2. f[i] \in {i - 2, i - 3} /\ f[j] \in {j - 2, j - 3}
    OBVIOUS
  <2>3. j = i + 1 /\ f[i] = i - 2 /\ f[j] = j - 3
    BY <2>1, <2>2
  <2>4. s[j - 2] # "script" /\ j - 2 = i - 1
    BY <2>1, <2>3
  <2> QED
    BY <1>3, <2>4
<1>6. f \in Injection(S, Scripts(s))
  <2>1. f \in [S -> Scripts(s)]
    BY <1>4
  <2> HIDE DEF f
  <2> QED
    BY <1>5, <2>1 DEF Injection, IsInjective
<1>7. Cardinality(S) <= Cardinality(Scripts(s))
  BY <1>2, <1>6, FS_Injection
<1>8. Cardinality(S) = IF 3 \in Incs(s) THEN Cardinality(Incs(s)) - 1 ELSE Cardinality(Incs(s))
  BY <1>1, FS_RemoveElement
<1> HIDE DEF S
<1> QED
  BY <1>1, <1>2, <1>7, <1>8

LEMMA LooseFrames ==
  \A fs \in {<<"hook">>, <<"ctl">>, <<"check", "hook">>, <<"move", "hook">>, <<"move">>,
             <<"walk", "hook">>, <<"script">>} :
    fs \in Seq(Frames) /\ \A l \in 1 .. Len(fs) : fs[l] \in Loose /\ fs[l] # "inc"
<1>1. \A f \in {"hook", "ctl", "check", "move", "walk", "script"} : f \in Loose /\ f \in Frames /\ f # "inc"
  BY DEF Frames, Loose, Stage
<1>2. \A f \in Frames : <<f>> \in Seq(Frames) /\ Len(<<f>>) = 1 /\ <<f>>[1] = f
  OBVIOUS
<1>3. \A f, g \in Frames : /\ <<f, g>> \in Seq(Frames) /\ Len(<<f, g>>) = 2
                           /\ <<f, g>>[1] = f /\ <<f, g>>[2] = g
  OBVIOUS
<1>4. (\A l \in 1 .. 1 : l = 1) /\ (\A l \in 1 .. 2 : l = 1 \/ l = 2)
  OBVIOUS
<1>5. ASSUME NEW f \in {"hook", "ctl", "check", "move", "walk", "script"}
      PROVE  <<f>> \in Seq(Frames) /\ \A l \in 1 .. Len(<<f>>) : <<f>>[l] \in Loose /\ <<f>>[l] # "inc"
  BY <1>1, <1>2, <1>4
<1>6. ASSUME NEW f \in {"check", "move", "walk"}
      PROVE  /\ <<f, "hook">> \in Seq(Frames)
             /\ \A l \in 1 .. Len(<<f, "hook">>) : <<f, "hook">>[l] \in Loose /\ <<f, "hook">>[l] # "inc"
  BY <1>1, <1>3, <1>4
<1> QED
  BY <1>5, <1>6

(* What a step does to the loops on the stack and to the lag.              *)
LEMMA LoopsStep ==
  ASSUME LoopIInv, Rooted(stack), [LoopNext]_loopVars
  PROVE  /\ Rooted(stack')
         /\ \/ lag' >= lag /\ Incs(stack') \subseteq Incs(stack)
            \/ lag' >= 0
            \/ /\ lag' = lag - 1 /\ Len(stack) \in Incs(stack)
               /\ Incs(stack') \subseteq Incs(stack) \ {Len(stack)}
<1> USE LooseFrames
<1> DEFINE Goal == /\ Rooted(stack')
                   /\ \/ lag' >= lag /\ Incs(stack') \subseteq Incs(stack)
                      \/ lag' >= 0
                      \/ /\ lag' = lag - 1 /\ Len(stack) \in Incs(stack)
                         /\ Incs(stack') \subseteq Incs(stack) \ {Len(stack)}
<1>1. Shape /\ lag \in Int /\ Rooted(stack) /\ stack \in Seq(Frames) /\ Len(stack) \in Nat \ {0}
  BY StackFacts DEF LoopIInv, LoopTypeOK
<1>2. lag' = lag => lag' >= lag
  BY <1>1
<1>3. ASSUME stack' = stack, lag' >= lag \/ lag' >= 0 PROVE Goal
  BY <1>1, <1>3
<1>4. ASSUME Rooted(stack'), Incs(stack') \subseteq Incs(stack), lag' = lag \/ lag' = 0 PROVE Goal
  BY <1>1, <1>4
<1>5. UNCHANGED loopVars => Goal
  BY <1>2, <1>3 DEF loopVars
<1>6. ClockTick => Goal
  BY <1>1, <1>3 DEF ClockTick
<1>7. MainLoop => Goal
  BY <1>1, <1>4, RootedMain DEF MainLoop, At
<1>8. NextMap => Goal
  <2> SUFFICES ASSUME NextMap PROVE Goal
    OBVIOUS
  <2> DEFINE fs == <<"hook">>
  <2>1. CallOn(fs) /\ lag' = 0
    BY DEF NextMap
  <2>2. fs \in Seq(Frames) /\ Len(fs) = 1 /\ fs[1] = "hook" /\ fs[1] \in Loose
    BY DEF Frames, Loose
  <2> HIDE DEF fs
  <2>3. \A l \in 1 .. Len(fs) : fs[l] # "inc" /\ fs[l] \in Loose
    BY <2>2
  <2>4. Rooted(stack') /\ Incs(stack') \subseteq Incs(stack)
    BY <1>1, <2>1, <2>2, <2>3, RootedCall
  <2> QED
    BY <1>4, <2>1, <2>4
<1>9. Frame => Goal
  BY <1>1, <1>4, RootedLoose DEF Frame, At
<1>10. EnterProcess => Goal
  <2> SUFFICES ASSUME EnterProcess PROVE Goal
    OBVIOUS
  <2>1. Top = "tpe" /\ lag' = lag /\ (Return \/ Become(<<"while">>))
    BY DEF EnterProcess, At
  <2>2. CASE Return
    BY <1>1, <1>4, <2>1, <2>2, RootedLoose
  <2>3. CASE Become(<<"while">>)
    <3> DEFINE fs == <<"while">>
    <3>1. fs \in Seq(Frames) /\ Len(fs) = 1 /\ fs[1] = "while" /\ Top \in Stage /\ fs[1] \in Stage
      BY <2>1 DEF Frames, Stage
    <3>2. Become(fs)
      BY <2>3
    <3> HIDE DEF fs
    <3>3. \A l \in 2 .. Len(fs) : fs[l] \in Loose
      BY <3>1
    <3>4. Rooted(stack') /\ Incs(stack') \subseteq Incs(stack)
      BY <1>1, <3>1, <3>2, <3>3, RootedStage
    <3> QED
      BY <1>4, <2>1, <3>4
  <2> QED
    BY <2>1, <2>2, <2>3
<1>11. LoopTurn => Goal
  <2> SUFFICES ASSUME LoopTurn PROVE Goal
    OBVIOUS
  <2> DEFINE fs == <<"inc", "step", "ctl", "think", "hook">>
  <2>1. Top = "while" /\ lag' = lag /\ lag > 0 /\ Become(fs)
    BY DEF LoopTurn, At
  <2>2. /\ fs \in Seq(Frames) /\ Len(fs) = 5 /\ fs[1] = "inc" /\ Top \in Stage /\ fs[1] \in Stage
        /\ \A l \in 2 .. 5 : fs[l] \in Loose
    BY <2>1 DEF Frames, Stage, Loose
  <2> HIDE DEF fs
  <2>3. Rooted(stack')
    <3>1. Len(fs) >= 1 /\ \A l \in 2 .. Len(fs) : fs[l] \in Loose
      BY <2>2
    <3> QED
      BY <1>1, <2>1, <2>2, <3>1, RootedStage
  <2>4. lag' >= 0
    BY <1>1, <2>1
  <2> QED
    BY <2>3, <2>4
<1>12. LoopExit => Goal
  BY <1>1, <1>4, RootedLoose DEF LoopExit, At
<1>13. CountTick => Goal
  <2> SUFFICES ASSUME CountTick PROVE Goal
    OBVIOUS
  <2> DEFINE fs == <<"while">>
  <2>1. Top = "inc" /\ lag' = lag - 1 /\ Become(fs)
    BY DEF CountTick, At
  <2>2. fs \in Seq(Frames) /\ Len(fs) = 1 /\ fs[1] = "while" /\ Top \in Stage /\ fs[1] \in Stage
    BY <2>1 DEF Frames, Stage
  <2> HIDE DEF fs
  <2>3. \A l \in 2 .. Len(fs) : fs[l] \in Loose
    BY <2>2
  <2>4. Rooted(stack') /\ Incs(stack') \subseteq Incs(stack) \ {Len(stack)}
    BY <1>1, <2>1, <2>2, <2>3, RootedStage
  <2>5. Len(stack) \in Incs(stack)
    <3>1. Len(stack) \in 1 .. Len(stack)
      BY <1>1
    <3> QED
      BY <2>1, <3>1 DEF Incs, Top
  <2> QED
    BY <2>1, <2>4, <2>5
<1>14. PlayerThinks => Goal
  <2> SUFFICES ASSUME PlayerThinks PROVE Goal
    OBVIOUS
  <2>1. Top = "think" /\ (Become(<<"hook">>) \/ Become(<<"ctl">>)) /\ lag' = lag
    BY DEF PlayerThinks, At, NoTurn, WalksOn, Motionless, Wanders, do_movescript
  <2> QED
    BY <1>1, <1>4, <2>1, RootedLoose
<1>15. CallControls => Goal
  BY <1>1, <1>4, RootedLoose DEF CallControls, At
<1>16. CheckPlayer => Goal
  <2> SUFFICES ASSUME CheckPlayer PROVE Goal
    OBVIOUS
  <2>1. Top = "check" /\ (Return \/ Become(<<"move", "hook">>) \/ Become(<<"move">>)) /\ lag' = lag
    BY DEF CheckPlayer, At
  <2> QED
    BY <1>1, <1>4, <2>1, RootedLoose
<1>17. ReadKeys => Goal
  BY <1>1, <1>4, RootedLoose DEF ReadKeys, At
<1>18. Walk => Goal
  BY <1>1, <1>4, RootedLoose DEF Walk, At
<1>19. Step => Goal
  BY <1>1, <1>4, RootedLoose DEF Step, At
<1>20. NoScript => Goal
  BY <1>1, <1>4, RootedLoose DEF NoScript, At
<1>21. RunScript => Goal
  BY <1>1, <1>4, RootedLoose DEF RunScript, At
<1>22. ScriptReturns => Goal
  BY <1>1, <1>4, RootedLoose DEF ScriptReturns, At
<1>23. PlayerMoveLoop => Goal
  <2> SUFFICES ASSUME PlayerMoveLoop PROVE Goal
    OBVIOUS
  <2>1. Top = "pm" /\ lag' = lag /\ (CallOn(<<"hook", "tpe">>) \/ Become(<<"hook">>))
    BY DEF PlayerMoveLoop, At
  <2>2. CASE CallOn(<<"hook", "tpe">>)
    BY <1>1, <1>4, <2>1, <2>2, RootedRender
  <2>3. CASE Become(<<"hook">>)
    BY <1>1, <1>4, <2>1, <2>3, RootedLoose
  <2> QED
    BY <2>1, <2>2, <2>3
<1>24. CallRender => Goal
  BY <1>1, <1>4, RootedRender DEF CallRender, Script, At
<1>25. CallPlayerMove => Goal
  BY <1>1, <1>4, RootedPlayerMove DEF CallPlayerMove, Script, At
<1>26. CallEntityMove => Goal
  BY <1>2, <1>3 DEF CallEntityMove
<1>27. CallEntityStop => Goal
  BY <1>2, <1>3 DEF CallEntityStop
<1>28. CallSetPlayer => Goal
  BY <1>2, <1>3 DEF CallSetPlayer
<1>29. CallSetEntitiesPaused => Goal
  BY <1>1, <1>2, <1>3 DEF CallSetEntitiesPaused
<1>30. CallMap => Goal
  BY <1>2, <1>3 DEF CallMap
<1>31. CallEntitySetWander \/ CallSetSpeed => Goal
  BY <1>2, <1>3 DEF CallEntitySetWander, CallSetSpeed
<1> HIDE DEF Goal
<1>32. Goal
  BY <1>5, <1>6, <1>7, <1>8, <1>9, <1>10, <1>11, <1>12, <1>13, <1>14, <1>15, <1>16,
     <1>17, <1>18, <1>19, <1>20, <1>21, <1>22, <1>23, <1>24, <1>25, <1>26, <1>27, <1>28,
     <1>29, <1>30, <1>31
     DEF LoopNext, EngineStep, ScriptCalls
<1> QED
  BY <1>32 DEF Goal

LEMMA LagLeft ==
  ASSUME NEW a \in Int, NEW b \in Int, NEW l \in Nat, NEW m \in Nat, NEW N \in Nat,
         m <= N + 1, a >= l - (N + 1),
         (b >= a /\ m <= l) \/ b >= 0 \/ (b = a - 1 /\ m <= l - 1)
  PROVE  b >= m - (N + 1)
OBVIOUS

(* The entities never run ahead of the clock by more than a tick for each  *)
(* loop inside another, for scripts nested to any depth and any lag: each  *)
(* loop counts a tick only after it has seen one, and a script that starts *)
(* a loop is the only one between that loop and the next.                  *)
THEOREM EntitiesKeepTheClock == LoopSpec => []AheadByNestingOnly
<1> DEFINE Ahead == Rooted(stack) /\ AheadByNestingOnly
<1>1. Loops = Cardinality(Incs(stack)) /\ Loops' = Cardinality(Incs(stack'))
  BY DEF Loops, Incs
<1>2. LoopInit => Ahead
  <2> SUFFICES ASSUME LoopInit PROVE Ahead
    OBVIOUS
  <2>1. stack \in Seq(Frames) /\ Len(stack) = 2 /\ stack[1] = "main" /\ stack[2] = "hook"
    BY DEF LoopInit, Frames
  <2>2. \A k \in 1 .. 2 : k = 1 \/ k = 2
    OBVIOUS
  <2>3. Rooted(stack) /\ Incs(stack) = {}
    BY <2>1, <2>2 DEF Rooted, RootedAt, Stage, Incs
  <2>4. Loops = 0 /\ lag = 0 /\ MaxNest \in Nat
    BY <1>1, <2>3, FS_EmptySet, LoopAssumption DEF LoopInit
  <2> QED
    BY <2>3, <2>4 DEF AheadByNestingOnly
<1>3. LoopIInv /\ LoopIInv' /\ Ahead /\ [LoopNext]_loopVars => Ahead'
  <2> SUFFICES ASSUME LoopIInv, LoopIInv', Ahead, [LoopNext]_loopVars PROVE Ahead'
    OBVIOUS
  <2>1. /\ lag \in Int /\ lag' \in Int /\ stack \in Seq(Frames) /\ stack' \in Seq(Frames)
        /\ invc' \in 0 .. MaxNest /\ invc' = Cardinality(Scripts(stack')) /\ MaxNest \in Nat
    BY LoopAssumption DEF LoopIInv, LoopTypeOK, Shape
  <2>2. /\ Rooted(stack')
        /\ \/ lag' >= lag /\ Incs(stack') \subseteq Incs(stack)
           \/ lag' >= 0
           \/ /\ lag' = lag - 1 /\ Len(stack) \in Incs(stack)
              /\ Incs(stack') \subseteq Incs(stack) \ {Len(stack)}
    BY LoopsStep
  <2>3. /\ IsFiniteSet(Incs(stack)) /\ Loops \in Nat /\ Loops' \in Nat
        /\ Loops' <= MaxNest + 1
    <3>1. /\ IsFiniteSet(Incs(stack)) /\ Loops \in Nat
      BY <1>1, <2>1, OneLoopEach
    <3>2. Loops' \in Nat /\ Loops' <= invc' + 1
      BY <1>1, <2>1, <2>2, OneLoopEach
    <3> QED
      BY <2>1, <3>1, <3>2
  <2>4. lag >= Loops - (MaxNest + 1)
    BY DEF AheadByNestingOnly
  <2>5. ASSUME lag' >= Loops' - (MaxNest + 1) PROVE Ahead'
    <3>1. AheadByNestingOnly'
      BY <2>5 DEF AheadByNestingOnly
    <3> QED
      BY <2>2, <3>1
  <2>6. CASE lag' >= lag /\ Incs(stack') \subseteq Incs(stack)
    <3>1. Loops' <= Loops
      BY <1>1, <2>3, <2>6, FS_Subset
    <3>2. lag' >= Loops' - (MaxNest + 1)
      BY <2>1, <2>3, <2>4, <2>6, <3>1, LagLeft
    <3> QED
      BY <2>5, <3>2
  <2>7. CASE lag' >= 0
    <3>1. lag' >= Loops' - (MaxNest + 1)
      BY <2>1, <2>3, <2>4, <2>7, LagLeft
    <3> QED
      BY <2>5, <3>1
  <2>8. CASE /\ lag' = lag - 1 /\ Len(stack) \in Incs(stack)
             /\ Incs(stack') \subseteq Incs(stack) \ {Len(stack)}
    <3>1. /\ IsFiniteSet(Incs(stack) \ {Len(stack)})
          /\ Cardinality(Incs(stack) \ {Len(stack)}) = Loops - 1
      BY <1>1, <2>3, <2>8, FS_RemoveElement
    <3>2. Loops' <= Loops - 1
      BY <1>1, <2>8, <3>1, FS_Subset
    <3>3. lag' >= Loops' - (MaxNest + 1)
      BY <2>1, <2>3, <2>4, <2>8, <3>2, LagLeft
    <3> QED
      BY <2>5, <3>3
  <2> QED
    BY <2>2, <2>6, <2>7, <2>8
<1> QED
  BY <1>2, <1>3, LoopInvariant, LoopInitial, LoopStep, PTL DEF LoopSpec

=============================================================================
