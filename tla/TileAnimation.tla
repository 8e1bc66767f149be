---------------------------- MODULE TileAnimation ----------------------------
(***************************************************************************)
(* The animated tiles of a tile set (g_vsp.cpp).  A strand is a range of   *)
(* tiles with a delay and a mode; tileidx says which picture is drawn for  *)
(* each tile.  The strands are stepped once for each tick of the timer     *)
(* since the last time a layer or a tile was drawn, one after another.     *)
(***************************************************************************)
EXTENDS Integers, Sequences, FiniteSets

CONSTANTS
  numtiles,   \* tiles of the set
  anims,      \* its strands: start, finish, delay and mode
  MaxTime     \* bound on the clock

(* The loader accepts any number as a mode; "other" is one that is none.   *)
Modes == {"forward", "backward", "random", "pingpong", "other"}
Strand == [start : Int, finish : Int, delay : Int, mode : Modes]

ASSUME TileAssumption ==
  /\ numtiles \in Nat
  /\ anims \in Seq(Strand)
  /\ MaxTime \in Nat

VARIABLES
  systemtime,  \* the clock, which the timer's thread moves
  mytimer,     \* the tick the strands were last stepped to
  loadtime,    \* history: the tick at which the set was loaded
  vadelay,     \* ticks since each strand was last moved
  tileidx,     \* the picture drawn for each tile
  flipped,     \* ping-pong: is the tile on its way back?
  strand       \* the strand AnimateTiles has come to, 0 outside of it

tileVars == <<systemtime, mytimer, loadtime, vadelay, tileidx, flipped, strand>>

Tiles   == 0 .. (numtiles - 1)
Strands == DOMAIN anims
Span(a) == anims[a].start .. anims[a].finish

(* A set with a strand out of its tiles ends the program; one that finishes*)
(* before it starts is accepted, and moves no tile.                        *)
ValidateAnimations ==
  \A a \in Strands : anims[a].start \in Tiles /\ anims[a].finish \in Tiles

NoDelay == [a \in Strands |-> 0]
Own     == [l \in Tiles |-> l]
NoFlip  == [l \in Tiles |-> FALSE]

(* LoadVSP sets mytimer too: the ticks before it are not made up for.      *)
TileInit ==
  /\ ValidateAnimations
  /\ systemtime \in 0 .. MaxTime
  /\ mytimer = systemtime /\ loadtime = systemtime
  /\ vadelay = NoDelay /\ tileidx = Own /\ flipped = NoFlip
  /\ strand = 0

-----------------------------------------------------------------------------

TimerTick ==
  /\ systemtime < MaxTime
  /\ systemtime' = systemtime + 1
  /\ UNCHANGED <<mytimer, loadtime, vadelay, tileidx, flipped, strand>>

(* Mutant: the clock of the new set starts at nought.                      *)
LoadTilesFromZero ==
  /\ strand = 0
  /\ mytimer' = 0 /\ loadtime' = systemtime
  /\ vadelay' = NoDelay /\ tileidx' = Own /\ flipped' = NoFlip
  /\ UNCHANGED <<systemtime, strand>>

(* LoadVSP for another map with the same set.                              *)
LoadTiles ==
  /\ strand = 0
  /\ mytimer' = systemtime /\ loadtime' = systemtime
  /\ vadelay' = NoDelay /\ tileidx' = Own /\ flipped' = NoFlip
  /\ UNCHANGED <<systemtime, strand>>

(* UpdateAnimations: while (mytimer < systemtime) AnimateTiles().          *)
UpdateAnimations ==
  /\ strand = 0 /\ mytimer < systemtime
  /\ strand' = 1
  /\ UNCHANGED <<systemtime, mytimer, loadtime, vadelay, tileidx, flipped>>

(* What rnd may answer for each tile of the strand.                        *)
Rolls(a) ==
  IF anims[a].mode = "random" THEN [Span(a) -> Span(a)] ELSE {[l \in Span(a) |-> l]}

(* Mutant: a strand that goes forward passes its finish.                   *)
AnimateTilePastFinish(s, idx, flip, roll) ==
  CASE s.mode = "forward"  -> IF idx <= s.finish THEN idx + 1 ELSE s.start
    [] s.mode = "backward" -> IF idx > s.start THEN idx - 1 ELSE s.finish
    [] s.mode = "random"   -> roll
    [] s.mode = "pingpong" -> IF flip THEN IF idx # s.start THEN idx - 1 ELSE idx + 1
                                      ELSE IF idx # s.finish THEN idx + 1 ELSE idx - 1
    [] OTHER               -> idx

(* The next picture of a tile that shows idx.                              *)
AnimateTile(s, idx, flip, roll) ==
  CASE s.mode = "forward"  -> IF idx < s.finish THEN idx + 1 ELSE s.start
    [] s.mode = "backward" -> IF idx > s.start THEN idx - 1 ELSE s.finish
    [] s.mode = "random"   -> roll
    [] s.mode = "pingpong" -> IF flip THEN IF idx # s.start THEN idx - 1 ELSE idx + 1
                                      ELSE IF idx # s.finish THEN idx + 1 ELSE idx - 1
    [] OTHER               -> idx

(* Whether the tile is then on its way back.                               *)
FlipTile(s, idx, flip) ==
  IF s.mode # "pingpong" THEN flip ELSE IF flip THEN idx # s.start ELSE idx = s.finish

Due(a) == anims[a].delay # 0 /\ anims[a].delay < vadelay[a]

(* The counter of a strand that moves is set back before it is counted up. *)
CountDelay(a) == vadelay' = [vadelay EXCEPT ![a] = (IF Due(a) THEN 0 ELSE @) + 1]

(* AnimateTiles, one turn of its loop.                                     *)
AnimateStrand ==
  /\ strand \in Strands
  /\ IF Due(strand)
     THEN \E roll \in Rolls(strand) :
            /\ tileidx' = [l \in Tiles |-> IF l \in Span(strand)
                 THEN AnimateTile(anims[strand], tileidx[l], flipped[l], roll[l]) ELSE tileidx[l]]
            /\ flipped' = [l \in Tiles |-> IF l \in Span(strand)
                 THEN FlipTile(anims[strand], tileidx[l], flipped[l]) ELSE flipped[l]]
     ELSE UNCHANGED <<tileidx, flipped>>
  /\ CountDelay(strand)
  /\ strand' = strand + 1
  /\ UNCHANGED <<systemtime, mytimer, loadtime>>

CountTick ==
  /\ strand = Len(anims) + 1
  /\ mytimer' = mytimer + 1
  /\ strand' = 0
  /\ UNCHANGED <<systemtime, loadtime, vadelay, tileidx, flipped>>

TileNext == TimerTick \/ LoadTiles \/ UpdateAnimations \/ AnimateStrand \/ CountTick

TileSpec == TileInit /\ [][TileNext]_tileVars

-----------------------------------------------------------------------------
(* Properties.                                                             *)

(* Among the types: the strands are never ahead of the clock.              *)
TileTypeOK ==
  /\ systemtime \in 0 .. MaxTime
  /\ mytimer \in loadtime .. systemtime /\ loadtime \in Nat
  /\ strand # 0 => mytimer < systemtime
  /\ vadelay \in [Strands -> Nat]
  /\ tileidx \in [Tiles -> Int] /\ flipped \in [Tiles -> BOOLEAN]
  /\ strand \in 0 .. (Len(anims) + 1)

StrandsOf == [l \in Tiles |-> {a \in Strands : l \in Span(a)}]

(* Ping-pong looks for the ends of its strand, and keeps to it only where  *)
(* it has two of them and no other strand takes the tile beyond them.      *)
Tame(l) ==
  \A a \in StrandsOf[l] :
    anims[a].mode = "pingpong" =>
      /\ anims[a].start < anims[a].finish
      /\ \A b \in StrandsOf[l] : Span(b) \subseteq Span(a)

TameTiles == {l \in Tiles : Tame(l)}

(* The loading check holds on: the picture drawn for a tile is one of a    *)
(* strand that moves the tile, whatever its strands do one after another   *)
(* (a tile may be in several), so it never leaves the tile set.  Excepted  *)
(* are the tiles of a ping-pong strand of a single tile, and those one     *)
(* shares with a strand it does not contain: there the picture may pass an *)
(* end while it goes away from it, and walks on below or beyond the set.   *)
TilesInStrand ==
  \A l \in TameTiles :
    \/ tileidx[l] = l
    \/ \E a, b \in StrandsOf[l] : anims[a].start <= tileidx[l] /\ tileidx[l] <= anims[b].finish

(* The strands are behind the clock and every picture is in a strand.      *)
TileInv == TileTypeOK /\ TilesInStrand

(* How often a strand of delay d has moved after k ticks: with no delay    *)
(* never, with one every d+1 ticks, the first time a tick late.            *)
Moves(d, k) ==
  IF d = 0 \/ k = 0 THEN 0 ELSE IF d < 0 THEN k ELSE (k - 1) \div (d + 1)

(* The picture of a tile of the strand after n moves.                      *)
PictureAfter(s, l, n) ==
  LET len  == s.finish - s.start + 1
      turn == 2 * (len - 1)
      far  == (l - s.start + n) % turn
  IN CASE s.mode = "forward"  -> s.start + ((l - s.start + n) % len)
       [] s.mode = "backward" -> s.start + ((l - s.start - n) % len)
       [] s.mode = "pingpong" -> s.start + (IF far < len THEN far ELSE turn - far)
       [] OTHER               -> l

Ticked(a) == (mytimer - loadtime) + (IF strand > a THEN 1 ELSE 0)

(* Each tile shows the picture its strand's mode and delay give it for the *)
(* time since the set was loaded, however rarely layers are drawn and      *)
(* however many ticks are made up for in one go.                           *)
TilesOnTime ==
  \A l \in TameTiles : \A a \in StrandsOf[l] :
    StrandsOf[l] = {a} /\ anims[a].mode # "random" =>
      tileidx[l] = PictureAfter(anims[a], l, Moves(anims[a].delay, Ticked(a)))

=============================================================================
