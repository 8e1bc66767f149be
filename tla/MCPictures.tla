------------------------------ MODULE MCPictures ------------------------------
(* The three parts that keep pictures: the image handles, the CHRs and the *)
(* animated tiles.  They share no state, and each property is of one part, *)
(* so a behaviour moves one of them and leaves the others as they start.   *)
EXTENDS ImageHandles, ChrCache, TileAnimation

CONSTANTS w1, w2, m1, n1, n2, n3, c1, c2, c3

(* Two windows and a movie, handles added two at a time: the stack is      *)
(* filled more than once, and every pair of users meets.                   *)
SomeWindows == {w1, w2}
SomeMovies  == {m1}

(* Two slots, three files, and one address more than slots, so that an     *)
(* object may be loaded where another was deleted, or elsewhere.           *)
SomeNames == {n1, n2, n3}
SomeChrs  == {c1, c2, c3}

(* Every mode, with no delay, a delay and a negative one; strands that     *)
(* share tiles, among them a ping-pong strand that contains another; one   *)
(* that finishes before it starts; and ping-pong strands that lose their   *)
(* tiles, one of a single tile and one that another strand crosses.        *)
St(s, f, d, m) == [start |-> s, finish |-> f, delay |-> d, mode |-> m]

Mixed ==
  <<St(0, 2, 1, "pingpong"), St(3, 5, 1, "forward"), St(6, 7, -1, "backward"),
    St(7, 8, 2, "forward"), St(9, 10, 2, "random"), St(11, 11, 1, "pingpong"),
    St(12, 11, 1, "forward"), St(12, 12, 0, "forward"),
    St(13, 15, 1, "pingpong"), St(13, 14, 2, "forward"), St(14, 15, -1, "backward"),
    St(18, 20, 1, "pingpong"), St(16, 18, 1, "backward"), St(21, 22, 1, "other")>>

VARIABLE part    \* the part that moves

picturesVars == <<imgVars, chrVars, tileVars, part>>

PicturesInit ==
  /\ ImagesInit /\ ChrInit /\ TileInit
  /\ part \in {"images", "chrs", "tiles"}
  /\ part # "tiles" => systemtime = 0

PicturesNext ==
  \/ part = "images" /\ ImagesNext /\ UNCHANGED <<chrVars, tileVars, part>>
  \/ part = "chrs"   /\ ChrNext    /\ UNCHANGED <<imgVars, tileVars, part>>
  \/ part = "tiles"  /\ TileNext   /\ UNCHANGED <<imgVars, chrVars, part>>

PicturesSpec == PicturesInit /\ [][PicturesNext]_picturesVars
=============================================================================
