---------------------------- MODULE ImageHandles ----------------------------
(***************************************************************************)
(* The image handles of the engine: the handle set of a_handle.h for       *)
(* HANDLE_TYPE_IMAGE, and everyone who allocates, frees and overwrites its *)
(* handles: the script's images (g_script.cpp), the auxiliary windows      *)
(* (vid_ddbase.cpp), the movies (win_movie.cpp) and the tile set           *)
(* (g_vsp.cpp).  Handle 1 is the screen, handle 2 the tile set of the map. *)
(*                                                                         *)
(* The script is handed numbers, and may pass any number to FreeImage; the *)
(* constant OwnImagesOnly restricts it to the images it made itself.       *)
(***************************************************************************)
EXTENDS Integers, Sequences, FiniteSets

CONSTANTS
  Windows, Movies,   \* auxiliary windows and movies, open or not
  Chunk,             \* handles added when none is free (16 in the code)
  MaxHandles,        \* bound on the handles of the set, and on its stack
  MaxImages,         \* bound on the images the script holds
  OwnImagesOnly      \* does the script free only images it made?

Parts == Windows \cup Movies

ASSUME ImagesAssumption ==
  /\ Chunk \in Nat \ {0}
  /\ MaxHandles \in Nat /\ MaxHandles >= 3
  /\ MaxImages \in Nat
  /\ OwnImagesOnly \in BOOLEAN
  /\ Parts \cap {"none", "screen", "vsp", "script"} = {}
  /\ Windows \cap Movies = {}

Handles  == 0 .. (MaxHandles - 1)
Reserved == 0 .. 2     \* InitVideo: forceAlloc(HANDLE_TYPE_IMAGE, 3)
NULL     == "none"
Images   == Parts \cup {"screen", "vsp", "script"}

VARIABLES
  handles,       \* the stack of free handles, its top last
  handleCount,   \* how many handles there are
  handleVals,    \* the image of each handle, named by who made it
  imgHandle,     \* the handle a window or movie keeps, 0 when closed
  refs           \* the handles the script got for images it made

setVars == <<handles, handleCount, handleVals>>
imgVars == <<handles, handleCount, handleVals, imgHandle, refs>>

-----------------------------------------------------------------------------
(* The handle set.                                                         *)

FreeStack == IF handles = <<>>
             THEN [i \in 1 .. Chunk |-> handleCount + i - 1]
             ELSE handles

GrownCount == IF handles = <<>> THEN handleCount + Chunk ELSE handleCount

(* Mutant: the handle given out stays on the stack.                        *)
AllocUnpopped(ptr, h) ==
  /\ GrownCount <= MaxHandles
  /\ h = FreeStack[Len(FreeStack)]
  /\ handles' = FreeStack
  /\ handleCount' = GrownCount
  /\ handleVals' = [handleVals EXCEPT ![h] = ptr]

(* Mutant: the set forgets that it grew.                                   *)
AllocUncounted(ptr, h) ==
  /\ GrownCount <= MaxHandles
  /\ h = FreeStack[Len(FreeStack)]
  /\ handles' = SubSeq(FreeStack, 1, Len(FreeStack) - 1)
  /\ handleCount' = handleCount
  /\ handleVals' = [handleVals EXCEPT ![h] = ptr]

(* HandleForImage: the top of the stack, which is filled when empty.       *)
Alloc(ptr, h) ==
  /\ GrownCount <= MaxHandles
  /\ h = FreeStack[Len(FreeStack)]
  /\ handles' = SubSeq(FreeStack, 1, Len(FreeStack) - 1)
  /\ handleCount' = GrownCount
  /\ handleVals' = [handleVals EXCEPT ![h] = ptr]

(* Mutant: a freed handle keeps its image.                                 *)
FreeHandleKeepsImage(h) ==
  /\ Len(handles) < MaxHandles
  /\ handles' = Append(handles, h)
  /\ UNCHANGED <<handleCount, handleVals>>

(* FreeImageHandle, whatever the state of the handle.                      *)
FreeHandle(h) ==
  /\ Len(handles) < MaxHandles
  /\ handleVals' = [handleVals EXCEPT ![h] = NULL]
  /\ handles' = Append(handles, h)
  /\ UNCHANGED handleCount

SetHandleImage(h, ptr) ==
  /\ handleVals' = [handleVals EXCEPT ![h] = ptr]
  /\ UNCHANGED <<handles, handleCount>>

ImageValid(h) == 0 < h /\ h < handleCount /\ handleVals[h] # NULL

-----------------------------------------------------------------------------
(* Its users.                                                              *)

ImagesInit ==
  /\ handles = <<>>
  /\ handleCount = 3
  /\ handleVals = [h \in Handles |-> IF h = 1 THEN "screen" ELSE NULL]
  /\ imgHandle = [p \in Parts |-> 0]
  /\ refs = {}

(* LoadImage, LoadImage0, LoadImage8, ImageShell, GetImageFromClipboard... *)
LoadImage ==
  \E h \in Handles :
    /\ Cardinality(refs) < MaxImages
    /\ Alloc("script", h)
    /\ refs' = refs \cup {h}
    /\ UNCHANGED imgHandle

(* Any other handle ends the program with a message.                       *)
FreeImage(h) ==
  /\ h \notin {0, 1} /\ ImageValid(h)
  /\ OwnImagesOnly => h \in refs
  /\ FreeHandle(h)
  /\ refs' = refs \ {h}
  /\ UNCHANGED imgHandle

(* The constructor takes a handle before there is an image to put there.   *)
OpenWindow(w) ==
  /\ imgHandle[w] = 0
  /\ \E h \in Handles : Alloc(NULL, h) /\ imgHandle' = [imgHandle EXCEPT ![w] = h]
  /\ UNCHANGED refs

(* setupDummyImage and set_win, when the window is made and resized.       *)
SetWindowImage(w) ==
  /\ imgHandle[w] # 0
  /\ SetHandleImage(imgHandle[w], w)
  /\ UNCHANGED <<imgHandle, refs>>

MovieLoad(m) ==
  /\ imgHandle[m] = 0
  /\ \E h \in Handles : Alloc(m, h) /\ imgHandle' = [imgHandle EXCEPT ![m] = h]
  /\ UNCHANGED refs

(* Mutant: the handle is not given back.                                   *)
ClosePartLeaks(p) ==
  /\ imgHandle[p] # 0
  /\ imgHandle' = [imgHandle EXCEPT ![p] = 0]
  /\ UNCHANGED <<setVars, refs>>

(* dd_Window::dispose and ~win_movie_Rec.                                  *)
ClosePart(p) ==
  /\ imgHandle[p] # 0
  /\ FreeHandle(imgHandle[p])
  /\ imgHandle' = [imgHandle EXCEPT ![p] = 0]
  /\ UNCHANGED refs

(* Every map brings a tile set.                                            *)
LoadVSP == SetHandleImage(2, "vsp") /\ UNCHANGED <<imgHandle, refs>>

(* vid_SetMode renews the screen.                                          *)
RenewScreen == SetHandleImage(1, "screen") /\ UNCHANGED <<imgHandle, refs>>

ImagesNext ==
  \/ LoadImage
  \/ \E h \in Handles : FreeImage(h)
  \/ \E w \in Windows : OpenWindow(w) \/ SetWindowImage(w)
  \/ \E m \in Movies : MovieLoad(m)
  \/ \E p \in Parts : ClosePart(p)
  \/ LoadVSP
  \/ RenewScreen

ImagesSpec == ImagesInit /\ [][ImagesNext]_imgVars

-----------------------------------------------------------------------------
(* Properties.                                                             *)

FreeSet == {handles[i] : i \in 1 .. Len(handles)}
Open    == {p \in Parts : imgHandle[p] # 0}
Held    == refs \cup {imgHandle[p] : p \in Open}

(* The handles given out and given back are all between 0 and the count.   *)
ImagesTypeOK ==
  /\ handles \in Seq(Handles)
  /\ handleCount \in 3 .. MaxHandles
  /\ handleVals \in [Handles -> Images \cup {NULL}]
  /\ imgHandle \in [Parts -> Handles]
  /\ refs \subseteq Handles

(* The stack never offers a handle that is reserved, that someone holds,   *)
(* or that it offers already.                                              *)
FreeListSound ==
  /\ \A i, j \in 1 .. Len(handles) : i # j => handles[i] # handles[j]
  /\ FreeSet \cap (Reserved \cup Held) = {}
  /\ \A h \in FreeSet : handleVals[h] = NULL

(* No two users hold one handle.                                           *)
Exclusive ==
  /\ \A p, q \in Open : p # q => imgHandle[p] # imgHandle[q]
  /\ \A p \in Open : imgHandle[p] \notin refs

(* Each user finds its own image behind its handle, from when it was put   *)
(* there until the user frees it.                                          *)
KeepsImage ==
  /\ \A h \in refs : handleVals[h] = "script"
  /\ \A m \in Movies \cap Open : handleVals[imgHandle[m]] = m
  /\ \A w \in Windows \cap Open : handleVals[imgHandle[w]] \in {NULL, w}

(* No handle is lost: each is reserved, held or free.                      *)
NothingLost == 0 .. (handleCount - 1) = Reserved \cup Held \cup FreeSet

(* The handles of each user, for HandlePool.                               *)
Users  == Parts \cup {"script"}
HeldBy == [u \in Users |-> IF u = "script" THEN refs ELSE {imgHandle[u]} \ {0}]

Pool == INSTANCE HandlePool WITH owned <- HeldBy
(* alloc and free keep the promise of HandlePool to the users of the set.  *)
PoolKept == Pool!PoolSpec

=============================================================================
