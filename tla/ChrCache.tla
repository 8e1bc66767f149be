------------------------------ MODULE ChrCache ------------------------------
(***************************************************************************)
(* The cache of CHR objects (the sprite sheets entities wear): RequestCHR  *)
(* and CleanupCHRs of g_engine.cpp, called when an entity is made, when a  *)
(* script changes the CHR of one, and when a map has been loaded.          *)
(*                                                                         *)
(* The objects are not counted: an object is in use when an entity points  *)
(* to it.  Objects are named by their address, and the address of a        *)
(* deleted object may be that of the next one.                             *)
(***************************************************************************)
EXTENDS Integers, Sequences, FiniteSets

CONSTANTS
  Names,         \* CHR files; names that strcasecmp finds equal are one
  Chrs,          \* addresses of CHR objects
  MAXCHRS,       \* slots of the cache (256 in the code)
  MaxEntities    \* bound on the entities of a map

ASSUME ChrAssumption ==
  /\ MAXCHRS \in Nat \ {0}
  /\ MaxEntities \in Nat
  /\ "none" \notin Names

Slots == 0 .. (MAXCHRS - 1)
Nil   == "none"

VARIABLES
  chrnodes,  \* the slots; a slot that is not active keeps what it held
  memory,    \* the file loaded at each address, Nil when deleted
  entity,    \* the CHR each entity points to, oldest entity first
  asked,     \* the file last asked for, for each of them
  phase,     \* "out" of a map, "loading" one, "in" one
  failed     \* has err ended the program?

chrVars == <<chrnodes, memory, entity, asked, phase, failed>>

Node == [active : {TRUE}, fname : Names, chr : Chrs]
          \cup [active : {FALSE}, fname : Names \cup {Nil}, chr : Chrs \cup {Nil}]

ChrInit ==
  /\ chrnodes = [s \in Slots |-> [active |-> FALSE, fname |-> Nil, chr |-> Nil]]
  /\ memory = [c \in Chrs |-> Nil]
  /\ entity = <<>> /\ asked = <<>>
  /\ phase = "out" /\ failed = FALSE

-----------------------------------------------------------------------------
(* The cache.                                                              *)

Active(nodes) == {s \in Slots : nodes[s].active}
Worn          == {entity[i] : i \in DOMAIN entity}
Tossed        == {s \in Active(chrnodes) : chrnodes[s].chr \notin Worn}

(* What CleanupCHRs leaves of the slots and of the objects; it returns     *)
(* whether it tossed any.                                                  *)
CleanedNodes == [s \in Slots |-> IF s \in Tossed THEN [chrnodes[s] EXCEPT !.active = FALSE]
                                  ELSE chrnodes[s]]

(* Mutant: the objects of the tossed slots are not deleted.                *)
CleanedMemoryLeaks == memory

CleanedMemory == [c \in Chrs |-> IF \E s \in Tossed : chrnodes[s].chr = c
                                 THEN Nil ELSE memory[c]]

CleanupCHRs == chrnodes' = CleanedNodes /\ memory' = CleanedMemory

(* Mutant: the search does not skip the slots that are not active.         *)
HitsStale(nodes, name) == {s \in Slots : nodes[s].fname = name}

Hits(nodes, name) == {s \in Active(nodes) : nodes[s].fname = name}

(* Loading the file into the first free slot.                              *)
Load(nodes, mem, name, c) ==
  \E s \in Slots \ Active(nodes) :
    /\ \A q \in Slots \ Active(nodes) : s <= q
    /\ c \in Chrs /\ mem[c] = Nil
    /\ chrnodes' = [nodes EXCEPT ![s] = [active |-> TRUE, fname |-> name, chr |-> c]]
    /\ memory' = [mem EXCEPT ![c] = name]

(* RequestCHR returns c: an object of the cache, else one loaded now, if   *)
(* need be after a cleanup.                                                *)
RequestCHR(name, c) ==
  \/ /\ \E s \in Hits(chrnodes, name) : c = chrnodes[s].chr
     /\ UNCHANGED <<chrnodes, memory>>
  \/ /\ Hits(chrnodes, name) = {}
     /\ Active(chrnodes) # Slots
     /\ Load(chrnodes, memory, name, c)
  \/ /\ Hits(chrnodes, name) = {}
     /\ Active(chrnodes) = Slots
     /\ Load(CleanedNodes, CleanedMemory, name, c)

(* Mutant: it gives up before it has tried to clean up.                    *)
RequestRefusedEarly(name) ==
  /\ Hits(chrnodes, name) = {} /\ Active(chrnodes) = Slots
  /\ failed' = TRUE
  /\ UNCHANGED <<chrnodes, memory, entity, phase>>

RequestRefused(name) ==
  /\ Hits(chrnodes, name) = {} /\ Active(chrnodes) = Slots /\ Tossed = {}
  /\ failed' = TRUE
  /\ UNCHANGED <<chrnodes, memory, entity, phase>>

-----------------------------------------------------------------------------
(* Its users.  After err nothing happens any more.                         *)

(* AllocateEntity: the entity is counted only when its CHR was found.      *)
AllocateEntity(name) ==
  /\ ~failed /\ Len(entity) < MaxEntities
  /\ asked' = Append(asked, name)
  /\ \/ \E c \in Chrs \cup {Nil} : /\ RequestCHR(name, c)
                                      /\ entity' = Append(entity, c)
                                      /\ UNCHANGED <<phase, failed>>
     \/ RequestRefused(name)

(* The CHR the entity wore stays in the cache.                             *)
SetChr(i, name) ==
  /\ ~failed
  /\ asked' = [asked EXCEPT ![i] = name]
  /\ \/ \E c \in Chrs \cup {Nil} : /\ RequestCHR(name, c)
                                      /\ entity' = [entity EXCEPT ![i] = c]
                                      /\ UNCHANGED <<phase, failed>>
     \/ RequestRefused(name)

(* Engine_Start forgets the entities a script made out of a map; then the  *)
(* constructor of MAP allocates its own and runs the start script.         *)
StartMap ==
  /\ ~failed /\ phase = "out"
  /\ phase' = "loading"
  /\ entity' = <<>> /\ asked' = <<>>
  /\ UNCHANGED <<chrnodes, memory, failed>>

MapLoaded ==
  /\ ~failed /\ phase = "loading"
  /\ CleanupCHRs
  /\ phase' = "in"
  /\ UNCHANGED <<entity, asked, failed>>

(* ~MAP deletes the entities and leaves the cache for the next map.        *)
LeaveMap ==
  /\ ~failed /\ phase = "in"
  /\ phase' = "out"
  /\ entity' = <<>> /\ asked' = <<>>
  /\ UNCHANGED <<chrnodes, memory, failed>>

ChrNext ==
  \/ \E name \in Names : AllocateEntity(name)
  \/ \E name \in Names : \E i \in DOMAIN entity : SetChr(i, name)
  \/ StartMap \/ MapLoaded \/ LeaveMap

ChrSpec == ChrInit /\ [][ChrNext]_chrVars

-----------------------------------------------------------------------------
(* Properties.                                                             *)

(* The slots, the objects and what the entities were asked to wear stay    *)
(* within the files that exist, also while a file is being loaded.         *)
ChrTypeOK ==
  /\ chrnodes \in [Slots -> Node]
  /\ memory \in [Chrs -> Names \cup {Nil}]
  /\ entity \in Seq(Chrs) /\ asked \in Seq(Names)
  /\ phase \in {"out", "loading", "in"} /\ failed \in BOOLEAN

(* Each entity points to an object that is not deleted, and that holds the *)
(* file last asked for, whatever was loaded and tossed in between.         *)
WearsWhatWasAsked ==
  ~failed => \A i \in DOMAIN entity : memory[entity[i]] = asked[i]

(* No file is loaded twice, and no object is lost: the active slots name   *)
(* the loaded objects, one each.                                           *)
CacheExact ==
  /\ \A s, q \in Active(chrnodes) :
       s # q => chrnodes[s].fname # chrnodes[q].fname /\ chrnodes[s].chr # chrnodes[q].chr
  /\ \A s \in Active(chrnodes) : memory[chrnodes[s].chr] = chrnodes[s].fname
  /\ \A c \in Chrs : memory[c] # Nil => \E s \in Active(chrnodes) : chrnodes[s].chr = c

(* The program gives up on a CHR only when the entities wear as many files *)
(* as the cache has slots: whatever nobody wears is cleaned up first.      *)
RefusedOnlyWhenFull ==
  [][ failed' # failed => Cardinality({asked[i] : i \in DOMAIN asked}) >= MAXCHRS ]_chrVars

=============================================================================
