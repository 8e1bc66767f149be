---------------------------- MODULE Pictures_proofs ----------------------------
(***************************************************************************)
(* Which picture is drawn for a tile and for an entity.                    *)
(*                                                                         *)
(* No entity points to a deleted CHR, and each wears the file last asked   *)
(* for: proved for any number of slots, files and entities.  The inductive *)
(* invariant adds that the CHR of every entity is in an active slot:       *)
(* CleanupCHRs deletes what it finds in the slots, and finds there         *)
(* everything that is loaded.                                              *)
(*                                                                         *)
(* For every tile set, pictures never leave the strands of their tile, so  *)
(* what the loader checked once holds whenever a tile is drawn.  And they  *)
(* are on time: the counter of a strand divides the ticks by its delay,    *)
(* and a picture is where its mode leads after so many moves.              *)
(***************************************************************************)
EXTENDS ChrCache, TileAnimation, FiniteSetTheorems, TLAPS

-----------------------------------------------------------------------------
(* The cache of character sets.                                            *)

Cached ==
  ~failed => \A i \in DOMAIN entity : \E s \in Active(chrnodes) : chrnodes[s].chr = entity[i]

ChrInv ==
  /\ ChrTypeOK
  /\ CacheExact
  /\ Cached
  /\ ~failed => Len(asked) = Len(entity)
  /\ WearsWhatWasAsked

(* What the slots and the objects owe each other, for any of them.         *)
Exact(nodes, mem) ==
  /\ nodes \in [Slots -> Node]
  /\ mem \in [Chrs -> Names \cup {Nil}]
  /\ \A s, q \in Active(nodes) :
       s # q => nodes[s].fname # nodes[q].fname /\ nodes[s].chr # nodes[q].chr
  /\ \A s \in Active(nodes) : mem[nodes[s].chr] = nodes[s].fname
  /\ \A c \in Chrs : mem[c] # Nil => \E s \in Active(nodes) : nodes[s].chr = c

(* An active slot holds an object and names its file.                      *)
LEMMA ActiveNode ==
  ASSUME NEW nodes \in [Slots -> Node], NEW s \in Active(nodes)
  PROVE  s \in Slots /\ nodes[s].fname \in Names /\ nodes[s].chr \in Chrs /\ nodes[s].active = TRUE
BY DEF Active, Node

(* A cleanup deletes no object that an entity wears.                       *)
LEMMA CleanupEffect ==
  ASSUME Exact(chrnodes, memory)
  PROVE  /\ Exact(CleanedNodes, CleanedMemory)
         /\ Active(CleanedNodes) = Active(chrnodes) \ Tossed
         /\ \A s \in Slots : /\ CleanedNodes[s].chr = chrnodes[s].chr
                             /\ CleanedNodes[s].fname = chrnodes[s].fname
         /\ \A c \in Chrs : c \in Worn => CleanedMemory[c] = memory[c]
<1>1. \A s \in Slots : /\ CleanedNodes[s] \in Node
                       /\ CleanedNodes[s].chr = chrnodes[s].chr
                       /\ CleanedNodes[s].fname = chrnodes[s].fname
                       /\ s \notin Tossed => CleanedNodes[s] = chrnodes[s]
                       /\ s \in Tossed => CleanedNodes[s].active = FALSE
  <2> SUFFICES ASSUME NEW s \in Slots
               PROVE  /\ CleanedNodes[s] \in Node
                      /\ CleanedNodes[s].chr = chrnodes[s].chr
                      /\ CleanedNodes[s].fname = chrnodes[s].fname
                      /\ s \notin Tossed => CleanedNodes[s] = chrnodes[s]
                      /\ s \in Tossed => CleanedNodes[s].active = FALSE
    OBVIOUS
  <2>1. chrnodes[s] \in Node
    BY DEF Exact
  <2>2. CASE s \in Tossed
    <3>1. CleanedNodes[s] = [chrnodes[s] EXCEPT !.active = FALSE]
      BY <2>2 DEF CleanedNodes
    <3>2. QED
      BY <2>1, <2>2, <3>1 DEF Node
  <2>3. CASE s \notin Tossed
    BY <2>1, <2>3 DEF CleanedNodes
  <2>4. QED
    BY <2>2, <2>3
<1>2. CleanedNodes \in [Slots -> Node]
  BY <1>1 DEF CleanedNodes
<1>3. Active(CleanedNodes) = Active(chrnodes) \ Tossed
  BY <1>1 DEF Active
<1>4. \A c \in Chrs : c \in Worn => CleanedMemory[c] = memory[c]
  BY DEF CleanedMemory, Tossed
<1>5. CleanedMemory \in [Chrs -> Names \cup {Nil}]
  BY DEF CleanedMemory, Exact
<1>6. \A s \in Active(CleanedNodes) : CleanedMemory[CleanedNodes[s].chr] = CleanedNodes[s].fname
  <2> SUFFICES ASSUME NEW s \in Active(CleanedNodes)
               PROVE  CleanedMemory[CleanedNodes[s].chr] = CleanedNodes[s].fname
    OBVIOUS
  <2>1. s \in Active(chrnodes) /\ s \notin Tossed
    BY <1>3
  <2>2. chrnodes[s].chr \in Worn /\ chrnodes[s].chr \in Chrs
    BY <2>1, ActiveNode DEF Tossed, Exact
  <2>3. memory[chrnodes[s].chr] = chrnodes[s].fname /\ s \in Slots
    BY <2>1 DEF Exact, Active
  <2>4. CleanedNodes[s] = chrnodes[s]
    BY <1>1, <2>1, <2>3
  <2>5. CleanedMemory[chrnodes[s].chr] = memory[chrnodes[s].chr]
    BY <1>4, <2>2
  <2>6. QED
    BY <2>3, <2>4, <2>5
<1>7. \A c \in Chrs : CleanedMemory[c] # Nil =>
         \E s \in Active(CleanedNodes) : CleanedNodes[s].chr = c
  <2> SUFFICES ASSUME NEW c \in Chrs, CleanedMemory[c] # Nil
               PROVE  \E s \in Active(CleanedNodes) : CleanedNodes[s].chr = c
    OBVIOUS
  <2>1. memory[c] # Nil /\ ~ \E s \in Tossed : chrnodes[s].chr = c
    BY DEF CleanedMemory
  <2>2. PICK s \in Active(chrnodes) : chrnodes[s].chr = c
    BY <2>1 DEF Exact
  <2>3. s \in Active(CleanedNodes) /\ s \in Slots
    BY <1>3, <2>1, <2>2 DEF Active
  <2>4. QED
    BY <1>1, <2>2, <2>3
<1>8. \A s, q \in Active(CleanedNodes) :
        s # q => /\ CleanedNodes[s].fname # CleanedNodes[q].fname
                 /\ CleanedNodes[s].chr # CleanedNodes[q].chr
  <2>1. \A s \in Active(CleanedNodes) : s \in Active(chrnodes) /\ s \in Slots
    BY <1>3 DEF Active
  <2>2. QED
    BY <1>1, <2>1 DEF Exact
<1>9. Exact(CleanedNodes, CleanedMemory)
  BY <1>2, <1>5, <1>6, <1>7, <1>8 DEF Exact
<1>10. QED
  BY <1>1, <1>3, <1>4, <1>9

(* Loading a file that no slot names, and what it leaves alone.            *)
LEMMA LoadEffect ==
  ASSUME NEW nodes, NEW mem, Exact(nodes, mem), NEW name \in Names, NEW c,
         \A s \in Active(nodes) : nodes[s].fname # name,
         Load(nodes, mem, name, c)
  PROVE  /\ Exact(chrnodes', memory')
         /\ c \in Chrs /\ memory'[c] = name
         /\ \E s \in Active(chrnodes') : chrnodes'[s].chr = c
         /\ \A s \in Active(nodes) : s \in Active(chrnodes') /\ chrnodes'[s] = nodes[s]
         /\ \A d \in Chrs : mem[d] # Nil => memory'[d] = mem[d]
<1> DEFINE node == [active |-> TRUE, fname |-> name, chr |-> c]
<1>1. PICK s \in Slots \ Active(nodes) :
        /\ c \in Chrs /\ mem[c] = Nil
        /\ chrnodes' = [nodes EXCEPT ![s] = node]
        /\ memory' = [mem EXCEPT ![c] = name]
  BY DEF Load
<1>2. /\ nodes \in [Slots -> Node] /\ mem \in [Chrs -> Names \cup {Nil}]
      /\ name # Nil /\ node \in Node /\ node.active = TRUE /\ node.chr = c /\ node.fname = name
  BY <1>1, ChrAssumption DEF Exact, Node, Nil
<1>3. /\ chrnodes'[s] = node
      /\ \A q \in Slots : q # s => chrnodes'[q] = nodes[q]
      /\ chrnodes' \in [Slots -> Node]
  BY <1>1, <1>2
<1>4. /\ memory'[c] = name
      /\ \A d \in Chrs : d # c => memory'[d] = mem[d]
      /\ memory' \in [Chrs -> Names \cup {Nil}]
  BY <1>1, <1>2
<1>5. Active(chrnodes') = Active(nodes) \cup {s}
  BY <1>1, <1>2, <1>3 DEF Active
<1>6. \A q \in Active(nodes) : q # s /\ q \in Slots /\ chrnodes'[q] = nodes[q]
  BY <1>1, <1>3 DEF Active
<1>7. \A q \in Active(nodes) : nodes[q].chr # c
  <2> SUFFICES ASSUME NEW q \in Active(nodes), nodes[q].chr = c
               PROVE  FALSE
    OBVIOUS
  <2>1. mem[c] = nodes[q].fname /\ nodes[q].fname \in Names
    BY <1>2, ActiveNode DEF Exact
  <2>2. QED
    BY <1>1, <2>1, ChrAssumption DEF Nil
<1>8. \A p, q \in Active(chrnodes') :
        p # q => /\ chrnodes'[p].fname # chrnodes'[q].fname
                 /\ chrnodes'[p].chr # chrnodes'[q].chr
  <2>1. \A p, q \in Active(nodes) : p # q => /\ chrnodes'[p].fname # chrnodes'[q].fname
                                             /\ chrnodes'[p].chr # chrnodes'[q].chr
    BY <1>6 DEF Exact
  <2>2. \A q \in Active(nodes) : /\ chrnodes'[q].fname # chrnodes'[s].fname
                                 /\ chrnodes'[q].chr # chrnodes'[s].chr
    BY <1>2, <1>3, <1>6, <1>7
  <2>3. QED
    BY <1>5, <2>1, <2>2
<1>9. \A q \in Active(chrnodes') : memory'[chrnodes'[q].chr] = chrnodes'[q].fname
  <2>1. memory'[chrnodes'[s].chr] = chrnodes'[s].fname
    BY <1>2, <1>3, <1>4
  <2>2. \A q \in Active(nodes) : memory'[nodes[q].chr] = nodes[q].fname
    BY <1>2, <1>4, <1>7, ActiveNode DEF Exact
  <2>3. QED
    BY <1>5, <1>6, <2>1, <2>2
<1>10. \A d \in Chrs : memory'[d] # Nil => \E q \in Active(chrnodes') : chrnodes'[q].chr = d
  <2> SUFFICES ASSUME NEW d \in Chrs, memory'[d] # Nil
               PROVE  \E q \in Active(chrnodes') : chrnodes'[q].chr = d
    OBVIOUS
  <2>1. CASE d = c
    BY <1>2, <1>3, <1>5, <2>1
  <2>2. CASE d # c
    <3>1. mem[d] # Nil
      BY <1>4, <2>2
    <3>2. PICK q \in Active(nodes) : nodes[q].chr = d
      BY <3>1 DEF Exact
    <3>3. QED
      BY <1>5, <1>6, <3>2
  <2>3. QED
    BY <2>1, <2>2
<1>11. Exact(chrnodes', memory')
  BY <1>3, <1>4, <1>8, <1>9, <1>10 DEF Exact
<1>12. \A d \in Chrs : mem[d] # Nil => memory'[d] = mem[d]
  BY <1>1, <1>4
<1>13. QED
  BY <1>1, <1>2, <1>3, <1>4, <1>5, <1>6, <1>11, <1>12

(* Every entity wears an object that is in the cache, and that holds the   *)
(* file asked for it.                                                      *)
Dressed(nodes, mem) ==
  \A i \in DOMAIN entity : /\ \E s \in Active(nodes) : nodes[s].chr = entity[i]
                           /\ mem[entity[i]] = asked[i]

LEMMA LoadDressed ==
  ASSUME NEW nodes, NEW mem, Exact(nodes, mem), NEW name \in Names, NEW c,
         \A s \in Active(nodes) : nodes[s].fname # name,
         Load(nodes, mem, name, c), Dressed(nodes, mem),
         entity \in Seq(Chrs), asked \in Seq(Names), Len(asked) = Len(entity)
  PROVE  Dressed(chrnodes', memory')
<1>1. /\ \A s \in Active(nodes) : s \in Active(chrnodes') /\ chrnodes'[s] = nodes[s]
      /\ \A d \in Chrs : mem[d] # Nil => memory'[d] = mem[d]
  BY LoadEffect
<1>2. \A i \in DOMAIN entity : entity[i] \in Chrs /\ asked[i] \in Names
  OBVIOUS
<1>3. \A i \in DOMAIN entity : mem[entity[i]] # Nil
  BY <1>2, ChrAssumption DEF Dressed, Nil
<1>4. QED
  BY <1>1, <1>2, <1>3 DEF Dressed

(* What RequestCHR returns, and that it undresses nobody.                  *)
LEMMA RequestEffect ==
  ASSUME Exact(chrnodes, memory), Dressed(chrnodes, memory), NEW name \in Names, NEW c,
         RequestCHR(name, c),
         entity \in Seq(Chrs), asked \in Seq(Names), Len(asked) = Len(entity)
  PROVE  /\ Exact(chrnodes', memory')
         /\ Dressed(chrnodes', memory')
         /\ c \in Chrs /\ memory'[c] = name
         /\ \E s \in Active(chrnodes') : chrnodes'[s].chr = c
<1>1. CASE (\E s \in Hits(chrnodes, name) : c = chrnodes[s].chr) /\ UNCHANGED <<chrnodes, memory>>
  <2>1. PICK s \in Hits(chrnodes, name) : c = chrnodes[s].chr
    BY <1>1
  <2>2. s \in Active(chrnodes) /\ chrnodes[s].fname = name
    BY DEF Hits
  <2>3. chrnodes[s].chr \in Chrs /\ memory[chrnodes[s].chr] = name
    BY <2>2, ActiveNode DEF Exact
  <2>4. chrnodes' = chrnodes /\ memory' = memory
    BY <1>1
  <2>5. QED
    BY <2>1, <2>2, <2>3, <2>4
<1>2. CASE Hits(chrnodes, name) = {} /\ Load(chrnodes, memory, name, c)
  <2>1. \A s \in Active(chrnodes) : chrnodes[s].fname # name
    BY <1>2 DEF Hits
  <2>2. QED
    BY <1>2, <2>1, LoadEffect, LoadDressed
<1>3. CASE Hits(chrnodes, name) = {} /\ Load(CleanedNodes, CleanedMemory, name, c)
  <2>1. /\ Exact(CleanedNodes, CleanedMemory)
        /\ Active(CleanedNodes) = Active(chrnodes) \ Tossed
        /\ \A s \in Slots : /\ CleanedNodes[s].chr = chrnodes[s].chr
                            /\ CleanedNodes[s].fname = chrnodes[s].fname
        /\ \A d \in Chrs : d \in Worn => CleanedMemory[d] = memory[d]
    BY CleanupEffect
  <2>2. \A s \in Active(chrnodes) : s \in Slots
    BY DEF Active
  <2>3. \A s \in Active(CleanedNodes) : CleanedNodes[s].fname # name
    BY <1>3, <2>1, <2>2 DEF Hits
  <2>4. \A i \in DOMAIN entity : entity[i] \in Worn /\ entity[i] \in Chrs
    BY DEF Worn
  <2>5. \A i \in DOMAIN entity : CleanedMemory[entity[i]] = asked[i]
    BY <2>1, <2>4 DEF Dressed
  <2>6. \A i \in DOMAIN entity : \E s \in Active(CleanedNodes) : CleanedNodes[s].chr = entity[i]
    <3> SUFFICES ASSUME NEW i \in DOMAIN entity
                 PROVE  \E s \in Active(CleanedNodes) : CleanedNodes[s].chr = entity[i]
      OBVIOUS
    <3>1. PICK s \in Active(chrnodes) : chrnodes[s].chr = entity[i]
      BY DEF Dressed
    <3>2. s \notin Tossed
      BY <2>4, <3>1 DEF Tossed
    <3>3. s \in Active(CleanedNodes)
      BY <2>1, <3>1, <3>2
    <3>4. CleanedNodes[s].chr = entity[i]
      BY <2>1, <2>2, <3>1
    <3>5. QED
      BY <3>3, <3>4
  <2>7. Dressed(CleanedNodes, CleanedMemory)
    BY <2>5, <2>6 DEF Dressed
  <2>8. QED
    BY <1>3, <2>1, <2>3, <2>7, LoadEffect, LoadDressed
<1>4. QED
  BY <1>1, <1>2, <1>3 DEF RequestCHR

(* What the invariant says while the program runs.                         *)
LEMMA ChrInvParts ==
  ASSUME ChrInv, ~failed
  PROVE  /\ Exact(chrnodes, memory) /\ Dressed(chrnodes, memory)
         /\ entity \in Seq(Chrs) /\ asked \in Seq(Names) /\ Len(asked) = Len(entity)
         /\ phase \in {"out", "loading", "in"}
BY DEF ChrInv, ChrTypeOK, CacheExact, Cached, WearsWhatWasAsked, Exact, Dressed

(* A request the cache refuses ends the program as it was.                 *)
LEMMA RefusedStep ==
  ASSUME ChrInv, ~failed, NEW name \in Names, RequestRefused(name), asked' \in Seq(Names)
  PROVE  ChrInv'
<1>1. /\ chrnodes' = chrnodes /\ memory' = memory /\ entity' = entity /\ phase' = phase
      /\ failed' = TRUE
  BY DEF RequestRefused
<1>2. Exact(chrnodes', memory')
  BY <1>1, ChrInvParts
<1>3. entity' \in Seq(Chrs) /\ phase' \in {"out", "loading", "in"} /\ failed' \in BOOLEAN
  BY <1>1, ChrInvParts
<1>4. QED
  BY <1>1, <1>2, <1>3
  DEF ChrInv, ChrTypeOK, CacheExact, Cached, WearsWhatWasAsked, Exact

LEMMA AllocateStep ==
  ASSUME ChrInv, NEW name \in Names, AllocateEntity(name)
  PROVE  ChrInv'
<1>1. ~failed /\ asked' = Append(asked, name)
  BY DEF AllocateEntity
<1>2. asked' \in Seq(Names)
  BY <1>1, ChrInvParts
<1>3. CASE RequestRefused(name)
  BY <1>1, <1>2, <1>3, RefusedStep
<1>4. ASSUME NEW c, RequestCHR(name, c), entity' = Append(entity, c), UNCHANGED <<phase, failed>>
      PROVE  ChrInv'
  <2>1. /\ Exact(chrnodes', memory') /\ Dressed(chrnodes', memory')
        /\ c \in Chrs /\ memory'[c] = name
        /\ \E s \in Active(chrnodes') : chrnodes'[s].chr = c
    BY <1>1, <1>4, ChrInvParts, RequestEffect
  <2>2. entity \in Seq(Chrs) /\ asked \in Seq(Names) /\ Len(asked) = Len(entity)
    BY <1>1, ChrInvParts
  <2>3. entity' \in Seq(Chrs) /\ Len(asked') = Len(entity')
    BY <1>1, <1>4, <2>1, <2>2
  <2>4. \A i \in DOMAIN entity' : \/ i \in DOMAIN entity /\ entity'[i] = entity[i] /\ asked'[i] = asked[i]
                                  \/ entity'[i] = c /\ asked'[i] = name
    BY <1>1, <1>4, <2>1, <2>2
  <2>5. \A i \in DOMAIN entity' : /\ \E s \in Active(chrnodes') : chrnodes'[s].chr = entity'[i]
                                  /\ memory'[entity'[i]] = asked'[i]
    BY <2>1, <2>4 DEF Dressed
  <2>6. QED
    BY <1>1, <1>2, <1>4, <2>1, <2>3, <2>5, ChrInvParts
    DEF ChrInv, ChrTypeOK, CacheExact, Cached, WearsWhatWasAsked, Exact
<1>5. QED
  BY <1>3, <1>4 DEF AllocateEntity

LEMMA SetChrStep ==
  ASSUME ChrInv, NEW name \in Names, NEW i \in DOMAIN entity, SetChr(i, name)
  PROVE  ChrInv'
<1>1. ~failed /\ asked' = [asked EXCEPT ![i] = name]
  BY DEF SetChr
<1>2. asked' \in Seq(Names)
  BY <1>1, ChrInvParts
<1>3. CASE RequestRefused(name)
  BY <1>1, <1>2, <1>3, RefusedStep
<1>4. ASSUME NEW c, RequestCHR(name, c), entity' = [entity EXCEPT ![i] = c],
             UNCHANGED <<phase, failed>>
      PROVE  ChrInv'
  <2>1. /\ Exact(chrnodes', memory') /\ Dressed(chrnodes', memory')
        /\ c \in Chrs /\ memory'[c] = name
        /\ \E s \in Active(chrnodes') : chrnodes'[s].chr = c
    BY <1>1, <1>4, ChrInvParts, RequestEffect
  <2>2. entity \in Seq(Chrs) /\ asked \in Seq(Names) /\ Len(asked) = Len(entity)
    BY <1>1, ChrInvParts
  <2>3. entity' \in Seq(Chrs) /\ Len(asked') = Len(entity') /\ DOMAIN entity' = DOMAIN entity
    BY <1>1, <1>4, <2>1, <2>2
  <2>4. \A j \in DOMAIN entity' : \/ j \in DOMAIN entity /\ entity'[j] = entity[j] /\ asked'[j] = asked[j]
                                  \/ entity'[j] = c /\ asked'[j] = name
    BY <1>1, <1>4, <2>1, <2>2
  <2>5. \A j \in DOMAIN entity' : /\ \E s \in Active(chrnodes') : chrnodes'[s].chr = entity'[j]
                                  /\ memory'[entity'[j]] = asked'[j]
    BY <2>1, <2>4 DEF Dressed
  <2>6. QED
    BY <1>1, <1>2, <1>4, <2>1, <2>3, <2>5, ChrInvParts
    DEF ChrInv, ChrTypeOK, CacheExact, Cached, WearsWhatWasAsked, Exact
<1>5. QED
  BY <1>3, <1>4 DEF SetChr

(* The steps that take all entities away.                                  *)
LEMMA EmptyStep ==
  ASSUME ChrInv, ~failed, entity' = <<>>, asked' = <<>>,
         phase' \in {"out", "loading", "in"}, UNCHANGED <<chrnodes, memory, failed>>
  PROVE  ChrInv'
BY DEF ChrInv, ChrTypeOK, CacheExact, Cached, WearsWhatWasAsked, Active

LEMMA MapLoadedStep ==
  ASSUME ChrInv, MapLoaded
  PROVE  ChrInv'
<1>1. /\ ~failed /\ failed' = failed /\ phase' = "in" /\ entity' = entity /\ asked' = asked
      /\ chrnodes' = CleanedNodes /\ memory' = CleanedMemory
  BY DEF MapLoaded, CleanupCHRs
<1>2. /\ Exact(chrnodes', memory')
      /\ Active(chrnodes') = Active(chrnodes) \ Tossed
      /\ \A s \in Slots : chrnodes'[s].chr = chrnodes[s].chr
      /\ \A d \in Chrs : d \in Worn => memory'[d] = memory[d]
  BY <1>1, ChrInvParts, CleanupEffect
<1>3. \A i \in DOMAIN entity : entity[i] \in Worn /\ entity[i] \in Chrs
  BY <1>1, ChrInvParts DEF Worn
<1>4. \A i \in DOMAIN entity : memory'[entity[i]] = asked[i]
  BY <1>1, <1>2, <1>3, ChrInvParts DEF Dressed
<1>5. \A i \in DOMAIN entity : \E s \in Active(chrnodes') : chrnodes'[s].chr = entity[i]
  <2> SUFFICES ASSUME NEW i \in DOMAIN entity
               PROVE  \E s \in Active(chrnodes') : chrnodes'[s].chr = entity[i]
    OBVIOUS
  <2>1. PICK s \in Active(chrnodes) : chrnodes[s].chr = entity[i]
    BY <1>1, ChrInvParts DEF Dressed
  <2>2. s \notin Tossed /\ s \in Slots
    BY <1>3, <2>1 DEF Tossed, Active
  <2>3. QED
    BY <1>2, <2>1, <2>2
<1>6. QED
  BY <1>1, <1>2, <1>4, <1>5, ChrInvParts
  DEF ChrInv, ChrTypeOK, CacheExact, Cached, WearsWhatWasAsked, Exact

LEMMA ChrStep ==
  ASSUME ChrInv, [ChrNext]_chrVars
  PROVE  ChrInv'
<1>1. ASSUME NEW name \in Names, AllocateEntity(name)
      PROVE  ChrInv'
  BY <1>1, AllocateStep
<1>2. ASSUME NEW name \in Names, NEW i \in DOMAIN entity, SetChr(i, name)
      PROVE  ChrInv'
  BY <1>2, SetChrStep
<1>3. CASE StartMap
  BY <1>3, EmptyStep DEF StartMap
<1>4. CASE MapLoaded
  BY <1>4, MapLoadedStep
<1>5. CASE LeaveMap
  BY <1>5, EmptyStep DEF LeaveMap
<1>6. CASE UNCHANGED chrVars
  BY <1>6 DEF chrVars, ChrInv, ChrTypeOK, CacheExact, Cached, WearsWhatWasAsked, Active
<1>7. QED
  BY <1>1, <1>2, <1>3, <1>4, <1>5, <1>6 DEF ChrNext

LEMMA ChrStart ==
  ASSUME ChrInit
  PROVE  ChrInv
<1>1. Active(chrnodes) = {}
  BY DEF ChrInit, Active
<1>2. ChrTypeOK
  <2>1. chrnodes \in [Slots -> Node]
    BY DEF ChrInit, Node
  <2>2. entity \in Seq(Chrs) /\ asked \in Seq(Names) /\ failed \in BOOLEAN
    <3>1. <<>> \in Seq(Chrs) /\ <<>> \in Seq(Names) /\ FALSE \in BOOLEAN
      OBVIOUS
    <3>2. QED
      BY <3>1 DEF ChrInit
  <2>3. QED
    BY <2>1, <2>2 DEF ChrInit, ChrTypeOK
<1>3. CacheExact
  BY <1>1 DEF ChrInit, CacheExact
<1>4. QED
  BY <1>2, <1>3 DEF ChrInit, ChrInv, Cached, WearsWhatWasAsked

(* Type correctness.                                                       *)
THEOREM ChrTypes == ChrSpec => []ChrTypeOK
<1>1. ChrInv => ChrTypeOK
  BY DEF ChrInv
<1>2. QED
  BY <1>1, ChrStart, ChrStep, PTL DEF ChrSpec

(* While the program runs, every entity points to a CHR that is loaded     *)
(* from the file last asked for it, whatever the cache has tossed since.   *)
THEOREM NobodyUndressed == ChrSpec => []WearsWhatWasAsked
<1>1. ChrInv => WearsWhatWasAsked
  BY DEF ChrInv
<1>2. QED
  BY <1>1, ChrStart, ChrStep, PTL DEF ChrSpec

(* No CHR file is loaded twice and no loaded CHR is lost to the cache.     *)
THEOREM CacheNamesAll == ChrSpec => []CacheExact
<1>1. ChrInv => CacheExact
  BY DEF ChrInv
<1>2. QED
  BY <1>1, ChrStart, ChrStep, PTL DEF ChrSpec

(* A refusal finds every slot taken by an object that some entity wears;   *)
(* the slots name different files, so the entities wear as many.           *)
LEMMA RefusedFull ==
  ASSUME ChrInv, ~failed, NEW name, RequestRefused(name)
  PROVE  Cardinality({asked[i] : i \in DOMAIN asked}) >= MAXCHRS
<1> DEFINE files == {asked[i] : i \in DOMAIN asked}
           named == [s \in Slots |-> chrnodes[s].fname]
           nth == [i \in 1 .. Len(asked) |-> asked[i]]
<1>1. /\ Exact(chrnodes, memory) /\ Dressed(chrnodes, memory)
      /\ entity \in Seq(Chrs) /\ asked \in Seq(Names) /\ Len(asked) = Len(entity)
  BY ChrInvParts
<1>2. Active(chrnodes) = Slots /\ Tossed = {}
  BY DEF RequestRefused
<1>3. ASSUME NEW s \in Slots
      PROVE  named[s] \in files
  <2>1. chrnodes[s].chr \in Worn
    BY <1>2 DEF Tossed
  <2>2. PICK i \in DOMAIN entity : chrnodes[s].chr = entity[i]
    BY <2>1 DEF Worn
  <2>3. memory[entity[i]] = asked[i] /\ memory[chrnodes[s].chr] = chrnodes[s].fname
    BY <1>1, <1>2 DEF Dressed, Exact
  <2>4. DOMAIN entity = DOMAIN asked
    BY <1>1
  <2> QED
    BY <2>2, <2>3, <2>4
<1>4. \A s, q \in Slots : named[s] = named[q] => s = q
  BY <1>1, <1>2 DEF Exact
<1>5. named \in Injection(Slots, files)
  BY <1>3, <1>4 DEF Injection, IsInjective
<1>6. IsFiniteSet(files)
  <2>1. Len(asked) \in Nat /\ DOMAIN asked = 1 .. Len(asked)
    BY <1>1
  <2>2. nth \in Surjection(1 .. Len(asked), files)
    BY <2>1 DEF Surjection
  <2>3. IsFiniteSet(1 .. Len(asked))
    BY <2>1, FS_Interval
  <2> QED
    BY <2>2, <2>3, FS_Surjection
<1>7. Cardinality(Slots) = MAXCHRS
  BY ChrAssumption, FS_Interval DEF Slots
<1>8. Cardinality(Slots) <= Cardinality(files)
  BY <1>5, <1>6, FS_Injection
<1>9. Cardinality(files) \in Nat
  BY <1>6, FS_CardinalityType
<1> QED
  BY <1>7, <1>8, <1>9, ChrAssumption

(* The program gives up on a CHR only when the entities wear as many files *)
(* as the cache has slots, for any number of slots.                        *)
THEOREM GivesUpWhenFull == ChrSpec => RefusedOnlyWhenFull
<1> DEFINE Full == Cardinality({asked[i] : i \in DOMAIN asked}) >= MAXCHRS
<1>1. ASSUME ChrInv, ChrNext, failed' # failed
      PROVE  Full
  <2>1. CASE \E name \in Names : AllocateEntity(name)
    BY <1>1, <2>1, RefusedFull DEF AllocateEntity
  <2>2. CASE \E name \in Names : \E i \in DOMAIN entity : SetChr(i, name)
    BY <1>1, <2>2, RefusedFull DEF SetChr
  <2>3. CASE StartMap \/ MapLoaded \/ LeaveMap
    BY <1>1, <2>3 DEF StartMap, MapLoaded, LeaveMap
  <2> QED
    BY <1>1, <2>1, <2>2, <2>3 DEF ChrNext
<1>2. ChrInv /\ [ChrNext]_chrVars => [failed' # failed => Full]_chrVars
  BY <1>1
<1> QED
  BY <1>2, ChrStart, ChrStep, PTL DEF ChrSpec, RefusedOnlyWhenFull

-----------------------------------------------------------------------------
(* The pictures of animated tiles.                                         *)

(* A picture between the start of one strand and the finish of another.    *)
Between(l, p) ==
  \E a, b \in StrandsOf[l] : anims[a].start <= p /\ p <= anims[b].finish

LEMMA StrandTypes ==
  ASSUME NEW a \in Strands
  PROVE  /\ anims[a].start \in Int /\ anims[a].finish \in Int /\ anims[a].delay \in Int
         /\ anims[a].mode \in Modes
         /\ Span(a) = anims[a].start .. anims[a].finish
<1>1. anims[a] \in Strand
  BY TileAssumption DEF Strands
<1> QED
  BY <1>1 DEF Strand, Span

(* The step of a picture is a picture, in every mode.                      *)
LEMMA AnimateTileType ==
  ASSUME NEW a \in Strands, NEW idx \in Int, NEW flip \in BOOLEAN, NEW roll \in Int
  PROVE  /\ AnimateTile(anims[a], idx, flip, roll) \in Int
         /\ FlipTile(anims[a], idx, flip) \in BOOLEAN
<1>1. anims[a].start \in Int /\ anims[a].finish \in Int /\ anims[a].mode \in Modes
  BY StrandTypes
<1>2. AnimateTile(anims[a], idx, flip, roll) \in Int
  BY <1>1 DEF AnimateTile, Modes
<1>3. (idx # anims[a].start) \in BOOLEAN /\ (idx = anims[a].finish) \in BOOLEAN
  OBVIOUS
<1>4. FlipTile(anims[a], idx, flip) \in BOOLEAN
  BY <1>3, Zenon DEF FlipTile
<1> QED
  BY <1>2, <1>4

(* Every way of stepping keeps a picture between the strands of its tile,  *)
(* when a strand a of the tile moves it (AnimateTile).                     *)
LEMMA StepStaysBetween ==
  ASSUME NEW l \in Tiles, NEW a \in StrandsOf[l], Tame(l),
         NEW idx \in Int, NEW flip \in BOOLEAN, NEW roll \in Span(a), Between(l, idx)
  PROVE  Between(l, AnimateTile(anims[a], idx, flip, roll))
<1> DEFINE new == AnimateTile(anims[a], idx, flip, roll)
<1>1. PICK lo \in StrandsOf[l], hi \in StrandsOf[l] :
        anims[lo].start <= idx /\ idx <= anims[hi].finish
  BY DEF Between
<1>2. a \in Strands /\ lo \in Strands /\ hi \in Strands /\ l \in Span(a) /\ l \in Int
  BY DEF StrandsOf, Tiles
<1>3. \A s \in {a, lo, hi} : anims[s].start \in Int /\ anims[s].finish \in Int
  BY <1>2, StrandTypes
<1>4. anims[a].start <= anims[a].finish /\ roll \in anims[a].start .. anims[a].finish
  BY <1>2, <1>3, StrandTypes
<1>5. CASE anims[a].mode = "forward"
  <2>1. new = IF idx < anims[a].finish THEN idx + 1 ELSE anims[a].start
    BY <1>5 DEF AnimateTile
  <2>2. CASE idx < anims[a].finish
    <3>1. anims[lo].start <= new /\ new <= anims[a].finish
      BY <1>1, <1>3, <2>1, <2>2
    <3> QED
      BY <3>1 DEF Between
  <2>3. CASE ~(idx < anims[a].finish)
    <3>1. anims[a].start <= new /\ new <= anims[a].finish
      BY <1>3, <1>4, <2>1, <2>3
    <3> QED
      BY <3>1 DEF Between
  <2> QED
    BY <2>2, <2>3
<1>6. CASE anims[a].mode = "backward"
  <2>1. new = IF idx > anims[a].start THEN idx - 1 ELSE anims[a].finish
    BY <1>6 DEF AnimateTile
  <2>2. CASE idx > anims[a].start
    <3>1. anims[a].start <= new /\ new <= anims[hi].finish
      BY <1>1, <1>3, <2>1, <2>2
    <3> QED
      BY <3>1 DEF Between
  <2>3. CASE ~(idx > anims[a].start)
    <3>1. anims[a].start <= new /\ new <= anims[a].finish
      BY <1>3, <1>4, <2>1, <2>3
    <3> QED
      BY <3>1 DEF Between
  <2> QED
    BY <2>2, <2>3
<1>7. CASE anims[a].mode = "random"
  <2>1. new = roll
    BY <1>7 DEF AnimateTile
  <2>2. anims[a].start <= new /\ new <= anims[a].finish
    BY <1>3, <1>4, <2>1
  <2> QED
    BY <2>2 DEF Between
<1>8. CASE anims[a].mode = "pingpong"
  <2>1. /\ anims[a].start < anims[a].finish
        /\ anims[a].start <= idx /\ idx <= anims[a].finish
    <3>1. anims[a].start < anims[a].finish /\ Span(lo) \subseteq Span(a) /\ Span(hi) \subseteq Span(a)
      BY <1>8 DEF Tame
    <3>2. /\ Span(a) = anims[a].start .. anims[a].finish
          /\ Span(lo) = anims[lo].start .. anims[lo].finish /\ l \in Span(lo)
          /\ Span(hi) = anims[hi].start .. anims[hi].finish /\ l \in Span(hi)
      BY <1>2, StrandTypes DEF StrandsOf
    <3>3. anims[lo].start \in Span(lo) /\ anims[hi].finish \in Span(hi)
      BY <1>3, <3>2
    <3> QED
      BY <1>1, <1>3, <3>1, <3>2, <3>3
  <2>2. new = IF flip THEN IF idx # anims[a].start THEN idx - 1 ELSE idx + 1
                      ELSE IF idx # anims[a].finish THEN idx + 1 ELSE idx - 1
    BY <1>8 DEF AnimateTile
  <2>3. anims[a].start <= new /\ new <= anims[a].finish
    BY <1>1, <1>3, <2>1, <2>2
  <2> QED
    BY <2>3 DEF Between
<1>9. CASE anims[a].mode = "other"
  BY <1>9 DEF AnimateTile
<1>10. anims[a].mode \in Modes
  BY <1>2, StrandTypes
<1> QED
  BY <1>5, <1>6, <1>7, <1>8, <1>9, <1>10 DEF Modes

(* A picture that is its own tile is between the strands of the tile.      *)
LEMMA OwnBetween ==
  ASSUME NEW l \in Tiles, NEW a \in StrandsOf[l]
  PROVE  Between(l, l)
<1>1. a \in Strands /\ l \in Span(a) /\ l \in Int
  BY DEF StrandsOf, Tiles
<1>2. anims[a].start <= l /\ l <= anims[a].finish
  BY <1>1, StrandTypes
<1> QED
  BY <1>2 DEF Between

-----------------------------------------------------------------------------
(* The invariant that a step keeps: the set stays one the loader accepts.  *)
Loaded == ValidateAnimations /\ TileInv

LEMMA LoadedInit == TileInit => Loaded
<1> SUFFICES ASSUME TileInit PROVE Loaded
  OBVIOUS
<1>1. MaxTime \in Nat /\ anims \in Seq(Strand)
  BY TileAssumption
<1>2. mytimer \in loadtime .. systemtime /\ loadtime \in Nat /\ systemtime \in 0 .. MaxTime
  BY <1>1 DEF TileInit
<1>3. TileTypeOK
  BY <1>1, <1>2 DEF TileInit, TileTypeOK, NoDelay, Own, NoFlip, Tiles, Strands
<1>4. TilesInStrand
  BY DEF TileInit, TilesInStrand, TameTiles, Own
<1> QED
  BY <1>3, <1>4 DEF TileInit, Loaded, TileInv

(* One turn of AnimateTiles for one strand.                                *)
LEMMA StrandKeepsLoaded == Loaded /\ AnimateStrand => Loaded'
<1> SUFFICES ASSUME Loaded, AnimateStrand PROVE Loaded'
  OBVIOUS
<1> DEFINE a == strand
<1>1. a \in Strands /\ a \in 1 .. Len(anims) /\ Len(anims) \in Nat /\ Strands = 1 .. Len(anims)
  BY TileAssumption DEF AnimateStrand, Strands
<1>2. /\ tileidx \in [Tiles -> Int] /\ flipped \in [Tiles -> BOOLEAN]
      /\ vadelay \in [Strands -> Nat]
  BY DEF Loaded, TileInv, TileTypeOK
<1>3. vadelay' \in [Strands -> Nat]
  BY <1>1, <1>2 DEF AnimateStrand, CountDelay
<1>4. CASE ~Due(a)
  <2>1. UNCHANGED <<tileidx, flipped>>
    BY <1>4 DEF AnimateStrand
  <2>2. TileTypeOK'
    BY <1>1, <1>3, <2>1 DEF AnimateStrand, Loaded, TileInv, TileTypeOK
  <2>3. TilesInStrand'
    BY <2>1 DEF Loaded, TileInv, TilesInStrand, TameTiles, Tame, StrandsOf
  <2> QED
    BY <2>2, <2>3 DEF Loaded, TileInv, ValidateAnimations
<1>5. CASE Due(a)
  <2>1. PICK roll \in Rolls(a) :
          /\ tileidx' = [l \in Tiles |-> IF l \in Span(a)
               THEN AnimateTile(anims[a], tileidx[l], flipped[l], roll[l]) ELSE tileidx[l]]
          /\ flipped' = [l \in Tiles |-> IF l \in Span(a)
               THEN FlipTile(anims[a], tileidx[l], flipped[l]) ELSE flipped[l]]
    BY <1>5 DEF AnimateStrand
  <2>2. \A l \in Span(a) : roll[l] \in Span(a) /\ roll[l] \in Int
    BY <1>1, <2>1, StrandTypes DEF Rolls
  <2>3. \A l \in Tiles : l \in Span(a) =>
          /\ AnimateTile(anims[a], tileidx[l], flipped[l], roll[l]) \in Int
          /\ FlipTile(anims[a], tileidx[l], flipped[l]) \in BOOLEAN
    <3>1. SUFFICES ASSUME NEW l \in Tiles, l \in Span(a)
                   PROVE  /\ AnimateTile(anims[a], tileidx[l], flipped[l], roll[l]) \in Int
                          /\ FlipTile(anims[a], tileidx[l], flipped[l]) \in BOOLEAN
      OBVIOUS
    <3>2. tileidx[l] \in Int /\ flipped[l] \in BOOLEAN /\ roll[l] \in Int
      BY <1>2, <2>2, <3>1
    <3> QED
      BY <1>1, <3>2, AnimateTileType
  <2>4. tileidx' \in [Tiles -> Int]
    BY <1>2, <2>1, <2>3
  <2>5. flipped' \in [Tiles -> BOOLEAN]
    BY <1>2, <2>1, <2>3, Zenon
  <2>6. TileTypeOK'
    BY <1>1, <1>3, <2>4, <2>5 DEF AnimateStrand, Loaded, TileInv, TileTypeOK
  <2>7. \A l \in Tiles : Tame(l) => tileidx'[l] = l \/ Between(l, tileidx'[l])
    <3>1. SUFFICES ASSUME NEW l \in Tiles, Tame(l)
                   PROVE  tileidx'[l] = l \/ Between(l, tileidx'[l])
      OBVIOUS
    <3>2. tileidx[l] = l \/ Between(l, tileidx[l])
      BY <3>1 DEF Loaded, TileInv, TilesInStrand, TameTiles, Between
    <3>3. CASE l \notin Span(a)
      BY <2>1, <3>2, <3>3
    <3>4. CASE l \in Span(a)
      <4>1. a \in StrandsOf[l]
        BY <1>1, <3>4 DEF StrandsOf
      <4>2. Between(l, tileidx[l])
        BY <3>2, <4>1, OwnBetween
      <4>3. tileidx[l] \in Int /\ flipped[l] \in BOOLEAN /\ roll[l] \in Span(a)
        BY <1>2, <2>2, <3>4
      <4>4. tileidx'[l] = AnimateTile(anims[a], tileidx[l], flipped[l], roll[l])
        BY <2>1, <3>4
      <4> QED
        BY <3>1, <4>1, <4>2, <4>3, <4>4, StepStaysBetween
    <3> QED
      BY <3>3, <3>4
  <2>8. TilesInStrand'
    BY <2>7 DEF TilesInStrand, TameTiles, Tame, StrandsOf, Between
  <2> QED
    BY <2>6, <2>8 DEF Loaded, TileInv, ValidateAnimations
<1> QED
  BY <1>4, <1>5

LEMMA LoadedNext == Loaded /\ [TileNext]_tileVars => Loaded'
<1> SUFFICES ASSUME Loaded, [TileNext]_tileVars PROVE Loaded'
  OBVIOUS
<1>1. /\ systemtime \in Nat /\ MaxTime \in Nat /\ systemtime <= MaxTime /\ Len(anims) \in Nat
      /\ mytimer \in Nat /\ loadtime \in Nat /\ loadtime <= mytimer /\ mytimer <= systemtime
      /\ strand # 0 => mytimer < systemtime
  BY TileAssumption DEF Loaded, TileInv, TileTypeOK
<1>2. CASE UNCHANGED tileVars
  BY <1>2 DEF tileVars, Loaded, TileInv, TileTypeOK, TilesInStrand, ValidateAnimations, Tame, StrandsOf
<1>3. CASE TimerTick
  <2>1. systemtime' \in 0 .. MaxTime /\ mytimer \in loadtime .. systemtime'
        /\ (strand # 0 => mytimer < systemtime')
    BY <1>1, <1>3 DEF TimerTick
  <2>2. TileTypeOK'
    BY <1>3, <2>1 DEF TimerTick, Loaded, TileInv, TileTypeOK
  <2>3. TilesInStrand'
    BY <1>3 DEF TimerTick, Loaded, TileInv, TilesInStrand, TameTiles, Tame, StrandsOf
  <2> QED
    BY <2>2, <2>3 DEF Loaded, TileInv, ValidateAnimations
<1>4. CASE LoadTiles
  <2>1. TileTypeOK'
    BY <1>1, <1>4 DEF LoadTiles, Loaded, TileInv, TileTypeOK, NoDelay, Own, NoFlip, Tiles
  <2>2. TilesInStrand'
    BY <1>4 DEF LoadTiles, Own, TilesInStrand, TameTiles
  <2> QED
    BY <2>1, <2>2 DEF Loaded, TileInv, ValidateAnimations
<1>5. CASE UpdateAnimations
  <2>1. TileTypeOK'
    BY <1>1, <1>5 DEF UpdateAnimations, Loaded, TileInv, TileTypeOK
  <2>2. TilesInStrand'
    BY <1>5 DEF UpdateAnimations, Loaded, TileInv, TilesInStrand, TameTiles, Tame, StrandsOf
  <2> QED
    BY <2>1, <2>2 DEF Loaded, TileInv, ValidateAnimations
<1>6. CASE AnimateStrand
  BY <1>6, StrandKeepsLoaded
<1>7. CASE CountTick
  <2>1. mytimer' \in loadtime .. systemtime /\ strand' = 0
    BY <1>1, <1>7 DEF CountTick
  <2>2. TileTypeOK'
    BY <1>1, <1>7, <2>1 DEF CountTick, Loaded, TileInv, TileTypeOK
  <2>3. TilesInStrand'
    BY <1>7 DEF CountTick, Loaded, TileInv, TilesInStrand, TameTiles, Tame, StrandsOf
  <2> QED
    BY <2>2, <2>3 DEF Loaded, TileInv, ValidateAnimations
<1> QED
  BY <1>2, <1>3, <1>4, <1>5, <1>6, <1>7 DEF TileNext

(* For any strands the loader accepts, of any modes and delays, alone or   *)
(* sharing tiles: the animation is never ahead of the clock, and shows for *)
(* each tile a picture of the strands that move it; but for the tiles of a *)
(* ping-pong strand that Tame excepts, of one tile or crossed by another.  *)
THEOREM PicturesInStrand == TileSpec => []TileInv
<1>1. Loaded => TileInv
  BY DEF Loaded
<1> QED
  BY <1>1, LoadedInit, LoadedNext, PTL DEF TileSpec

(* So UpdateAnimations never leads the drawing of a layer (TBlit) outside  *)
(* of the tile set's pictures, but for the same tiles: those of a ping-pong*)
(* strand of one tile, or of one that another strand of the tile leaves.   *)
THEOREM PicturesInSet == TileSpec => [](\A l \in Tiles : Tame(l) => tileidx[l] \in Tiles)
<1>1. Loaded => \A l \in Tiles : Tame(l) => tileidx[l] \in Tiles
  <2>1. SUFFICES ASSUME Loaded, NEW l \in Tiles, Tame(l), tileidx[l] # l
                 PROVE  tileidx[l] \in Tiles
    OBVIOUS
  <2>2. PICK a \in StrandsOf[l], b \in StrandsOf[l] :
          anims[a].start <= tileidx[l] /\ tileidx[l] <= anims[b].finish
    BY <2>1 DEF Loaded, TileInv, TilesInStrand, TameTiles
  <2>3. anims[a].start \in Tiles /\ anims[b].finish \in Tiles
    BY <2>1 DEF Loaded, ValidateAnimations, StrandsOf
  <2>4. tileidx[l] \in Int
    BY <2>1 DEF Loaded, TileInv, TileTypeOK
  <2> QED
    BY <2>2, <2>3, <2>4, TileAssumption DEF Tiles
<1> QED
  BY <1>1, LoadedInit, LoadedNext, PTL DEF TileSpec

-----------------------------------------------------------------------------
(* Counting modulo.                                                        *)

LEMMA ModIs ==
  ASSUME NEW q \in Nat, q >= 1, NEW a \in Int, NEW c \in 0 .. (q - 1)
  PROVE  (q * a + c) % q = c /\ (q * a + c) \div q = a
BY SMT

LEMMA ModOf ==
  ASSUME NEW q \in Nat, q >= 1, NEW t \in Int
  PROVE  t = q * (t \div q) + (t % q) /\ t % q \in 0 .. (q - 1) /\ t \div q \in Int
BY SMT

LEMMA NextTurn ==
  ASSUME NEW q \in Nat, q >= 1, NEW t \in Int
  PROVE  (t + 1) % q = IF (t % q) + 1 < q THEN (t % q) + 1 ELSE 0
<1>1. PICK a \in Int, c \in 0 .. (q - 1) : t = q * a + c /\ t % q = c
  BY ModOf
<1>2. CASE c + 1 < q
  <2>1. t + 1 = q * a + (c + 1) /\ c + 1 \in 0 .. (q - 1)
    BY <1>1, <1>2
  <2>2. (q * a + (c + 1)) % q = c + 1
    BY <2>1, ModIs
  <2> QED
    BY <1>1, <1>2, <2>1, <2>2
<1>3. CASE c + 1 = q
  <2>1. t + 1 = q * (a + 1) + 0 /\ 0 \in 0 .. (q - 1) /\ a + 1 \in Int
    BY <1>1, <1>3
  <2>2. (q * (a + 1) + 0) % q = 0
    BY <2>1, ModIs
  <2> QED
    BY <1>1, <1>3, <2>1, <2>2
<1> QED
  BY <1>1, <1>2, <1>3

LEMMA LastTurn ==
  ASSUME NEW q \in Nat, q >= 1, NEW t \in Int
  PROVE  (t - 1) % q = IF t % q > 0 THEN (t % q) - 1 ELSE q - 1
<1>1. PICK a \in Int, c \in 0 .. (q - 1) : t = q * a + c /\ t % q = c
  BY ModOf
<1>2. CASE c > 0
  <2>1. t - 1 = q * a + (c - 1) /\ c - 1 \in 0 .. (q - 1)
    BY <1>1, <1>2
  <2>2. (q * a + (c - 1)) % q = c - 1
    BY <2>1, ModIs
  <2> QED
    BY <1>1, <1>2, <2>1, <2>2
<1>3. CASE c = 0
  <2>1. t - 1 = q * (a - 1) + (q - 1) /\ q - 1 \in 0 .. (q - 1) /\ a - 1 \in Int
    BY <1>1, <1>3
  <2>2. (q * (a - 1) + (q - 1)) % q = q - 1
    BY <2>1, ModIs
  <2> QED
    BY <1>1, <1>3, <2>1, <2>2
<1> QED
  BY <1>1, <1>2, <1>3

LEMMA ModSmall ==
  ASSUME NEW q \in Nat, NEW c \in 0 .. (q - 1)
  PROVE  c % q = c
BY SMT

-----------------------------------------------------------------------------
(* The counter of a strand, k ticks after the set was loaded.              *)

CounterAt(d, k, v) ==
  d > 0 => k = (d + 1) * Moves(d, k) + v /\ v \in 0 .. (d + 1) /\ (v = 0 => k = 0)

LEMMA MovesAre ==
  ASSUME NEW d \in Nat, d # 0, NEW m \in Int, NEW v \in Int, 1 <= v, v <= d + 1,
         NEW k \in Nat, k # 0, NEW x, x = (d + 1) * m, k = x + v
  PROVE  Moves(d, k) = m
<1>1. k - 1 = (d + 1) * m + (v - 1) /\ v - 1 \in 0 .. ((d + 1) - 1) /\ d + 1 \in Nat /\ d + 1 >= 1
  OBVIOUS
<1>2. ((d + 1) * m + (v - 1)) \div (d + 1) = m
  BY <1>1, ModIs
<1> QED
  BY <1>1, <1>2 DEF Moves

LEMMA MovesAreInt ==
  ASSUME NEW d \in Int, NEW k \in Nat
  PROVE  Moves(d, k) \in Int
<1>1. CASE d > 0 /\ k # 0
  <2>1. d + 1 \in Nat /\ d + 1 >= 1 /\ k - 1 \in Int
    BY <1>1
  <2> QED
    BY <1>1, <2>1, ModOf DEF Moves
<1>2. CASE ~ (d > 0 /\ k # 0)
  BY <1>2 DEF Moves
<1> QED
  BY <1>1, <1>2

(* One tick: the strand moves when its counter is past its delay.          *)
LEMMA CounterStep ==
  ASSUME NEW d \in Int, NEW k \in Nat, NEW v \in Nat, CounterAt(d, k, v)
  PROVE  LET due == d # 0 /\ d < v
         IN  /\ CounterAt(d, k + 1, (IF due THEN 0 ELSE v) + 1)
             /\ Moves(d, k + 1) = IF due THEN Moves(d, k) + 1 ELSE Moves(d, k)
<1>1. Moves(d, k) \in Int /\ k + 1 \in Nat \ {0}
  BY MovesAreInt
<1>2. CASE d <= 0
  BY <1>1, <1>2 DEF CounterAt, Moves
<1>3. CASE d > 0 /\ d < v
  <2>1. /\ k = (d + 1) * Moves(d, k) + (d + 1) /\ v = d + 1
    BY <1>1, <1>3 DEF CounterAt
  <2>2. k + 1 = (d + 1) * (Moves(d, k) + 1) + 1
    BY <1>1, <1>3, <2>1
  <2>3. d # 0 /\ d \in Nat /\ k + 1 # 0 /\ k + 1 \in Nat /\ 1 <= d + 1
    BY <1>1, <1>3
  <2>4. Moves(d, k + 1) = Moves(d, k) + 1
    <3>1. PICK m, x : m = Moves(d, k) + 1 /\ x = (d + 1) * m /\ k + 1 = x + 1 /\ m \in Int
      BY <1>1, <2>2
    <3>2. Moves(d, k + 1) = m
      BY <2>3, <3>1, MovesAre
    <3> QED
      BY <3>1, <3>2
  <2> QED
    BY <1>1, <1>3, <2>2, <2>4 DEF CounterAt
<1>4. CASE d > 0 /\ ~ (d < v)
  <2>1. /\ k = (d + 1) * Moves(d, k) + v /\ v \in 0 .. (d + 1)
    BY <1>1, <1>4 DEF CounterAt
  <2>2. k + 1 = (d + 1) * Moves(d, k) + (v + 1) /\ v + 1 \in 1 .. (d + 1)
    BY <1>1, <1>4, <2>1
  <2>3. d # 0 /\ d \in Nat /\ k + 1 # 0 /\ k + 1 \in Nat
    BY <1>1, <1>4
  <2>4. Moves(d, k + 1) = Moves(d, k)
    <3>1. PICK m, x, w, j : m = Moves(d, k) /\ x = (d + 1) * m /\ w = v + 1 /\ j = k + 1
      OBVIOUS
    <3>2. m \in Int /\ j = x + w /\ w \in Int /\ 1 <= w /\ w <= d + 1 /\ j \in Nat /\ j # 0
      BY <1>1, <2>2, <2>3, <3>1
    <3>3. Moves(d, j) = m
      BY <2>3, <3>1, <3>2, MovesAre
    <3> QED
      BY <3>1, <3>3
  <2> QED
    BY <1>1, <1>4, <2>2, <2>4 DEF CounterAt
<1> QED
  BY <1>2, <1>3, <1>4

LEMMA CounterStart ==
  ASSUME NEW d \in Int
  PROVE  CounterAt(d, 0, 0) /\ Moves(d, 0) = 0
BY DEF CounterAt, Moves

-----------------------------------------------------------------------------
(* The picture of a tile after n moves of its strand, and for ping-pong    *)
(* which way it goes.  At its start it may have been flipped or not.       *)

FlipAt(s, l, n, flip) ==
  s.mode = "pingpong" =>
    LET far == (l - s.start + n) % (2 * (s.finish - s.start))
    IN  /\ flip => far = 0 \/ far > s.finish - s.start
        /\ ~ flip => far <= s.finish - s.start

LEMMA PictureStart ==
  ASSUME NEW s \in Strand, NEW l \in s.start .. s.finish, s.mode # "random",
         s.mode = "pingpong" => s.start < s.finish
  PROVE  PictureAfter(s, l, 0) = l /\ FlipAt(s, l, 0, FALSE)
<1>1. s.start \in Int /\ s.finish \in Int /\ s.mode \in Modes
  BY DEF Strand
<1> DEFINE off == l - s.start
           len == s.finish - s.start + 1
           turn == 2 * (len - 1)
<1>2. /\ off \in 0 .. (len - 1) /\ len \in Nat /\ off + 0 = off /\ off - 0 = off
      /\ s.start + off = l
  BY <1>1
<1>3. off % len = off
  BY <1>2, ModSmall
<1>4. CASE s.mode = "forward" \/ s.mode = "backward" \/ s.mode = "other"
  BY <1>2, <1>3, <1>4 DEF PictureAfter, FlipAt
<1>5. CASE s.mode = "pingpong"
  <2>1. off \in 0 .. (turn - 1) /\ turn \in Nat /\ off < len
    BY <1>1, <1>2, <1>5
  <2>2. off % turn = off
    BY <2>1, ModSmall
  <2>3. turn = 2 * (s.finish - s.start) /\ off <= s.finish - s.start
    BY <1>1, <2>1
  <2>4. PictureAfter(s, l, 0) = s.start + off
    BY <1>2, <1>5, <2>1, <2>2 DEF PictureAfter
  <2>5. FlipAt(s, l, 0, FALSE)
    BY <1>2, <2>2, <2>3 DEF FlipAt
  <2> QED
    BY <1>2, <2>4, <2>5
<1> QED
  BY <1>1, <1>4, <1>5 DEF Modes

LEMMA PictureStep ==
  ASSUME NEW s \in Strand, NEW l \in s.start .. s.finish, s.mode # "random",
         s.mode = "pingpong" => s.start < s.finish,
         NEW n \in Int, NEW flip \in BOOLEAN, FlipAt(s, l, n, flip), NEW roll
  PROVE  /\ AnimateTile(s, PictureAfter(s, l, n), flip, roll) = PictureAfter(s, l, n + 1)
         /\ FlipAt(s, l, n + 1, FlipTile(s, PictureAfter(s, l, n), flip))
<1>1. s.start \in Int /\ s.finish \in Int /\ s.mode \in Modes
  BY DEF Strand
<1> DEFINE off == l - s.start
           len == s.finish - s.start + 1
           turn == 2 * (len - 1)
           idx == PictureAfter(s, l, n)
<1>2. off \in Int /\ len \in Nat /\ len >= 1
  BY <1>1
<1>3. CASE s.mode = "forward"
  <2> DEFINE x == (off + n) % len
  <2>1. idx = s.start + x /\ PictureAfter(s, l, n + 1) = s.start + ((off + (n + 1)) % len)
    BY <1>3 DEF PictureAfter
  <2>2. off + (n + 1) = (off + n) + 1 /\ off + n \in Int
    BY <1>2
  <2>3. x \in 0 .. (len - 1) /\ (off + (n + 1)) % len = IF x + 1 < len THEN x + 1 ELSE 0
    BY <1>2, <2>2, ModOf, NextTurn
  <2>4. AnimateTile(s, idx, flip, roll) = IF idx < s.finish THEN idx + 1 ELSE s.start
    BY <1>3 DEF AnimateTile
  <2> HIDE DEF x, idx
  <2>5. AnimateTile(s, idx, flip, roll) = PictureAfter(s, l, n + 1)
    BY <1>1, <2>1, <2>3, <2>4
  <2> QED
    BY <1>3, <2>5 DEF idx, FlipAt
<1>4. CASE s.mode = "backward"
  <2> DEFINE x == (off - n) % len
  <2>1. idx = s.start + x /\ PictureAfter(s, l, n + 1) = s.start + ((off - (n + 1)) % len)
    BY <1>4 DEF PictureAfter
  <2>2. off - (n + 1) = (off - n) - 1 /\ off - n \in Int
    BY <1>2
  <2>3. x \in 0 .. (len - 1) /\ (off - (n + 1)) % len = IF x > 0 THEN x - 1 ELSE len - 1
    BY <1>2, <2>2, ModOf, LastTurn
  <2>4. AnimateTile(s, idx, flip, roll) = IF idx > s.start THEN idx - 1 ELSE s.finish
    BY <1>4 DEF AnimateTile
  <2> HIDE DEF x, idx
  <2>5. AnimateTile(s, idx, flip, roll) = PictureAfter(s, l, n + 1)
    BY <1>1, <2>1, <2>3, <2>4
  <2> QED
    BY <1>4, <2>5 DEF idx, FlipAt
<1>5. CASE s.mode = "pingpong"
  <2> DEFINE x == (off + n) % turn
             y == (off + (n + 1)) % turn
  <2>1. turn \in Nat /\ turn >= 2 /\ turn = 2 * (s.finish - s.start)
    BY <1>1, <1>5
  <2>2. off + (n + 1) = (off + n) + 1 /\ off + n \in Int
    BY <1>2
  <2>3. x \in 0 .. (turn - 1) /\ y = IF x + 1 < turn THEN x + 1 ELSE 0
    <3>1. PICK q \in Nat, t \in Int : q = turn /\ t = off + n /\ q >= 1
      BY <2>1, <2>2
    <3>2. t % q \in 0 .. (q - 1) /\ (t + 1) % q = IF (t % q) + 1 < q THEN (t % q) + 1 ELSE 0
      BY <3>1, ModOf, NextTurn
    <3> HIDE DEF off, turn
    <3> QED
      BY <2>2, <3>1, <3>2
  <2>4. /\ idx = s.start + (IF x < len THEN x ELSE turn - x)
        /\ PictureAfter(s, l, n + 1) = s.start + (IF y < len THEN y ELSE turn - y)
    BY <1>5 DEF PictureAfter
  <2>5. /\ flip => x = 0 \/ x > s.finish - s.start
        /\ ~ flip => x <= s.finish - s.start
    BY <1>5, <2>1 DEF FlipAt
  <2>6. AnimateTile(s, idx, flip, roll) =
          IF flip THEN IF idx # s.start THEN idx - 1 ELSE idx + 1
                  ELSE IF idx # s.finish THEN idx + 1 ELSE idx - 1
    BY <1>5 DEF AnimateTile
  <2>7. FlipTile(s, idx, flip) = IF flip THEN idx # s.start ELSE idx = s.finish
    BY <1>5 DEF FlipTile
  <2> HIDE DEF x, y, idx
  <2>8. CASE flip
    <3>1. AnimateTile(s, idx, flip, roll) = IF idx # s.start THEN idx - 1 ELSE idx + 1
      BY <2>6, <2>8
    <3>2. AnimateTile(s, idx, flip, roll) = PictureAfter(s, l, n + 1)
      <4>1. CASE x = 0
        BY <1>1, <2>1, <2>3, <2>4, <3>1, <4>1
      <4>2. CASE x > s.finish - s.start
        <5>1. idx = s.start + turn - x /\ idx # s.start
          BY <1>1, <2>1, <2>3, <2>4, <4>2
        <5>2. PictureAfter(s, l, n + 1) = s.start + turn - x - 1
          BY <1>1, <2>1, <2>3, <2>4, <4>2
        <5> QED
          BY <1>1, <2>1, <2>3, <3>1, <5>1, <5>2
      <4> QED
        BY <2>5, <2>8, <4>1, <4>2
    <3>3. FlipTile(s, idx, flip) <=> idx # s.start
      BY <2>7, <2>8, Zenon
    <3>4. IF idx # s.start THEN y = 0 \/ y > s.finish - s.start ELSE y <= s.finish - s.start
      BY <1>1, <2>1, <2>3, <2>4, <2>5, <2>8
    <3>5. FlipAt(s, l, n + 1, FlipTile(s, idx, flip))
      BY <2>1, <3>3, <3>4 DEF FlipAt, y
    <3> QED
      BY <3>2, <3>5 DEF idx
  <2>9. CASE ~ flip
    <3>1. AnimateTile(s, idx, flip, roll) = IF idx # s.finish THEN idx + 1 ELSE idx - 1
      BY <2>6, <2>9
    <3>2. AnimateTile(s, idx, flip, roll) = PictureAfter(s, l, n + 1)
      BY <1>1, <2>1, <2>3, <2>4, <2>5, <2>9, <3>1
    <3>3. FlipTile(s, idx, flip) <=> idx = s.finish
      BY <2>7, <2>9, Zenon
    <3>4. IF idx = s.finish THEN y = 0 \/ y > s.finish - s.start ELSE y <= s.finish - s.start
      BY <1>1, <2>1, <2>3, <2>4, <2>5, <2>9
    <3>5. FlipAt(s, l, n + 1, FlipTile(s, idx, flip))
      BY <2>1, <3>3, <3>4 DEF FlipAt, y
    <3> QED
      BY <3>2, <3>5 DEF idx
  <2> QED
    BY <2>8, <2>9
<1>6. CASE s.mode = "other"
  BY <1>6 DEF PictureAfter, AnimateTile, FlipAt
<1> QED
  BY <1>1, <1>3, <1>4, <1>5, <1>6 DEF Modes

-----------------------------------------------------------------------------
(* Every strand and every tile that one strand alone moves are on time.    *)

(* The tile l is moved by the strand a alone, and predictably.             *)
Alone(l, a) == StrandsOf[l] = {a} /\ Tame(l) /\ anims[a].mode # "random"

ShowsAfter(l, a, n, idx, flip) ==
  idx = PictureAfter(anims[a], l, n) /\ FlipAt(anims[a], l, n, flip)

OnTime ==
  /\ \A a \in Strands : CounterAt(anims[a].delay, Ticked(a), vadelay[a])
  /\ \A l \in Tiles, a \in Strands :
       Alone(l, a) => ShowsAfter(l, a, Moves(anims[a].delay, Ticked(a)), tileidx[l], flipped[l])

LEMMA AloneFacts ==
  ASSUME NEW l \in Tiles, NEW a \in Strands, Alone(l, a)
  PROVE  /\ anims[a] \in Strand /\ anims[a].mode # "random"
         /\ l \in anims[a].start .. anims[a].finish
         /\ anims[a].mode = "pingpong" => anims[a].start < anims[a].finish
         /\ \A b \in Strands \ {a} : l \notin Span(b)
BY TileAssumption DEF Alone, StrandsOf, Tame, Span, Strands

LEMMA ShowsOwn ==
  ASSUME NEW l \in Tiles, NEW a \in Strands, Alone(l, a)
  PROVE  ShowsAfter(l, a, 0, l, FALSE)
BY AloneFacts, PictureStart DEF ShowsAfter

LEMMA ShowsNext ==
  ASSUME NEW l \in Tiles, NEW a \in Strands, Alone(l, a), NEW n \in Int,
         NEW idx, NEW flip \in BOOLEAN, ShowsAfter(l, a, n, idx, flip), NEW roll
  PROVE  ShowsAfter(l, a, n + 1, AnimateTile(anims[a], idx, flip, roll),
                    FlipTile(anims[a], idx, flip))
<1>1. /\ idx = PictureAfter(anims[a], l, n) /\ FlipAt(anims[a], l, n, flip)
  BY DEF ShowsAfter
<1>2. /\ AnimateTile(anims[a], PictureAfter(anims[a], l, n), flip, roll) = PictureAfter(anims[a], l, n + 1)
      /\ FlipAt(anims[a], l, n + 1, FlipTile(anims[a], PictureAfter(anims[a], l, n), flip))
  BY <1>1, AloneFacts, PictureStep
<1> QED
  BY <1>1, <1>2 DEF ShowsAfter

(* As long as the strands have made as many ticks, nothing changes.        *)
LEMMA OnTimeSame ==
  ASSUME OnTime, UNCHANGED <<vadelay, tileidx, flipped>>, \A a \in Strands : Ticked(a)' = Ticked(a)
  PROVE  OnTime'
BY DEF OnTime, Alone, ShowsAfter, Tame, StrandsOf

(* After a set was loaded no tick has been made.                           *)
LEMMA OnTimeStart ==
  ASSUME vadelay = NoDelay, tileidx = Own, flipped = NoFlip, \A a \in Strands : Ticked(a) = 0
  PROVE  OnTime
<1>1. ASSUME NEW a \in Strands
      PROVE  CounterAt(anims[a].delay, 0, 0) /\ Moves(anims[a].delay, 0) = 0
  BY StrandTypes, CounterStart
<1>2. ASSUME NEW a \in Strands
      PROVE  CounterAt(anims[a].delay, Ticked(a), vadelay[a])
  BY <1>1 DEF NoDelay
<1>3. ASSUME NEW l \in Tiles, NEW a \in Strands, Alone(l, a)
      PROVE  ShowsAfter(l, a, Moves(anims[a].delay, Ticked(a)), tileidx[l], flipped[l])
  BY <1>1, <1>3, ShowsOwn DEF Own, NoFlip
<1> QED
  BY <1>2, <1>3 DEF OnTime

LEMMA TickedIsNat ==
  ASSUME Loaded, NEW a \in Strands
  PROVE  Ticked(a) \in Nat
BY TileAssumption DEF Loaded, TileInv, TileTypeOK, Ticked, Strands

(* A strand's turn is a tick for it, and for no other strand.              *)
LEMMA TurnIsTick ==
  ASSUME Loaded, AnimateStrand, NEW a \in Strands
  PROVE  Ticked(a)' = IF a = strand THEN Ticked(a) + 1 ELSE Ticked(a)
<1>1. strand \in Int /\ a \in Int /\ mytimer - loadtime \in Int
  BY TileAssumption DEF Loaded, TileInv, TileTypeOK, Strands
<1>2. strand' = strand + 1 /\ mytimer' = mytimer /\ loadtime' = loadtime
  BY DEF AnimateStrand
<1> QED
  BY <1>1, <1>2 DEF Ticked

LEMMA StrandOnTime == Loaded /\ OnTime /\ AnimateStrand => OnTime'
<1> SUFFICES ASSUME Loaded, OnTime, AnimateStrand PROVE OnTime'
  OBVIOUS
<1>0. PICK s \in Strands : s = strand
  BY DEF AnimateStrand
<1> DEFINE k == Ticked(s)
           d == anims[s].delay
<1>1. s \in Strands /\ vadelay \in [Strands -> Nat] /\ flipped \in [Tiles -> BOOLEAN]
  BY DEF Loaded, TileInv, TileTypeOK
<1>2. d \in Int /\ k \in Nat /\ vadelay[s] \in Nat /\ CounterAt(d, k, vadelay[s])
  BY <1>1, StrandTypes, TickedIsNat DEF OnTime
<1>3. /\ CounterAt(d, k + 1, (IF Due(s) THEN 0 ELSE vadelay[s]) + 1)
      /\ Moves(d, k + 1) = IF Due(s) THEN Moves(d, k) + 1 ELSE Moves(d, k)
  BY <1>2, CounterStep DEF Due
<1>4. Ticked(s)' = k + 1 /\ \A a \in Strands \ {s} : Ticked(a)' = Ticked(a)
  BY <1>0, TurnIsTick
<1>5. /\ vadelay'[s] = (IF Due(s) THEN 0 ELSE vadelay[s]) + 1
      /\ \A a \in Strands \ {s} : vadelay'[a] = vadelay[a]
  BY <1>0, <1>1 DEF AnimateStrand, CountDelay
<1> HIDE DEF k, d
<1>6. ASSUME NEW a \in Strands
      PROVE  CounterAt(anims[a].delay, Ticked(a)', vadelay'[a])
  <2>1. CASE a = s
    BY <1>3, <1>4, <1>5, <2>1 DEF d
  <2>2. CASE a # s
    BY <1>4, <1>5, <2>2 DEF OnTime
  <2> QED
    BY <2>1, <2>2
<1>7. ASSUME NEW l \in Tiles, NEW a \in Strands, Alone(l, a)
      PROVE  ShowsAfter(l, a, Moves(anims[a].delay, Ticked(a)'), tileidx'[l], flipped'[l])
  <2>1. ShowsAfter(l, a, Moves(anims[a].delay, Ticked(a)), tileidx[l], flipped[l])
    BY <1>7 DEF OnTime
  <2>2. CASE ~ Due(s)
    <3>1. tileidx' = tileidx /\ flipped' = flipped
      BY <1>0, <2>2 DEF AnimateStrand
    <3>2. Moves(anims[a].delay, Ticked(a)') = Moves(anims[a].delay, Ticked(a))
      BY <1>3, <1>4, <2>2 DEF k, d
    <3> QED
      BY <2>1, <3>1, <3>2
  <2>3. CASE Due(s)
    <3>1. PICK roll :
            /\ tileidx' = [t \in Tiles |-> IF t \in Span(s)
                 THEN AnimateTile(anims[s], tileidx[t], flipped[t], roll[t]) ELSE tileidx[t]]
            /\ flipped' = [t \in Tiles |-> IF t \in Span(s)
                 THEN FlipTile(anims[s], tileidx[t], flipped[t]) ELSE flipped[t]]
      BY <1>0, <2>3 DEF AnimateStrand
    <3>2. CASE a = s
      <4>1. l \in Span(s)
        BY <1>7, <3>2, AloneFacts, StrandTypes DEF Span
      <4>2. /\ tileidx'[l] = AnimateTile(anims[s], tileidx[l], flipped[l], roll[l])
            /\ flipped'[l] = FlipTile(anims[s], tileidx[l], flipped[l])
        BY <3>1, <4>1
      <4>3. Moves(d, k) \in Int /\ flipped[l] \in BOOLEAN /\ ShowsAfter(l, s, Moves(d, k), tileidx[l], flipped[l])
        BY <1>1, <1>2, <2>1, <3>2, MovesAreInt DEF k, d
      <4>4. ShowsAfter(l, s, Moves(d, k) + 1, tileidx'[l], flipped'[l])
        BY <1>1, <1>7, <3>2, <4>2, <4>3, ShowsNext
      <4>5. Moves(anims[a].delay, Ticked(a)') = Moves(d, k) + 1
        BY <1>3, <1>4, <2>3, <3>2 DEF d
      <4> QED
        BY <3>2, <4>4, <4>5
    <3>3. CASE a # s
      <4>1. l \notin Span(s)
        BY <1>1, <1>7, <3>3, AloneFacts
      <4>2. tileidx'[l] = tileidx[l] /\ flipped'[l] = flipped[l] /\ Ticked(a)' = Ticked(a)
        BY <1>4, <3>1, <3>3, <4>1
      <4> QED
        BY <2>1, <4>2
    <3> QED
      BY <3>2, <3>3
  <2> QED
    BY <2>2, <2>3
<1> QED
  BY <1>6, <1>7 DEF OnTime, Alone, ShowsAfter, Tame, StrandsOf

LEMMA OnTimeInit == TileInit => OnTime
<1> SUFFICES ASSUME TileInit PROVE OnTime
  OBVIOUS
<1>1. ASSUME NEW a \in Strands PROVE Ticked(a) = 0
  <2>1. a \in 1 .. Len(anims) /\ mytimer \in Int /\ mytimer = loadtime /\ strand = 0
    BY TileAssumption DEF TileInit, Strands
  <2> QED
    BY <2>1 DEF Ticked
<1> QED
  BY <1>1, OnTimeStart DEF TileInit

LEMMA OnTimeNext == Loaded /\ Loaded' /\ OnTime /\ [TileNext]_tileVars => OnTime'
<1> SUFFICES ASSUME Loaded, Loaded', OnTime, [TileNext]_tileVars PROVE OnTime'
  OBVIOUS
<1>1. /\ mytimer \in Int /\ loadtime \in Int /\ systemtime \in Int /\ strand \in Int
      /\ Len(anims) \in Nat /\ Strands = 1 .. Len(anims)
  BY TileAssumption DEF Loaded, TileInv, TileTypeOK, Strands
<1>2. CASE UNCHANGED tileVars
  BY <1>2, OnTimeSame DEF tileVars, Ticked
<1>3. CASE TimerTick
  BY <1>3, OnTimeSame DEF TimerTick, Ticked
<1>4. CASE LoadTiles
  <2>1. ASSUME NEW a \in Strands PROVE Ticked(a)' = 0
    BY <1>1, <1>4 DEF LoadTiles, Ticked
  <2>2. vadelay' = NoDelay /\ tileidx' = Own /\ flipped' = NoFlip
    BY <1>4 DEF LoadTiles
  <2>3. ASSUME NEW a \in Strands
        PROVE  CounterAt(anims[a].delay, 0, 0) /\ Moves(anims[a].delay, 0) = 0
    BY StrandTypes, CounterStart
  <2>4. ASSUME NEW a \in Strands
        PROVE  CounterAt(anims[a].delay, Ticked(a)', vadelay'[a])
    BY <2>1, <2>2, <2>3 DEF NoDelay
  <2>5. ASSUME NEW l \in Tiles, NEW a \in Strands, Alone(l, a)
        PROVE  ShowsAfter(l, a, Moves(anims[a].delay, Ticked(a)'), tileidx'[l], flipped'[l])
    BY <2>1, <2>2, <2>3, <2>5, ShowsOwn DEF Own, NoFlip
  <2> QED
    BY <2>4, <2>5 DEF OnTime, Alone, ShowsAfter, Tame, StrandsOf
<1>5. CASE UpdateAnimations
  <2>1. ASSUME NEW a \in Strands PROVE Ticked(a)' = Ticked(a)
    BY <1>1, <1>5 DEF UpdateAnimations, Ticked
  <2> QED
    BY <1>5, <2>1, OnTimeSame DEF UpdateAnimations
<1>6. CASE AnimateStrand
  BY <1>6, StrandOnTime
<1>7. CASE CountTick
  <2>1. ASSUME NEW a \in Strands PROVE Ticked(a)' = Ticked(a)
    BY <1>1, <1>7 DEF CountTick, Ticked
  <2> QED
    BY <1>7, <2>1, OnTimeSame DEF CountTick
<1> QED
  BY <1>2, <1>3, <1>4, <1>5, <1>6, <1>7 DEF TileNext

(* Each tile that one strand alone moves shows the picture that mode and   *)
(* delay give it for the time since the set was loaded, for any strands    *)
(* and any clock, however rarely layers are drawn: ticks made up for in    *)
(* one go are each counted once.                                           *)
THEOREM PicturesOnTime == TileSpec => []TilesOnTime
<1>1. OnTime => TilesOnTime
  <2>1. SUFFICES ASSUME OnTime, NEW l \in TameTiles, NEW a \in StrandsOf[l],
                        StrandsOf[l] = {a}, anims[a].mode # "random"
                 PROVE  tileidx[l] = PictureAfter(anims[a], l, Moves(anims[a].delay, Ticked(a)))
    BY DEF TilesOnTime
  <2>2. l \in Tiles /\ Tame(l) /\ a \in Strands
    BY <2>1 DEF TameTiles, StrandsOf
  <2>3. Alone(l, a)
    BY <2>1, <2>2 DEF Alone
  <2> QED
    BY <2>1, <2>2, <2>3 DEF OnTime, ShowsAfter
<1> QED
  BY <1>1, LoadedInit, LoadedNext, OnTimeInit, OnTimeNext, PTL DEF TileSpec

================================================================================
