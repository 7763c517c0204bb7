------------------------ MODULE ActiveObjectsProofs --------------------------
(***************************************************************************)
(* Proofs about ActiveObjects, for any entities, ids, blocks, clients and  *)
(* limit.  That no entity is doubled is not inductive: a block that is not *)
(* marked as modified comes back from the database when it is unloaded, so *)
(* IInv also says of what the database has of such blocks that nobody else *)
(* has it.  On IInv rest KnownInv (who knows an object) and KeepInv (what  *)
(* is to be kept is somewhere, what was removed is nowhere).               *)
(***************************************************************************)
EXTENDS ActiveObjects, FiniteSetTheorems, TLAPS

\* The block has the entity stored, or would have it when it is read again.
Held(b, e) == e \in StoredIn(b) \/ (b \notin dirty /\ e \in disk[b])

OneObject == \A i, j \in DOMAIN objs : objs[i].entity = objs[j].entity => i = j

OneBlock == \A e \in Entities, b, d \in Blocks : Held(b, e) /\ Held(d, e) => b = d

\* An entity that is active is nowhere stored, and its static data is in the
\* block that would have it.
OwnBlock ==
    \A id \in DOMAIN objs, b \in Blocks :
        Held(b, objs[id].entity) =>
            objs[id].static = b /\ objs[id].entity \notin StoredIn(b)

UnbornNowhere ==
    \A e \in Entities : fate[e] = "unborn" =>
        /\ \A id \in DOMAIN objs : objs[id].entity # e
        /\ \A b \in Blocks : e \notin stored[b] /\ e \notin disk[b]

TaskInv ==
    /\ task.kind = "activate" =>
        task.block \in Blocks /\ task.left \subseteq stored[task.block]
    /\ task.kind # "activate" => task.block = Nowhere

IInv ==
    /\ TypeOK /\ StaticExact
    /\ OneObject /\ OneBlock /\ OwnBlock /\ UnbornNowhere /\ TaskInv

TaskType ==
    [kind : {"idle", "deactivate", "activate", "shutdown", "down"},
     todo : SUBSET Ids, blocks : SUBSET Blocks,
     block : Blocks \cup {Nowhere}, left : SUBSET Entities]

Fates == {"unborn", "kept", "loose", "removed", "stuck", "dropped"}

\* What is left to activate is stored.
LEMMA StoredInSubset == ASSUME IInv PROVE \A b \in Blocks : StoredIn(b) \subseteq stored[b]
BY ObjectsAssumption DEF IInv, TaskInv, StoredIn
-----------------------------------------------------------------------------
(***************************************************************************)
(* Steps that leave the places of entities alone.                          *)
(***************************************************************************)
LEMMA SamePlaces ==
    ASSUME IInv, DOMAIN objs' = DOMAIN objs,
           \A id \in DOMAIN objs : /\ objs'[id].entity = objs[id].entity
                                   /\ objs'[id].static = objs[id].static,
           active' = active, disk' = disk, dirty' = dirty,
           \A b \in Blocks : StoredIn(b)' = StoredIn(b)
    PROVE  StaticExact' /\ OneObject' /\ OneBlock' /\ OwnBlock'
<1>1. \A b \in Blocks : \A e : Held(b, e)' = Held(b, e)
    BY DEF Held
<1>2. StaticExact' /\ OneObject'
    BY DEF IInv, StaticExact, OneObject
<1>3. OneBlock'
    BY <1>1 DEF IInv, OneBlock
<1>4. OwnBlock'
    BY <1>1 DEF IInv, OwnBlock
<1> QED BY <1>2, <1>3, <1>4

\* Scripts and clients change the other parts of objects.
\* The removal of an object touches nothing that is stored.
LEMMA RemoveKeeps == ASSUME IInv, NEW id \in Ids, Remove(id) PROVE IInv'
<1> USE DEF Remove, mapVars
<1>1. TypeOK'
  <2>1. objs[id] \in ObjectType /\ id \in DOMAIN objs
    BY DEF IInv, TypeOK
  <2>2. objs'[id] \in ObjectType
    BY <2>1 DEF ObjectType
  <2>3. DOMAIN objs' \subseteq Ids /\ \A i \in DOMAIN objs' : objs'[i] \in ObjectType
    BY <2>2 DEF IInv, TypeOK
  <2>4. fate' \in [Entities -> Fates]
    BY DEF IInv, TypeOK, Fates
  <2> QED BY <2>3, <2>4 DEF IInv, TypeOK, Fates
<1>2. StaticExact' /\ OneObject' /\ OneBlock' /\ OwnBlock'
  <2>1. \A b \in Blocks : StoredIn(b)' = StoredIn(b)
    BY DEF StoredIn
  <2>2. \A i \in DOMAIN objs : /\ objs'[i].entity = objs[i].entity
                               /\ objs'[i].static = objs[i].static
    BY DEF IInv, TypeOK, ObjectType
  <2> QED BY <2>1, <2>2, SamePlaces
<1>3. UnbornNowhere'
    BY DEF IInv, TypeOK, ObjectType, UnbornNowhere
<1>4. TaskInv'
    BY DEF IInv, TaskInv
<1> QED BY <1>1, <1>2, <1>3, <1>4 DEF IInv

\* An object that moves keeps its static data where it was stored.
LEMMA MoveKeeps == ASSUME IInv, NEW id \in Ids, NEW b \in Blocks, Move(id, b) PROVE IInv'
<1> USE DEF Move, mapVars
<1>1. TypeOK'
    BY DEF IInv, TypeOK, ObjectType
<1>2. StaticExact' /\ OneObject' /\ OneBlock' /\ OwnBlock'
  <2>1. \A d \in Blocks : StoredIn(d)' = StoredIn(d)
    BY DEF StoredIn
  <2>2. \A i \in DOMAIN objs : /\ objs'[i].entity = objs[i].entity
                               /\ objs'[i].static = objs[i].static
    BY DEF IInv, TypeOK, ObjectType
  <2> QED BY <2>1, <2>2, SamePlaces
<1>3. UnbornNowhere'
    BY DEF IInv, TypeOK, ObjectType, UnbornNowhere
<1>4. TaskInv'
    BY DEF IInv, TaskInv
<1> QED BY <1>1, <1>2, <1>3, <1>4 DEF IInv

\* static_save only decides on what deactivation does later.
LEMMA SetStaticSaveKeeps ==
    ASSUME IInv, NEW id \in Ids, NEW saves \in BOOLEAN, SetStaticSave(id, saves)
    PROVE  IInv'
<1> USE DEF SetStaticSave, mapVars
<1>1. TypeOK'
  <2>1. objs[id] \in ObjectType /\ id \in DOMAIN objs
    BY DEF IInv, TypeOK
  <2>2. objs'[id] \in ObjectType
    BY <2>1 DEF ObjectType
  <2>3. DOMAIN objs' \subseteq Ids /\ \A i \in DOMAIN objs' : objs'[i] \in ObjectType
    BY <2>2 DEF IInv, TypeOK
  <2>4. fate' \in [Entities -> Fates]
    BY DEF IInv, TypeOK, Fates
  <2> QED BY <2>3, <2>4 DEF IInv, TypeOK, Fates
<1>2. StaticExact' /\ OneObject' /\ OneBlock' /\ OwnBlock'
  <2>1. \A d \in Blocks : StoredIn(d)' = StoredIn(d)
    BY DEF StoredIn
  <2>2. \A i \in DOMAIN objs : /\ objs'[i].entity = objs[i].entity
                               /\ objs'[i].static = objs[i].static
    BY DEF IInv, TypeOK, ObjectType
  <2> QED BY <2>1, <2>2, SamePlaces
<1>3. UnbornNowhere'
    BY DEF IInv, TypeOK, ObjectType, UnbornNowhere
<1>4. TaskInv'
    BY DEF IInv, TaskInv
<1> QED BY <1>1, <1>2, <1>3, <1>4 DEF IInv

\* Clients that learn of an object or forget it change its count only.
LEMMA UpdateClientKeeps ==
    ASSUME IInv, NEW c \in Clients, NEW seen \in SUBSET Ids, UpdateClient(c, seen)
    PROVE  IInv'
<1> USE DEF UpdateClient, mapVars
<1>1. \A i \in DOMAIN objs :
        /\ objs'[i].entity = objs[i].entity /\ objs'[i].static = objs[i].static
        /\ objs'[i] \in ObjectType
    BY DEF IInv, TypeOK, ObjectType, Forgotten
<1>2. TypeOK'
    BY <1>1 DEF IInv, TypeOK
<1>3. StaticExact' /\ OneObject' /\ OneBlock' /\ OwnBlock'
  <2>1. \A d \in Blocks : StoredIn(d)' = StoredIn(d)
    BY DEF StoredIn
  <2> QED BY <2>1, <1>1, SamePlaces
<1>4. UnbornNowhere' /\ TaskInv'
    BY <1>1 DEF IInv, UnbornNowhere, TaskInv
<1> QED BY <1>2, <1>3, <1>4 DEF IInv

\* Steps that only change the loop under way, outside an activation.
LEMMA TaskKeeps ==
    ASSUME IInv, UNCHANGED <<objs, mapVars, knows, fate, cut>>,
           activeBlocks' \in SUBSET Blocks, task' \in TaskType,
           task.kind # "activate", task'.kind # "activate", task'.block = Nowhere
    PROVE  IInv'
<1> USE DEF mapVars
<1>1. TypeOK'
    BY DEF IInv, TypeOK, TaskType
<1>2. StaticExact' /\ OneObject' /\ OneBlock' /\ OwnBlock'
  <2>1. \A d \in Blocks : StoredIn(d)' = StoredIn(d)
    BY ObjectsAssumption DEF StoredIn, IInv, TaskInv
  <2> QED BY <2>1, SamePlaces
<1>3. UnbornNowhere' /\ TaskInv'
    BY DEF IInv, UnbornNowhere, TaskInv
<1> QED BY <1>1, <1>2, <1>3 DEF IInv

\* Starting a loop fills its list with objects that are there; ending it empties it.
LEMMA LoopKeeps ==
    ASSUME IInv,
           \/ \E blocks \in SUBSET Blocks : ManageBlocks(blocks)
           \/ \E b \in Blocks : FinishGen(b)
           \/ \E id \in Ids : Stays(id)
           \/ EndSweep \/ Shutdown \/ Restart
    PROVE  IInv'
<1> USE DEF Idle, IsIdle, TaskType, mapVars
<1>0. task \in TaskType /\ activeBlocks \in SUBSET Blocks /\ DOMAIN objs \in SUBSET Ids
    BY DEF IInv, TypeOK
<1>a. task.kind # "activate" => task.block = Nowhere
    BY DEF IInv, TaskInv
<1>1. CASE \E blocks \in SUBSET Blocks : ManageBlocks(blocks)
  <2> PICK blocks \in SUBSET Blocks : ManageBlocks(blocks)
    BY <1>1
  <2>1. task' \in TaskType /\ task'.kind = "deactivate" /\ task'.block = Nowhere
    BY <1>0 DEF ManageBlocks
  <2> QED BY <2>1, TaskKeeps DEF ManageBlocks
<1>2. CASE \E b \in Blocks : FinishGen(b)
  <2> PICK b \in Blocks : FinishGen(b)
    BY <1>2
  <2>1. task' \in TaskType /\ task'.kind = "deactivate" /\ task'.block = Nowhere
    BY <1>0 DEF FinishGen
  <2> QED BY <1>0, <2>1, TaskKeeps DEF FinishGen
<1>3. CASE \E id \in Ids : Stays(id)
    BY <1>0, <1>a, <1>3, TaskKeeps DEF Stays, Visiting, Visited
<1>4. CASE EndSweep
    BY <1>0, <1>4, TaskKeeps DEF EndSweep
<1>5. CASE Shutdown
    BY <1>0, <1>5, TaskKeeps DEF Shutdown
<1>6. CASE Restart
    BY <1>0, <1>a, <1>6, TaskKeeps DEF Restart
<1> QED BY <1>1, <1>2, <1>3, <1>4, <1>5, <1>6
-----------------------------------------------------------------------------
(***************************************************************************)
(* Objects come and go.                                                    *)
(***************************************************************************)
\* The entity was nowhere, and its block is marked as modified.
LEMMA AddObjectKeeps ==
    ASSUME IInv, NEW e \in Entities, NEW b \in Blocks, NEW saves \in BOOLEAN,
           AddObject(e, b, saves)
    PROVE  IInv'
<1> USE DEF mapVars
<1> PICK id \in FreeIds :
        /\ objs' = Put(id, Object(e, b, IF saves THEN b ELSE Nowhere, saves))
        /\ active' = IF saves THEN [active EXCEPT ![b] = @ \cup {id}] ELSE active
    BY DEF AddObject
<1>1. id \in Ids /\ id \notin DOMAIN objs /\ DOMAIN objs' = DOMAIN objs \cup {id}
    BY DEF FreeIds, Put
<1>2. \A i \in DOMAIN objs : objs'[i] = objs[i]
    BY <1>1 DEF Put
<1>3. /\ objs'[id] \in ObjectType /\ objs'[id].entity = e
      /\ objs'[id].static = IF saves THEN b ELSE Nowhere
    BY DEF Put, Object, ObjectType
<1>4. stored' = stored /\ disk' = disk /\ task' = task
      /\ dirty' = (IF saves THEN dirty \cup {b} ELSE dirty)
      /\ fate[e] = "unborn" /\ fate' = [fate EXCEPT ![e] = Kept(saves)]
    BY DEF AddObject
<1>5. TypeOK'
    BY <1>1, <1>2, <1>3 DEF AddObject, IInv, TypeOK, Kept
<1>6. StaticExact'
    BY <1>1, <1>2, <1>3, ObjectsAssumption DEF IInv, TypeOK, StaticExact
<1>7. /\ \A i \in DOMAIN objs : objs[i].entity # e
      /\ \A d \in Blocks : e \notin stored[d] /\ e \notin disk[d]
    BY <1>4 DEF IInv, UnbornNowhere
<1>8. \A d \in Blocks : ~Held(d, e)' /\ \A f : Held(d, f)' => Held(d, f)
  <2>1. \A d \in Blocks : StoredIn(d)' = StoredIn(d)
    BY <1>4 DEF StoredIn
  <2> QED BY <1>4, <1>7, <2>1, StoredInSubset DEF Held
<1>9. OneObject'
    BY <1>1, <1>2, <1>3, <1>7 DEF IInv, OneObject
<1>10. OneBlock'
    BY <1>8 DEF IInv, OneBlock
<1>11. OwnBlock'
  <2>1. \A d \in Blocks : StoredIn(d)' = StoredIn(d)
    BY <1>4 DEF StoredIn
  <2> QED BY <1>1, <1>2, <1>3, <1>8, <2>1 DEF IInv, OwnBlock
<1>12. UnbornNowhere'
  <2>1. \A f \in Entities : fate'[f] = "unborn" => fate[f] = "unborn" /\ f # e
    BY <1>4 DEF IInv, TypeOK, Kept
  <2> QED BY <1>1, <1>2, <1>3, <1>4, <2>1 DEF IInv, UnbornNowhere
<1>13. TaskInv'
    BY <1>4 DEF IInv, TaskInv
<1> QED BY <1>5, <1>6, <1>9, <1>10, <1>11, <1>12, <1>13 DEF IInv

\* A block that loses static data is marked as modified, so that the database
\* does not bring it back.
LEMMA RemoveRemovedObjectsKeeps == ASSUME IInv, RemoveRemovedObjects PROVE IInv'
<1> DEFINE removed == {id \in DOMAIN objs : objs[id].removal}
           changed == removed \cup Storing
<1> USE DEF mapVars
<1>1. /\ DOMAIN objs' = DOMAIN objs \ Dead
      /\ \A i \in DOMAIN objs' :
            objs'[i] = IF i \in removed THEN [objs[i] EXCEPT !.static = Nowhere] ELSE objs[i]
    BY DEF RemoveRemovedObjects
<1>2. /\ active' = [b \in Blocks |-> active[b] \ {id \in changed : objs[id].static = b}]
      /\ stored' = [b \in Blocks |-> stored[b] \cup
                {objs[id].entity : id \in {i \in Storing : objs[i].static = b}}]
      /\ dirty' = dirty \cup {b \in Blocks : \E id \in changed : objs[id].static = b}
      /\ disk' = disk /\ fate' = fate /\ task' = task
      /\ task.kind = "idle"
    BY DEF RemoveRemovedObjects, IsIdle
<1>3. Storing \subseteq Dead /\ Dead \subseteq DOMAIN objs /\ changed \subseteq DOMAIN objs
    BY DEF Storing, Dead
<1>4. /\ \A i \in DOMAIN objs : objs[i] \in ObjectType
      /\ \A i \in DOMAIN objs' : /\ objs'[i] \in ObjectType
                                 /\ objs'[i].entity = objs[i].entity
                                 /\ objs'[i].static =
                                      IF i \in removed THEN Nowhere ELSE objs[i].static
    BY <1>1 DEF IInv, TypeOK, ObjectType
<1>5. TypeOK'
  <2>1. \A b \in Blocks : stored'[b] \subseteq Entities
    BY <1>2, <1>3, <1>4 DEF IInv, TypeOK, ObjectType
  <2>2. stored' \in [Blocks -> SUBSET Entities] /\ active' \in [Blocks -> SUBSET Ids]
    BY <1>2, <2>1 DEF IInv, TypeOK
  <2> QED BY <1>1, <1>2, <1>4, <2>2 DEF RemoveRemovedObjects, IInv, TypeOK
<1>6. StaticExact'
  <2> SUFFICES ASSUME NEW b \in Blocks
               PROVE  active'[b] = {id \in DOMAIN objs' : objs'[id].static = b}
    BY DEF StaticExact
  <2>1. active'[b] = {id \in DOMAIN objs : objs[id].static = b /\ id \notin changed}
    BY <1>2 DEF IInv, StaticExact
  <2>2. \A id \in Dead : objs[id].static = b => id \in changed
    BY ObjectsAssumption DEF Storing, Dead
  <2>3. Nowhere # b
    BY ObjectsAssumption
  <2>4. \A id \in DOMAIN objs' : objs'[id].static = b <=> objs[id].static = b /\ id \notin changed
    BY <1>1, <1>3, <1>4, <2>3
  <2> QED BY <1>1, <2>1, <2>2, <2>4
<1>7. \A b \in Blocks : StoredIn(b) = stored[b] /\ StoredIn(b)' = stored'[b]
    BY <1>2, ObjectsAssumption DEF StoredIn, IInv, TaskInv
<1>8. \A b \in Blocks : \A e : Held(b, e)' =>
        \/ Held(b, e)
        \/ \E id \in Storing : objs[id].entity = e /\ objs[id].static = b
    BY <1>2, <1>7 DEF Held, IInv, TypeOK
<1>9. OneObject'
    BY <1>1, <1>4 DEF IInv, OneObject
<1>10. OneBlock'
    BY <1>3, <1>8 DEF IInv, OneBlock, OwnBlock, OneObject
<1>11. OwnBlock'
  <2> SUFFICES ASSUME NEW id \in DOMAIN objs', NEW b \in Blocks,
                      \/ objs'[id].entity \in StoredIn(b)'
                      \/ b \notin dirty' /\ objs'[id].entity \in disk'[b]
               PROVE  objs'[id].static = b /\ objs'[id].entity \notin StoredIn(b)'
    BY DEF OwnBlock, Held
  <2>1. id \in DOMAIN objs /\ id \notin Storing /\ objs'[id].entity = objs[id].entity
    BY <1>1, <1>3, <1>4
  <2>2. ~ \E i \in Storing : objs[i].entity = objs[id].entity
    BY <2>1, <1>3 DEF IInv, OneObject
  <2>3. Held(b, objs[id].entity)
    BY <1>8, <2>1, <2>2 DEF Held
  <2>4. objs[id].static = b /\ objs[id].entity \notin stored[b]
    BY <2>1, <2>3, <1>7 DEF IInv, OwnBlock
  <2>5. objs[id].entity \notin stored'[b]
    BY <1>2, <2>2, <2>4
  <2>6. id \notin removed
    BY <1>2, <1>7, <2>1, <2>4, <2>5
  <2> QED BY <1>4, <1>7, <2>1, <2>4, <2>5, <2>6
<1>12. UnbornNowhere'
    BY <1>1, <1>2, <1>3, <1>4 DEF IInv, UnbornNowhere, TypeOK
<1>13. TaskInv'
    BY <1>2 DEF IInv, TaskInv
<1> QED BY <1>5, <1>6, <1>9, <1>10, <1>11, <1>12, <1>13 DEF IInv
-----------------------------------------------------------------------------
(***************************************************************************)
(* Deactivation.                                                           *)
(***************************************************************************)
\* The block that loses the static data is marked.
LEMMA ResaveKeeps == ASSUME IInv, NEW id \in Ids, Resave(id) PROVE IInv'
<1> USE DEF mapVars
<1> DEFINE b == ResavedIn(objs[id])
           s == objs[id].static
           p == objs[id].pos
<1>1. /\ id \in DOMAIN objs /\ s # Nowhere /\ s # p
      /\ objs' = [objs EXCEPT ![id].static = b]
      /\ active' = [d \in Blocks |->
            IF d = p /\ ~Full(d) THEN active[d] \cup {id} ELSE WithoutStatic(id)[d]]
      /\ dirty' = dirty \cup Moved(s, b)
      /\ task' = [task EXCEPT !.todo = @ \ {id}] /\ task.kind # "activate"
      /\ stored' = stored /\ disk' = disk /\ fate' = fate
    BY DEF Resave, Visiting, Visited, Strayed
<1>2. /\ objs[id] \in ObjectType /\ s \in Blocks /\ p \in Blocks
      /\ b = IF Full(p) THEN Nowhere ELSE p
    BY <1>1 DEF IInv, TypeOK, ObjectType, ResavedIn
<1>3. /\ DOMAIN objs' = DOMAIN objs
      /\ \A i \in DOMAIN objs : /\ objs'[i] \in ObjectType
                                /\ objs'[i].entity = objs[i].entity
                                /\ objs'[i].static = IF i = id THEN b ELSE objs[i].static
    BY <1>1, <1>2 DEF IInv, TypeOK, ObjectType
<1>4. \A d \in Blocks : active'[d] = IF d = p /\ ~Full(d) THEN active[d] \cup {id}
                                     ELSE IF d = s THEN active[d] \ {id} ELSE active[d]
    BY <1>1 DEF WithoutStatic
<1>5. TypeOK'
  <2>1. active' \in [Blocks -> SUBSET Ids]
    BY <1>1, <1>4 DEF IInv, TypeOK
  <2>2. dirty' \in SUBSET Blocks
    BY <1>1, <1>2 DEF IInv, TypeOK, Moved
  <2>3. task' \in TaskType
    BY <1>1 DEF IInv, TypeOK, TaskType
  <2> QED BY <1>1, <1>3, <2>1, <2>2, <2>3 DEF Resave, IInv, TypeOK, TaskType
<1>6. StaticExact'
  <2> SUFFICES ASSUME NEW d \in Blocks
               PROVE  active'[d] = {i \in DOMAIN objs' : objs'[i].static = d}
    BY DEF StaticExact
  <2>1. active[d] = {i \in DOMAIN objs : objs[i].static = d}
    BY DEF IInv, StaticExact
  <2>2. CASE d = p /\ ~Full(d)
    BY <1>1, <1>2, <1>3, <1>4, <2>1, <2>2
  <2>3. CASE ~ (d = p /\ ~Full(d))
    <3>1. active'[d] = active[d] \ {id}
      BY <1>1, <1>4, <2>1, <2>3
    <3>2. b # d
      BY <1>2, <2>3, ObjectsAssumption
    <3> QED BY <1>1, <1>3, <2>1, <3>1, <3>2
  <2> QED BY <2>2, <2>3
<1>7. \A d \in Blocks : StoredIn(d)' = StoredIn(d)
    BY <1>1 DEF StoredIn, IInv, TypeOK
<1>8. \A d \in Blocks : \A e : Held(d, e)' => Held(d, e)
    BY <1>1, <1>7 DEF Held
<1>9. OneObject' /\ OneBlock'
    BY <1>3, <1>8 DEF IInv, OneObject, OneBlock
<1>10. OwnBlock'
  <2> SUFFICES ASSUME NEW i \in DOMAIN objs', NEW d \in Blocks,
                      \/ objs'[i].entity \in StoredIn(d)'
                      \/ d \notin dirty' /\ objs'[i].entity \in disk'[d]
               PROVE  objs'[i].static = d /\ objs'[i].entity \notin StoredIn(d)'
    BY DEF OwnBlock, Held
  <2>1. i \in DOMAIN objs /\ objs'[i].entity = objs[i].entity
    BY <1>3
  <2>2. Held(d, objs[i].entity)
    BY <1>1, <1>7, <2>1 DEF Held
  <2>3. objs[i].static = d /\ objs[i].entity \notin StoredIn(d)
    BY <2>1, <2>2 DEF IInv, OwnBlock
  <2>4. i # id
    BY <1>1, <1>2, <1>7, <2>1, <2>3 DEF Moved
  <2> QED BY <1>3, <1>7, <2>1, <2>3, <2>4
<1>11. UnbornNowhere' /\ TaskInv'
    BY <1>1, <1>3 DEF IInv, UnbornNowhere, TaskInv, TypeOK
<1> QED BY <1>5, <1>6, <1>9, <1>10, <1>11 DEF IInv

\* If the block is not marked, the static data was in the block where the
\* object is, and stays there or goes with the object.
LEMMA DeactivateKeeps ==
    ASSUME IInv, NEW id \in Ids, NEW changed \in BOOLEAN, NEW leaves \in BOOLEAN,
           Deactivate(id, changed, leaves)
    PROVE  IInv'
<1> USE DEF mapVars
<1> DEFINE o       == objs[id]
           b       == o.pos
           pending == o.known > 0 /\ ~Forced
           refused == o.saves /\ Full(b)
           saved   == o.saves /\ ~Full(b)
           stays   == pending /\ ~refused
           written == ~o.saves \/ o.static # b \/ changed
           to      == IF saved THEN b ELSE Nowhere
<1>1. /\ id \in DOMAIN objs
      /\ objs' = IF ~stays THEN Delete({id})
                 ELSE Put(id, [o EXCEPT !.deactivation = TRUE, !.removal = @ \/ leaves,
                                        !.static = to])
      /\ active' = [d \in Blocks |-> IF d = b /\ saved /\ pending THEN active[d] \cup {id}
                                     ELSE WithoutStatic(id)[d]]
      /\ stored' = IF saved /\ ~pending
                   THEN [stored EXCEPT ![b] = @ \cup {o.entity}] ELSE stored
      /\ dirty' = IF ~written THEN dirty ELSE dirty \cup Moved(o.static, to)
      /\ task' = [task EXCEPT !.todo = @ \ {id}] /\ task.kind # "activate"
      /\ disk' = disk
    BY DEF Deactivate, Visiting, Visited
<1>2. /\ o \in ObjectType /\ o.entity \in Entities /\ b \in Blocks
      /\ o.static \in Blocks \cup {Nowhere}
    BY <1>1 DEF IInv, TypeOK, ObjectType
<1>3. /\ DOMAIN objs' = IF stays THEN DOMAIN objs ELSE DOMAIN objs \ {id}
      /\ \A i \in DOMAIN objs' :
            /\ objs'[i] \in ObjectType
            /\ objs'[i].entity = objs[i].entity
            /\ objs'[i].static = IF i = id THEN to ELSE objs[i].static
  <2>1. CASE stays
    <3>1. /\ DOMAIN objs' = DOMAIN objs /\ \A i \in DOMAIN objs : i # id => objs'[i] = objs[i]
          /\ objs'[id] = [o EXCEPT !.deactivation = TRUE, !.removal = @ \/ leaves, !.static = to]
      BY <1>1, <2>1 DEF Put
    <3>2. objs'[id] \in ObjectType /\ objs'[id].entity = o.entity /\ objs'[id].static = to
      BY <1>2, <3>1 DEF ObjectType
    <3> QED BY <2>1, <3>1, <3>2 DEF IInv, TypeOK
  <2>2. CASE ~stays
    BY <1>1, <2>2 DEF IInv, TypeOK, Delete
  <2> QED BY <2>1, <2>2
<1>4. \A d \in Blocks : active'[d] =
        IF d = b /\ saved /\ pending THEN active[d] \cup {id}
        ELSE IF d = o.static THEN active[d] \ {id} ELSE active[d]
    BY <1>1, <1>2 DEF WithoutStatic
<1>5. \A d \in Blocks : stored'[d] =
        IF d = b /\ saved /\ ~pending THEN stored[d] \cup {o.entity} ELSE stored[d]
    BY <1>1, <1>2 DEF IInv, TypeOK
<1>6. TypeOK'
  <2>1. active' \in [Blocks -> SUBSET Ids]
    BY <1>1, <1>2 DEF WithoutStatic, IInv, TypeOK
  <2>2. stored' \in [Blocks -> SUBSET Entities]
    BY <1>1, <1>2 DEF IInv, TypeOK
  <2>3. dirty' \in SUBSET Blocks
    BY <1>1, <1>2 DEF IInv, TypeOK, Moved
  <2>4. task' \in TaskType
    BY <1>1 DEF IInv, TypeOK, TaskType
  <2>5. fate' \in [Entities -> Fates] /\ cut' \in SUBSET Ids
    BY DEF Deactivate, IInv, TypeOK, Fates
  <2>6. DOMAIN objs' \subseteq Ids /\ \A i \in DOMAIN objs' : objs'[i] \in ObjectType
    BY <1>3 DEF IInv, TypeOK
  <2>7. knows' = knows /\ activeBlocks' = activeBlocks /\ disk' = disk
    BY DEF Deactivate
  <2> QED BY <2>1, <2>2, <2>3, <2>4, <2>5, <2>6, <2>7 DEF IInv, TypeOK, TaskType, Fates
<1>7. StaticExact'
  <2> SUFFICES ASSUME NEW d \in Blocks
               PROVE  active'[d] = {i \in DOMAIN objs' : objs'[i].static = d}
    BY DEF StaticExact
  <2>1. active[d] = {i \in DOMAIN objs : objs[i].static = d}
    BY DEF IInv, StaticExact
  <2>2. CASE stays
    <3>1. pending /\ ~ (saved /\ ~pending)
      BY <2>2
    <3>2. DOMAIN objs' = DOMAIN objs /\ \A i \in DOMAIN objs :
            objs'[i].static = IF i = id THEN to ELSE objs[i].static
      BY <1>3, <2>2
    <3>3. CASE saved /\ d = b
      BY <1>1, <1>4, <2>1, <3>1, <3>2, <3>3
    <3>4. CASE ~ (saved /\ d = b)
      <4>1. to # d
        BY <3>4, ObjectsAssumption
      <4>2. active'[d] = active[d] \ {id}
        BY <1>4, <2>1, <3>4
      <4> QED BY <2>1, <3>2, <4>1, <4>2
    <3> QED BY <3>3, <3>4
  <2>3. CASE ~stays
    <3>1. ~ (saved /\ pending)
      BY <2>3
    <3>2. \A i \in DOMAIN objs : i \in DOMAIN objs' <=> i # id
      BY <1>3, <2>3
    <3>3. \A i \in DOMAIN objs' : i \in DOMAIN objs /\ objs'[i].static = objs[i].static
      BY <1>3, <2>3
    <3>4. active'[d] = active[d] \ {id}
      BY <1>1, <1>4, <2>1, <3>1
    <3> QED BY <2>1, <3>2, <3>3, <3>4
  <2> QED BY <2>2, <2>3
<1>8. \A d \in Blocks : StoredIn(d) = stored[d] /\ StoredIn(d)' = stored'[d]
    BY <1>1, ObjectsAssumption DEF StoredIn, IInv, TaskInv, TypeOK
<1>9. \A d \in Blocks : \A e : Held(d, e)' =>
        \/ Held(d, e)
        \/ d = b /\ saved /\ ~pending /\ e = o.entity
    BY <1>1, <1>5, <1>8 DEF Held
<1>10. OneObject'
    BY <1>3 DEF IInv, OneObject
<1>11. \A d \in Blocks : saved /\ Held(d, o.entity) /\ ~ (o.entity \in stored[d]) /\ d \notin dirty' => d = b
  <2> TAKE d \in Blocks
  <2> HAVE saved /\ Held(d, o.entity) /\ ~ (o.entity \in stored[d]) /\ d \notin dirty'
  <2>1. o.static = d
    BY <1>1 DEF IInv, OwnBlock
  <2>2. CASE written
    BY <1>1, <2>1, <2>2, ObjectsAssumption DEF Moved
  <2>3. CASE ~written
    BY <2>1, <2>3
  <2> QED BY <2>2, <2>3
<1>12. OneBlock'
  <2> SUFFICES ASSUME NEW e \in Entities, NEW c \in Blocks, NEW d \in Blocks,
                      Held(c, e)', Held(d, e)'
               PROVE  c = d
    BY DEF OneBlock
  <2>1. CASE Held(c, e) /\ Held(d, e)
    BY <2>1 DEF IInv, OneBlock
  <2>2. CASE ~ (Held(c, e) /\ Held(d, e))
    <3>1. e = o.entity /\ saved /\ ~pending
      BY <1>9, <2>2
    <3>2. \A q \in Blocks : Held(q, e) => e \notin stored[q]
      BY <1>1, <1>8, <3>1 DEF IInv, OwnBlock
    <3>3. \A q \in Blocks : Held(q, e) /\ Held(q, e)' => q = b
      BY <1>5, <1>8, <1>11, <3>1, <3>2 DEF Held
    <3>4. c = b /\ d = b
      BY <1>9, <3>3
    <3> QED BY <3>4
  <2> QED BY <2>1, <2>2
<1>13. OwnBlock'
  <2> SUFFICES ASSUME NEW i \in DOMAIN objs', NEW d \in Blocks,
                      \/ objs'[i].entity \in StoredIn(d)'
                      \/ d \notin dirty' /\ objs'[i].entity \in disk'[d]
               PROVE  objs'[i].static = d /\ objs'[i].entity \notin StoredIn(d)'
    BY DEF OwnBlock, Held
  <2>1. i \in DOMAIN objs /\ objs'[i].entity = objs[i].entity
    BY <1>3
  <2>2. saved /\ ~pending => objs[i].entity # o.entity
    BY <1>1, <1>3, <2>1 DEF IInv, OneObject
  <2>3. Held(d, objs[i].entity)
    BY <1>1, <1>5, <1>8, <2>1, <2>2 DEF Held
  <2>4. objs[i].static = d /\ objs[i].entity \notin stored[d]
    BY <1>8, <2>1, <2>3 DEF IInv, OwnBlock
  <2>5. objs[i].entity \notin stored'[d]
    BY <1>5, <2>2, <2>4
  <2>6. d \notin dirty'
    BY <1>8, <2>1, <2>5
  <2>7. i = id => to = d
    BY <1>1, <2>4, <2>6, <1>3, ObjectsAssumption DEF Moved
  <2> QED BY <1>3, <1>8, <2>1, <2>4, <2>5, <2>7
<1>14. UnbornNowhere'
  <2>1. PICK f \in {"stuck", "removed", "dropped", fate[o.entity]} :
            fate' = [fate EXCEPT ![o.entity] = f]
    BY DEF Deactivate
  <2>2. fate[o.entity] # "unborn"
    BY <1>1, <1>2 DEF IInv, UnbornNowhere
  <2>3. \A e \in Entities : fate'[e] = "unborn" => fate[e] = "unborn" /\ e # o.entity
    BY <1>2, <2>1, <2>2 DEF IInv, TypeOK
  <2> SUFFICES ASSUME NEW e \in Entities, fate'[e] = "unborn"
               PROVE  /\ \A i \in DOMAIN objs' : objs'[i].entity # e
                      /\ \A d \in Blocks : e \notin stored'[d] /\ e \notin disk'[d]
    BY DEF UnbornNowhere
  <2>4. fate[e] = "unborn" /\ e # o.entity
    BY <2>3
  <2>5. /\ \A i \in DOMAIN objs : objs[i].entity # e
        /\ \A d \in Blocks : e \notin stored[d] /\ e \notin disk[d]
    BY <2>4 DEF IInv, UnbornNowhere
  <2>6. \A i \in DOMAIN objs' : objs'[i].entity # e
    BY <1>3, <2>5
  <2>7. \A d \in Blocks : e \notin stored'[d]
    BY <1>5, <2>4, <2>5
  <2> QED BY <1>1, <2>5, <2>6, <2>7
<1>15. TaskInv'
    BY <1>1 DEF IInv, TaskInv, TypeOK
<1> QED BY <1>6, <1>7, <1>10, <1>12, <1>13, <1>14, <1>15 DEF IInv
-----------------------------------------------------------------------------
(***************************************************************************)
(* Activation.                                                             *)
(***************************************************************************)
LEMMA StartActivationKeeps == ASSUME IInv, NEW b \in Blocks, StartActivation(b) PROVE IInv'
<1> USE DEF mapVars
<1>1. /\ task.kind = "deactivate" /\ task.block = Nowhere
      /\ objs' = objs /\ active' = active /\ disk' = disk /\ activeBlocks' = activeBlocks
      /\ knows' = knows /\ cut' = cut
    BY DEF StartActivation, IInv, TaskInv
<1>2. CASE Cardinality(stored[b]) > MaxObjects
  <2>1. /\ stored' = [stored EXCEPT ![b] = {}]
        /\ fate' = [e \in Entities |-> IF e \in stored[b] THEN "dropped" ELSE fate[e]]
        /\ task' = [task EXCEPT !.blocks = @ \ {b}]
        /\ dirty' = dirty \cup {b}
    BY <1>2 DEF StartActivation
  <2>2. task' \in TaskType /\ task'.kind = "deactivate" /\ task'.block = Nowhere
    BY <1>1, <2>1 DEF IInv, TypeOK, TaskType
  <2>3. TypeOK'
    BY <1>1, <2>1, <2>2 DEF IInv, TypeOK, TaskType
  <2>4. \A d \in Blocks : /\ StoredIn(d) = stored[d] /\ StoredIn(d)' = stored'[d]
                          /\ stored'[d] = IF d = b THEN {} ELSE stored[d]
    BY <1>1, <2>1, <2>2, ObjectsAssumption DEF StoredIn, IInv, TypeOK
  <2>5. \A d \in Blocks : \A e : Held(d, e)' => Held(d, e)
    BY <1>1, <2>1, <2>4 DEF Held
  <2>6. StaticExact' /\ OneObject' /\ OneBlock'
    BY <1>1, <2>5 DEF IInv, StaticExact, OneObject, OneBlock
  <2>7. OwnBlock'
    BY <1>1, <2>1, <2>4 DEF IInv, OwnBlock, Held
  <2>8. UnbornNowhere' /\ TaskInv'
    BY <1>1, <2>1, <2>2, <2>4 DEF IInv, UnbornNowhere, TaskInv
  <2> QED BY <2>3, <2>6, <2>7, <2>8 DEF IInv
<1>3. CASE ~ (Cardinality(stored[b]) > MaxObjects)
  <2>1. /\ task' = [task EXCEPT !.kind = "activate", !.blocks = @ \ {b},
                                !.block = b, !.left = stored[b]]
        /\ stored' = stored /\ dirty' = dirty /\ fate' = fate
    BY <1>3 DEF StartActivation
  <2>2. /\ task' \in TaskType /\ task'.kind = "activate" /\ task'.block = b
        /\ task'.left = stored[b]
    BY <2>1 DEF IInv, TypeOK, TaskType
  <2>3. TypeOK'
    BY <1>1, <2>1, <2>2 DEF IInv, TypeOK, TaskType
  <2>4. \A d \in Blocks : StoredIn(d)' = StoredIn(d)
    BY <1>1, <2>1, <2>2, ObjectsAssumption DEF StoredIn
  <2>5. StaticExact' /\ OneObject' /\ OneBlock' /\ OwnBlock'
    BY <1>1, <2>1, <2>4, SamePlaces
  <2>6. UnbornNowhere' /\ TaskInv'
    BY <1>1, <2>1, <2>2 DEF IInv, UnbornNowhere, TaskInv
  <2> QED BY <2>3, <2>5, <2>6 DEF IInv
<1> QED BY <1>2, <1>3

\* The entity was stored in this block only, and nowhere active.
LEMMA ActivateObjectKeeps == ASSUME IInv, NEW e \in Entities, ActivateObject(e) PROVE IInv'
<1> USE DEF mapVars
<1> DEFINE b == task.block
<1>1. /\ task.kind = "activate" /\ e \in task.left /\ b \in Blocks
      /\ task.left \subseteq stored[b]
      /\ stored' = stored /\ disk' = disk /\ dirty' = dirty /\ activeBlocks' = activeBlocks
      /\ knows' = knows /\ cut' = cut
      /\ task' = [task EXCEPT !.left = @ \ {e}]
    BY DEF ActivateObject, IInv, TaskInv
<1>2. task' \in TaskType /\ task'.kind = "activate" /\ task'.block = b
      /\ task'.left = task.left \ {e}
    BY <1>1 DEF IInv, TypeOK, TaskType
<1>3. \A d \in Blocks : StoredIn(d)' = IF d = b THEN StoredIn(d) \ {e} ELSE StoredIn(d)
    BY <1>1, <1>2 DEF StoredIn
<1>4. e \in StoredIn(b) /\ fate[e] # "unborn"
    BY <1>1 DEF StoredIn, IInv, UnbornNowhere
<1>5. \A d \in Blocks : \A f : Held(d, f)' => Held(d, f)
    BY <1>1, <1>3 DEF Held
<1>6. OneBlock' /\ TaskInv'
    BY <1>1, <1>2, <1>5 DEF IInv, OneBlock, TaskInv
<1>7. CASE FreeIds = {} /\ objs' = objs /\ active' = active /\ fate' = [fate EXCEPT ![e] = "dropped"]
  <2>1. TypeOK'
    BY <1>1, <1>2, <1>7 DEF IInv, TypeOK, TaskType
  <2>2. StaticExact' /\ OneObject'
    BY <1>7 DEF IInv, StaticExact, OneObject
  <2>3. OwnBlock'
    BY <1>1, <1>3, <1>7 DEF IInv, OwnBlock, Held
  <2>4. UnbornNowhere'
    BY <1>1, <1>7 DEF IInv, UnbornNowhere, TypeOK
  <2> QED BY <1>6, <2>1, <2>2, <2>3, <2>4 DEF IInv
<1>8. CASE \E id \in FreeIds :
        /\ objs' = Put(id, Object(e, b, b, TRUE))
        /\ active' = [active EXCEPT ![b] = @ \cup {id}]
        /\ fate' = IF fate[e] = "stuck" THEN fate ELSE [fate EXCEPT ![e] = "kept"]
  <2> PICK id \in FreeIds :
        /\ objs' = Put(id, Object(e, b, b, TRUE))
        /\ active' = [active EXCEPT ![b] = @ \cup {id}]
        /\ fate' = IF fate[e] = "stuck" THEN fate ELSE [fate EXCEPT ![e] = "kept"]
    BY <1>8
  <2>1. id \in Ids /\ id \notin DOMAIN objs /\ DOMAIN objs' = DOMAIN objs \cup {id}
    BY DEF FreeIds, Put
  <2>2. \A i \in DOMAIN objs : objs'[i] = objs[i]
    BY <2>1 DEF Put
  <2>3. objs'[id] \in ObjectType /\ objs'[id].entity = e /\ objs'[id].static = b
    BY <1>1 DEF Put, Object, ObjectType
  <2>4. TypeOK'
    BY <1>1, <1>2, <2>1, <2>2, <2>3 DEF IInv, TypeOK, TaskType
  <2>5. StaticExact'
    <3> SUFFICES ASSUME NEW d \in Blocks
                 PROVE  active'[d] = {i \in DOMAIN objs' : objs'[i].static = d}
      BY DEF StaticExact
    <3>1. active[d] = {i \in DOMAIN objs : objs[i].static = d}
      BY DEF IInv, StaticExact
    <3>2. active'[d] = IF d = b THEN active[d] \cup {id} ELSE active[d]
      BY <1>1 DEF IInv, TypeOK
    <3> QED BY <2>1, <2>2, <2>3, <3>1, <3>2
  <2>6. \A i \in DOMAIN objs : objs[i].entity # e
    <3> SUFFICES ASSUME NEW i \in DOMAIN objs, objs[i].entity = e PROVE FALSE
      OBVIOUS
    <3>1. Held(b, objs[i].entity)
      BY <1>4 DEF Held
    <3> QED BY <1>1, <1>4, <3>1 DEF IInv, OwnBlock
  <2>7. OneObject'
    <3>1. \A i, j \in DOMAIN objs : objs[i].entity = objs[j].entity => i = j
      BY DEF IInv, OneObject
    <3>2. \A i \in DOMAIN objs' : i = id \/ (i \in DOMAIN objs /\ objs'[i] = objs[i])
      BY <2>1, <2>2
    <3> SUFFICES ASSUME NEW i \in DOMAIN objs', NEW j \in DOMAIN objs',
                        objs'[i].entity = objs'[j].entity
                 PROVE  i = j
      BY DEF OneObject
    <3>3. CASE i = id
      BY <2>3, <2>6, <3>2, <3>3
    <3>4. CASE j = id
      BY <2>3, <2>6, <3>2, <3>4
    <3>5. CASE i # id /\ j # id
      BY <3>1, <3>2, <3>5
    <3> QED BY <3>3, <3>4, <3>5
  <2>8. \A d \in Blocks : Held(d, e) => d = b
    BY <1>1, <1>4 DEF IInv, OneBlock, Held
  <2>9. OwnBlock'
    <3> SUFFICES ASSUME NEW i \in DOMAIN objs', NEW d \in Blocks,
                        \/ objs'[i].entity \in StoredIn(d)'
                        \/ d \notin dirty' /\ objs'[i].entity \in disk'[d]
                 PROVE  objs'[i].static = d /\ objs'[i].entity \notin StoredIn(d)'
      BY DEF OwnBlock, Held
    <3>1. CASE i = id
      <4>1. Held(d, e)
        BY <1>1, <1>3, <2>3, <3>1 DEF Held
      <4> QED BY <1>3, <2>3, <2>8, <3>1, <4>1
    <3>2. CASE i # id
      <4>1. i \in DOMAIN objs /\ objs'[i] = objs[i]
        BY <2>1, <2>2, <3>2
      <4>2. Held(d, objs[i].entity)
        BY <1>1, <1>3, <4>1 DEF Held
      <4> QED BY <1>3, <4>1, <4>2 DEF IInv, OwnBlock
    <3> QED BY <3>1, <3>2
  <2>10. UnbornNowhere'
    <3>1. \A f \in Entities : fate'[f] = "unborn" => fate[f] = "unborn" /\ f # e
      BY <1>4 DEF IInv, TypeOK
    <3> SUFFICES ASSUME NEW f \in Entities, fate'[f] = "unborn"
                 PROVE  /\ \A i \in DOMAIN objs' : objs'[i].entity # f
                        /\ \A d \in Blocks : f \notin stored'[d] /\ f \notin disk'[d]
      BY DEF UnbornNowhere
    <3>2. fate[f] = "unborn" /\ f # e
      BY <3>1
    <3>3. \A i \in DOMAIN objs : objs[i].entity # f
      BY <3>2 DEF IInv, UnbornNowhere
    <3>4. \A i \in DOMAIN objs' : objs'[i].entity # f
      BY <2>1, <2>2, <2>3, <3>2, <3>3
    <3>5. \A d \in Blocks : f \notin stored[d] /\ f \notin disk[d]
      BY <3>2 DEF IInv, UnbornNowhere
    <3> QED BY <1>1, <3>4, <3>5
  <2> QED BY <1>6, <2>4, <2>5, <2>7, <2>9, <2>10 DEF IInv
<1> QED BY <1>7, <1>8 DEF ActivateObject

\* The list of the activation is empty, and what was not activated stays stored.
LEMMA EndActivationKeeps == ASSUME IInv, EndActivation PROVE IInv'
<1> USE DEF mapVars
<1> DEFINE b == task.block
<1>1. /\ task.kind = "activate" /\ task.left = {} /\ b \in Blocks
      /\ stored' = [stored EXCEPT ![b] = {}]
      /\ task' = [task EXCEPT !.kind = "deactivate", !.block = Nowhere]
      /\ UNCHANGED <<objs, active, disk, dirty, activeBlocks, knows, fate, cut>>
    BY DEF EndActivation, IInv, TaskInv
<1>2. task' \in TaskType /\ task'.kind = "deactivate" /\ task'.block = Nowhere
    BY <1>1 DEF IInv, TypeOK, TaskType
<1>3. \A d \in Blocks : StoredIn(d)' = StoredIn(d)
    BY <1>1, <1>2, ObjectsAssumption DEF StoredIn, IInv, TypeOK
<1>4. TypeOK'
    BY <1>1, <1>2 DEF IInv, TypeOK, TaskType
<1>5. StaticExact' /\ OneObject' /\ OneBlock' /\ OwnBlock'
    BY <1>1, <1>3, SamePlaces
<1>6. UnbornNowhere' /\ TaskInv'
    BY <1>1, <1>2 DEF IInv, UnbornNowhere, TaskInv, TypeOK
<1> QED BY <1>4, <1>5, <1>6 DEF IInv
-----------------------------------------------------------------------------
(***************************************************************************)
(* Saving and unloading.                                                   *)
(***************************************************************************)
\* What is written of a block is what it holds and the entities of its objects.
LEMMA WrittenTypes ==
    ASSUME IInv, NEW bs \in SUBSET Blocks
    PROVE  /\ Written(bs) \in [Blocks -> SUBSET Entities]
           /\ \A b \in Blocks, e \in Entities : e \in Written(bs)[b] =>
                \/ e \in stored[b] /\ b \in bs \cap dirty
                \/ \E id \in DOMAIN objs : objs[id].static = b /\ objs[id].entity = e
                \/ e \in disk[b] /\ b \notin bs \cap dirty
<1>1. \A b \in Blocks : Content(b) \subseteq Entities
    BY DEF IInv, TypeOK, ObjectType, StaticExact, Content
<1>2. Written(bs) \in [Blocks -> SUBSET Entities]
    BY <1>1 DEF Written, IInv, TypeOK
<1>3. \A b \in Blocks, e \in Entities : e \in Content(b) =>
        \/ e \in stored[b]
        \/ \E id \in DOMAIN objs : objs[id].static = b /\ objs[id].entity = e
    BY DEF Content, IInv, StaticExact
<1> QED BY <1>2, <1>3 DEF Written

\* A block that is written is on disk what it is in memory.
LEMMA SaveKeeps == ASSUME IInv, Save PROVE IInv'
<1> USE DEF mapVars
<1>1. /\ task.kind = "idle" /\ disk' = Written(Blocks) /\ dirty' = {}
      /\ UNCHANGED <<objs, stored, active, activeBlocks, knows, task, fate, cut>>
    BY DEF Save, IsIdle
<1>2. TypeOK'
    BY <1>1, WrittenTypes DEF IInv, TypeOK
<1>3. StaticExact' /\ OneObject' /\ TaskInv'
    BY <1>1 DEF IInv, StaticExact, OneObject, TaskInv
<1>4. \A b \in Blocks : StoredIn(b) = stored[b] /\ StoredIn(b)' = StoredIn(b)
    BY <1>1, ObjectsAssumption DEF StoredIn, IInv, TaskInv
<1>5. \A b \in Blocks, e \in Entities : Held(b, e)' =>
        Held(b, e) \/ \E id \in DOMAIN objs : objs[id].static = b /\ objs[id].entity = e
  <2> TAKE b \in Blocks, e \in Entities
  <2> HAVE Held(b, e)'
  <2>1. e \in stored[b] \/ e \in Written(Blocks)[b]
    BY <1>1, <1>4 DEF Held
  <2> QED BY <1>4, <2>1, WrittenTypes DEF Held
<1>6. \A i \in DOMAIN objs : objs[i].entity \in Entities
    BY DEF IInv, TypeOK, ObjectType
<1>7. OneBlock'
    BY <1>5 DEF IInv, OneBlock, OwnBlock, OneObject
<1>8. OwnBlock'
  <2> SUFFICES ASSUME NEW i \in DOMAIN objs, NEW b \in Blocks,
                      \/ objs[i].entity \in StoredIn(b)
                      \/ objs[i].entity \in disk'[b]
               PROVE  objs[i].static = b /\ objs[i].entity \notin StoredIn(b)
    BY <1>1, <1>4 DEF OwnBlock, Held
  <2>1. Held(b, objs[i].entity) \/ objs[i].static = b
    BY <1>1, <1>4, <1>6, WrittenTypes DEF Held, IInv, OneObject
  <2>2. objs[i].entity \in StoredIn(b) => Held(b, objs[i].entity)
    BY DEF Held
  <2> QED BY <2>1, <2>2 DEF IInv, OwnBlock
<1>9. UnbornNowhere'
    BY <1>1, WrittenTypes DEF IInv, UnbornNowhere
<1> QED BY <1>2, <1>3, <1>7, <1>8, <1>9 DEF IInv

\* No object has its static data in the block.
LEMMA UnloadKeeps == ASSUME IInv, NEW u \in Blocks, Unload(u) PROVE IInv'
<1> USE DEF mapVars
<1>1. /\ task.kind = "idle" /\ active[u] = {} /\ disk' = Written({u}) /\ dirty' = dirty \ {u}
      /\ stored' = [stored EXCEPT ![u] = disk'[u]]
      /\ UNCHANGED <<objs, active, activeBlocks, knows, task, fate, cut>>
    BY DEF Unload, IsIdle
<1>2. TypeOK'
    BY <1>1, WrittenTypes DEF IInv, TypeOK
<1>3. StaticExact' /\ OneObject' /\ TaskInv'
    BY <1>1 DEF IInv, StaticExact, OneObject, TaskInv
<1>4. \A b \in Blocks : StoredIn(b) = stored[b] /\ StoredIn(b)' = stored'[b]
    BY <1>1, ObjectsAssumption DEF StoredIn, IInv, TaskInv
<1>5. \A id \in DOMAIN objs : objs[id].static # u
    BY <1>1 DEF IInv, StaticExact
<1>6. \A b \in Blocks \ {u} : stored'[b] = stored[b] /\ disk'[b] = disk[b]
    BY <1>1 DEF Written, IInv, TypeOK
<1>7. stored'[u] = disk'[u] /\ \A e \in Entities : e \in disk'[u] => Held(u, e)
  <2>1. stored'[u] = disk'[u]
    BY <1>1 DEF IInv, TypeOK
  <2>2. \A e \in Entities : e \in disk'[u] =>
            e \in stored[u] \/ (e \in disk[u] /\ u \notin dirty)
    BY <1>1, <1>5, WrittenTypes
  <2> QED BY <1>4, <2>1, <2>2 DEF Held
<1>8. \A b \in Blocks, e \in Entities : Held(b, e)' => Held(b, e)
    BY <1>1, <1>4, <1>6, <1>7 DEF Held
<1>9. OneBlock'
    BY <1>8 DEF IInv, OneBlock
<1>10. OwnBlock'
  <2> SUFFICES ASSUME NEW i \in DOMAIN objs', NEW b \in Blocks,
                      \/ objs'[i].entity \in StoredIn(b)'
                      \/ b \notin dirty' /\ objs'[i].entity \in disk'[b]
               PROVE  objs'[i].static = b /\ objs'[i].entity \notin StoredIn(b)'
    BY DEF OwnBlock, Held
  <2>1. i \in DOMAIN objs /\ objs' = objs /\ objs[i].entity \in Entities
    BY <1>1 DEF IInv, TypeOK, ObjectType
  <2>2. Held(b, objs[i].entity)
    <3>1. CASE b = u
      BY <1>4, <1>7, <2>1, <3>1
    <3>2. CASE b # u
      BY <1>1, <1>4, <1>6, <2>1, <3>2 DEF Held
    <3> QED BY <3>1, <3>2
  <2>3. objs[i].static = b /\ objs[i].entity \notin stored[b]
    BY <1>4, <2>1, <2>2 DEF IInv, OwnBlock
  <2> QED BY <1>4, <1>5, <1>6, <2>1, <2>3
<1>11. UnbornNowhere'
    BY <1>1, <1>4, <1>5, <1>6, <1>7, WrittenTypes DEF IInv, UnbornNowhere
<1> QED BY <1>2, <1>3, <1>9, <1>10, <1>11 DEF IInv

\* Nothing is active any more.
LEMMA EndShutdownKeeps == ASSUME IInv, EndShutdown PROVE IInv'
<1> USE DEF mapVars
<1>1. /\ task.kind = "shutdown" /\ disk' = Written(Blocks) /\ dirty' = {} /\ stored' = disk'
      /\ active' = [b \in Blocks |-> {}] /\ objs' = <<>>
      /\ knows' = [c \in Clients |-> {}] /\ cut' = {}
      /\ task' = [Idle EXCEPT !.kind = "down"] /\ activeBlocks' = activeBlocks
      /\ fate' = [e \in Entities |->
            IF \E b \in Blocks : \E id \in active[b] :
                    objs[id].entity = e /\ objs[id].removal
            THEN "stuck" ELSE fate[e]]
    BY DEF EndShutdown
<1>2. DOMAIN objs' = {}
    BY <1>1
<1>3. task' \in TaskType /\ task'.kind = "down" /\ task'.block = Nowhere
    BY <1>1 DEF Idle, TaskType
<1>4. TypeOK'
    BY <1>1, <1>2, <1>3, WrittenTypes DEF IInv, TypeOK, TaskType
<1>5. StaticExact' /\ OneObject' /\ OwnBlock'
    BY <1>1, <1>2 DEF StaticExact, OneObject, OwnBlock
<1>6. \A b \in Blocks : StoredIn(b) = stored[b] /\ StoredIn(b)' = stored'[b]
    BY <1>1, <1>3, ObjectsAssumption DEF StoredIn, IInv, TaskInv
<1>7. \A b \in Blocks, e \in Entities : Held(b, e)' =>
        Held(b, e) \/ \E id \in DOMAIN objs : objs[id].static = b /\ objs[id].entity = e
    BY <1>1, <1>6, WrittenTypes DEF Held
<1>8. OneBlock'
    BY <1>7 DEF IInv, OneBlock, OwnBlock, OneObject
<1>9. UnbornNowhere'
    BY <1>1, <1>2, WrittenTypes DEF IInv, UnbornNowhere
<1>10. TaskInv'
    BY <1>3 DEF TaskInv
<1> QED BY <1>4, <1>5, <1>8, <1>9, <1>10 DEF IInv
-----------------------------------------------------------------------------
(***************************************************************************)
(* The theorems.                                                           *)
(***************************************************************************)
LEMMA InitInv == Init => IInv
<1> SUFFICES ASSUME Init PROVE IInv
    OBVIOUS
<1> USE DEF Init, mapVars
<1>1. DOMAIN objs = {}
    OBVIOUS
<1>2. TypeOK
    BY <1>1 DEF TypeOK, Idle
<1>3. StaticExact /\ OneObject /\ OwnBlock /\ UnbornNowhere /\ TaskInv
    BY <1>1 DEF StaticExact, OneObject, OwnBlock, UnbornNowhere, TaskInv, Idle
<1>4. OneBlock
    BY ObjectsAssumption DEF OneBlock, Held, StoredIn, Idle
<1> QED BY <1>2, <1>3, <1>4 DEF IInv

\* Every step keeps the invariant, one case for each action of Next.
LEMMA StepKeeps == IInv /\ [Next]_vars => IInv'
<1> SUFFICES ASSUME IInv, [Next]_vars PROVE IInv'
    OBVIOUS
<1>1. CASE Script
  <2>1. CASE \E e \in Entities, b \in Blocks, saves \in BOOLEAN : AddObject(e, b, saves)
    BY <2>1, AddObjectKeeps
  <2>2. CASE \E id \in Ids : Remove(id)
    BY <2>2, RemoveKeeps
  <2>3. CASE \E id \in Ids, b \in Blocks : Move(id, b)
    BY <2>3, MoveKeeps
  <2>4. CASE \E id \in Ids, saves \in BOOLEAN : SetStaticSave(id, saves)
    BY <2>4, SetStaticSaveKeeps
  <2> QED BY <1>1, <2>1, <2>2, <2>3, <2>4 DEF Script
<1>2. CASE TaskStep
  <2>1. CASE \E id \in Ids : Resave(id)
    BY <2>1, ResaveKeeps
  <2>2. CASE \E id \in Ids, changed, leaves \in BOOLEAN : Deactivate(id, changed, leaves)
    BY <2>2, DeactivateKeeps
  <2>3. CASE \E b \in Blocks : StartActivation(b)
    BY <2>3, StartActivationKeeps
  <2>4. CASE \E e \in Entities : ActivateObject(e)
    BY <2>4, ActivateObjectKeeps
  <2>5. CASE EndActivation
    BY <2>5, EndActivationKeeps
  <2>6. CASE EndShutdown
    BY <2>6, EndShutdownKeeps
  <2>7. CASE (\E id \in Ids : Stays(id)) \/ EndSweep \/ Restart
    BY <2>7, LoopKeeps
  <2> QED BY <1>2, <2>1, <2>2, <2>3, <2>4, <2>5, <2>6, <2>7 DEF TaskStep
<1>3. CASE \E c \in Clients, seen \in SUBSET Ids : UpdateClient(c, seen)
    BY <1>3, UpdateClientKeeps
<1>4. CASE \/ \E blocks \in SUBSET Blocks : ManageBlocks(blocks)
           \/ \E b \in Blocks : FinishGen(b)
           \/ Shutdown
    BY <1>4, LoopKeeps
<1>5. CASE \E b \in Blocks : Unload(b)
    BY <1>5, UnloadKeeps
<1>6. CASE RemoveRemovedObjects
    BY <1>6, RemoveRemovedObjectsKeeps
<1>7. CASE Save
    BY <1>7, SaveKeeps
<1>8. CASE UNCHANGED vars
  <2>1. UNCHANGED <<objs, stored, active, disk, dirty, activeBlocks, knows, task, fate, cut>>
    BY <1>8 DEF vars, mapVars
  <2>2. TypeOK' /\ UnbornNowhere' /\ TaskInv'
    BY <2>1 DEF IInv, TypeOK, UnbornNowhere, TaskInv
  <2>3. \A b \in Blocks : StoredIn(b)' = StoredIn(b)
    BY <2>1 DEF StoredIn
  <2>4. StaticExact' /\ OneObject' /\ OneBlock' /\ OwnBlock'
    BY <2>1, <2>3, SamePlaces
  <2> QED BY <2>2, <2>4 DEF IInv
<1> QED BY <1>1, <1>2, <1>3, <1>4, <1>5, <1>6, <1>7, <1>8 DEF Next

\* The inductive invariant holds in every state that can be reached.
LEMMA Invariance == Spec => []IInv
<1> QED BY InitInv, StepKeeps, PTL DEF Spec

\* Type correctness: objects, static data, what clients know and the loop under
\* way are built from the entities, ids and blocks there are.
THEOREM TypeCorrect == Spec => []TypeOK
<1>1. IInv => TypeOK
    BY DEF IInv
<1> QED BY <1>1, Invariance, PTL

\* m_static_exists and m_static_block of an object always say where its static
\* data is, and there is no static data of objects that are not there.
THEOREM StaticDataIsExact == Spec => []StaticExact
<1>1. IInv => StaticExact
    BY DEF IInv
<1> QED BY <1>1, Invariance, PTL

\* No entity is ever doubled by activating, deactivating, saving, unloading
\* and reading again.
THEOREM EntitiesAreUnique == Spec => []NoDuplicate
<1>1. IInv => NoDuplicate
  <2> SUFFICES ASSUME IInv, NEW e \in Entities PROVE Cardinality(Places(e)) <= 1
    BY DEF NoDuplicate
  <2>1. \A x, y \in Places(e) : x = y
    <3>1. \A b, d \in Blocks : e \in StoredIn(b) /\ e \in StoredIn(d) => b = d
      BY DEF IInv, OneBlock, Held
    <3>2. \A id \in DOMAIN objs, b \in Blocks : objs[id].entity = e => e \notin StoredIn(b)
      BY DEF IInv, OwnBlock, Held
    <3> QED BY <3>1, <3>2 DEF Places, IInv, OneObject
  <2>2. CASE Places(e) = {}
    BY <2>2, FS_EmptySet
  <2>3. CASE Places(e) # {}
    <3>1. PICK x : Places(e) = {x}
      BY <2>1, <2>3
    <3>2. Cardinality({x}) = 1
      BY FS_Singleton
    <3> QED BY <3>1, <3>2
  <2> QED BY <2>2, <2>3
<1> QED BY <1>1, Invariance, PTL
-----------------------------------------------------------------------------
(***************************************************************************)
(* What clients know.                                                      *)
(***************************************************************************)

\* An object never counts more clients than know its id, and as many of them
\* unless the id was cut from another object.
KnownInv ==
    \A id \in Ids :
        /\ IsFiniteSet(Knowers(id))
        /\ id \in DOMAIN objs =>
            /\ objs[id].known <= Cardinality(Knowers(id))
            /\ id \notin cut => objs[id].known = Cardinality(Knowers(id))
        /\ id \notin DOMAIN objs /\ id \notin cut => Knowers(id) = {}

\* New objects are known to nobody, and so are those that go, or else their
\* ids are cut.
LEMMA KnownFrame ==
    ASSUME TypeOK, KnownInv, UNCHANGED knows, cut \subseteq cut',
           \A id \in DOMAIN objs' :
                IF id \in DOMAIN objs THEN objs'[id].known = objs[id].known
                                      ELSE objs'[id].known = 0,
           \A id \in DOMAIN objs \ DOMAIN objs' :
                objs[id].known = 0 \/ Knowers(id) = {} \/ id \in cut'
    PROVE  KnownInv'
<1> SUFFICES ASSUME NEW id \in Ids
             PROVE  /\ IsFiniteSet(Knowers(id)')
                    /\ id \in DOMAIN objs' =>
                        /\ objs'[id].known <= Cardinality(Knowers(id)')
                        /\ id \notin cut' => objs'[id].known = Cardinality(Knowers(id)')
                    /\ id \notin DOMAIN objs' /\ id \notin cut' => Knowers(id)' = {}
    BY DEF KnownInv
<1>1. Knowers(id)' = Knowers(id)
    BY DEF Knowers
<1>2. IsFiniteSet(Knowers(id)) /\ Cardinality(Knowers(id)) \in Nat
      /\ (Cardinality(Knowers(id)) = 0 <=> Knowers(id) = {})
    BY FS_CardinalityType, FS_EmptySet DEF KnownInv
<1>3. CASE id \in DOMAIN objs' /\ id \in DOMAIN objs
    BY <1>1, <1>2, <1>3 DEF KnownInv
<1>4. CASE id \in DOMAIN objs' /\ id \notin DOMAIN objs
    BY <1>1, <1>2, <1>4 DEF KnownInv
<1>5. CASE id \notin DOMAIN objs'
    BY <1>1, <1>2, <1>5 DEF KnownInv
<1> QED BY <1>3, <1>4, <1>5

LEMMA UpdateClientKeepsKnown ==
    ASSUME TypeOK, KnownInv, NEW c \in Clients, NEW seen \in SUBSET Ids, UpdateClient(c, seen)
    PROVE  KnownInv'
<1>0. knows \in [Clients -> SUBSET Ids] /\ knows' = [knows EXCEPT ![c] = seen]
      /\ cut' = {id \in cut : \E d \in Clients : id \in knows'[d]}
      /\ seen \subseteq DOMAIN objs
    BY DEF TypeOK, UpdateClient
<1> SUFFICES ASSUME NEW id \in Ids
             PROVE  /\ IsFiniteSet(Knowers(id)')
                    /\ id \in DOMAIN objs' =>
                        /\ objs'[id].known <= Cardinality(Knowers(id)')
                        /\ id \notin cut' => objs'[id].known = Cardinality(Knowers(id)')
                    /\ id \notin DOMAIN objs' /\ id \notin cut' => Knowers(id)' = {}
    BY DEF KnownInv
<1> DEFINE K == Knowers(id)
<1>1. IsFiniteSet(K) /\ Cardinality(K) \in Nat /\ (Cardinality(K) = 0 <=> K = {})
    BY FS_CardinalityType, FS_EmptySet DEF KnownInv
<1>2. Knowers(id)' = IF id \in seen THEN K \cup {c} ELSE K \ {c}
    BY <1>0 DEF Knowers
<1>3. (c \in K <=> id \in knows[c]) /\ (id \in cut /\ Knowers(id)' # {} => id \in cut')
    BY <1>0 DEF Knowers
<1>4. /\ IsFiniteSet(K \cup {c}) /\ IsFiniteSet(K \ {c})
      /\ Cardinality(K \cup {c}) = IF c \in K THEN Cardinality(K) ELSE Cardinality(K) + 1
      /\ Cardinality(K \ {c}) = IF c \in K THEN Cardinality(K) - 1 ELSE Cardinality(K)
    BY <1>1, FS_AddElement, FS_RemoveElement
<1>5. CASE id \in DOMAIN objs
  <2>0. /\ objs[id].known \in Nat /\ objs[id].known <= Cardinality(K)
        /\ id \notin cut => objs[id].known = Cardinality(K)
    BY <1>5 DEF TypeOK, ObjectType, KnownInv
  <2>1. objs'[id].known = IF id \in seen \ knows[c] THEN objs[id].known + 1
                          ELSE IF id \in knows[c] \ seen THEN Forgotten(objs[id].known)
                          ELSE objs[id].known
    BY <1>5 DEF UpdateClient, TypeOK, ObjectType
  <2>2. DOMAIN objs' = DOMAIN objs
    BY DEF UpdateClient
  <2>3. /\ objs'[id].known <= Cardinality(Knowers(id)')
        /\ id \notin cut => objs'[id].known = Cardinality(Knowers(id)')
        /\ objs'[id].known \in Nat /\ IsFiniteSet(Knowers(id)')
    <3>1. CASE id \in seen
      BY <1>1, <1>2, <1>3, <1>4, <2>0, <2>1, <3>1
    <3>2. CASE id \notin seen /\ id \in knows[c]
      <4>1. Cardinality(K) # 0
        BY <1>1, <1>3, <3>2
      <4>2. Knowers(id)' = K \ {c} /\ Cardinality(K \ {c}) = Cardinality(K) - 1
        BY <1>2, <1>3, <1>4, <3>2
      <4>3. objs'[id].known = IF objs[id].known > 0 THEN objs[id].known - 1 ELSE objs[id].known
        BY <2>1, <3>2 DEF Forgotten
      <4> QED BY <1>1, <1>4, <2>0, <4>1, <4>2, <4>3
    <3>3. CASE id \notin seen /\ id \notin knows[c]
      BY <1>1, <1>2, <1>3, <1>4, <2>0, <2>1, <3>3
    <3> QED BY <3>1, <3>2, <3>3
  <2>4. ASSUME id \in cut, id \notin cut' PROVE objs'[id].known = Cardinality(Knowers(id)')
    <3>1. Knowers(id)' = {}
      BY <1>3, <2>4
    <3>2. Cardinality(Knowers(id)') = 0
      BY <3>1, FS_EmptySet
    <3> QED BY <2>3, <3>2
  <2> QED BY <1>5, <2>2, <2>3, <2>4
<1>6. CASE id \notin DOMAIN objs
  <2>1. id \notin seen /\ id \notin DOMAIN objs'
    BY <1>0, <1>6 DEF UpdateClient
  <2>2. id \notin cut => K = {}
    BY <1>6 DEF KnownInv
  <2> QED BY <1>2, <1>3, <1>4, <2>1, <2>2
<1> QED BY <1>5, <1>6

LEMMA KnownStep ==
    ASSUME TypeOK, KnownInv, [Next]_vars
    PROVE  KnownInv'
<1> USE DEF mapVars
<1>0. \A id \in DOMAIN objs : objs[id] \in ObjectType
    BY DEF TypeOK
<1>1. ASSUME UNCHANGED <<objs, knows, cut>> PROVE KnownInv'
    BY <1>1, KnownFrame
<1>2. ASSUME NEW id, id \in FreeIds, NEW e, NEW b, NEW static, NEW saves,
             objs' = Put(id, Object(e, b, static, saves)), UNCHANGED <<knows, cut>>
      PROVE  KnownInv'
  <2>1. /\ id \notin DOMAIN objs /\ DOMAIN objs' = DOMAIN objs \cup {id}
        /\ objs'[id].known = 0 /\ \A i \in DOMAIN objs : objs'[i] = objs[i]
    BY <1>2 DEF FreeIds, Put, Object
  <2> QED BY <1>2, <2>1, KnownFrame
\* The other fields of an object change.
<1>3. ASSUME DOMAIN objs' \subseteq DOMAIN objs, UNCHANGED <<knows, cut>>,
             \A id \in DOMAIN objs' : objs'[id].known = objs[id].known,
             \A id \in DOMAIN objs \ DOMAIN objs' : objs[id].known = 0
      PROVE  KnownInv'
    BY <1>3, KnownFrame
<1>4. CASE Script
  <2>1. CASE \E e \in Entities, b \in Blocks, saves \in BOOLEAN : AddObject(e, b, saves)
    BY <1>2, <2>1 DEF AddObject
  <2>2. ASSUME NEW id \in Ids, \/ Remove(id) \/ (\E b \in Blocks : Move(id, b))
                               \/ (\E saves \in BOOLEAN : SetStaticSave(id, saves))
        PROVE  KnownInv'
    BY <1>0, <1>3, <2>2 DEF Remove, Move, SetStaticSave, ObjectType
  <2> QED BY <1>4, <2>1, <2>2 DEF Script
<1>5. CASE TaskStep
  <2>1. ASSUME NEW id \in Ids, Stays(id) PROVE KnownInv'
    BY <1>1, <2>1 DEF Stays
  <2>2. ASSUME NEW id \in Ids, Resave(id) PROVE KnownInv'
    BY <1>0, <1>3, <2>2 DEF Resave, ObjectType
  <2>3. ASSUME NEW id \in Ids, NEW changed \in BOOLEAN, NEW leaves \in BOOLEAN,
               Deactivate(id, changed, leaves)
        PROVE  KnownInv'
    <3> DEFINE stays == objs[id].known > 0 /\ ~Forced /\ ~(objs[id].saves /\ Full(objs[id].pos))
    <3>1. id \in DOMAIN objs /\ UNCHANGED knows
      BY <2>3 DEF Deactivate
    <3>2. CASE stays
      <4>1. \E static, removal : objs' = Put(id, [objs[id] EXCEPT !.deactivation = TRUE,
                                            !.removal = removal, !.static = static])
        BY <2>3, <3>2 DEF Deactivate
      <4>2. DOMAIN objs' = DOMAIN objs /\ \A i \in DOMAIN objs : objs'[i].known = objs[i].known
        BY <1>0, <3>1, <4>1 DEF Put, ObjectType
      <4>3. cut' = cut
        BY <2>3, <3>2 DEF Deactivate
      <4> QED BY <1>3, <3>1, <4>2, <4>3
    <3>3. CASE ~ stays
      <4>1. objs' = Delete({id})
        BY <2>3, <3>3 DEF Deactivate
      <4>2. DOMAIN objs' = DOMAIN objs \ {id} /\ \A i \in DOMAIN objs' : objs'[i] = objs[i]
        BY <4>1 DEF Delete
      <4>3. cut \subseteq cut' /\ (Knowers(id) = {} \/ id \in cut')
        BY <2>3, <3>3 DEF Deactivate
      <4> QED BY <3>1, <4>2, <4>3, KnownFrame
    <3> QED BY <3>2, <3>3
  <2>4. ASSUME NEW b \in Blocks, StartActivation(b) PROVE KnownInv'
    BY <1>1, <2>4 DEF StartActivation
  <2>5. ASSUME NEW e \in Entities, ActivateObject(e) PROVE KnownInv'
    BY <1>1, <1>2, <2>5 DEF ActivateObject
  <2>6. CASE EndActivation \/ EndSweep \/ Restart
    BY <1>1, <2>6 DEF EndActivation, EndSweep, Restart
  <2>7. CASE EndShutdown
    <3>1. objs' = <<>> /\ knows' = [c \in Clients |-> {}]
      BY <2>7 DEF EndShutdown
    <3>2. DOMAIN objs' = {} /\ \A id : Knowers(id)' = {}
      BY <3>1 DEF Knowers
    <3> QED BY <3>2, FS_EmptySet DEF KnownInv
  <2> QED BY <1>5, <2>1, <2>2, <2>3, <2>4, <2>5, <2>6, <2>7 DEF TaskStep
<1>6. ASSUME NEW c \in Clients, NEW seen \in SUBSET Ids, UpdateClient(c, seen) PROVE KnownInv'
    BY <1>6, UpdateClientKeepsKnown
<1>7. CASE RemoveRemovedObjects
  <2>1. /\ DOMAIN objs' = DOMAIN objs \ Dead /\ UNCHANGED <<knows, cut>>
        /\ \A id \in DOMAIN objs' : objs'[id].known = objs[id].known
    BY <1>0, <1>7 DEF RemoveRemovedObjects, ObjectType
  <2>2. \A id \in DOMAIN objs \ DOMAIN objs' : objs[id].known = 0
    BY <2>1 DEF Dead
  <2> QED BY <1>3, <2>1, <2>2
<1>8. ASSUME \/ \E blocks \in SUBSET Blocks : ManageBlocks(blocks)
             \/ \E b \in Blocks : FinishGen(b) \/ Unload(b)
             \/ Save \/ Shutdown
      PROVE  UNCHANGED <<objs, knows, cut>>
    BY <1>8 DEF ManageBlocks, FinishGen, Unload, Save, Shutdown
<1>9. CASE UNCHANGED vars
    BY <1>1, <1>9 DEF vars
<1> QED BY <1>1, <1>4, <1>5, <1>6, <1>7, <1>8, <1>9 DEF Next

\* An object knows how many clients know it, and an id is not used again while
\* a client still means another object by it, unless a full block made the
\* server cut that one short.
THEOREM KnownCountsCorrect == Spec => []KnownExact
<1>1. Init => KnownInv
  <2>1. Init => \A id : Knowers(id) = {} /\ DOMAIN objs = {}
    BY DEF Init, Knowers
  <2> QED BY <2>1, FS_EmptySet DEF KnownInv
<1>2. IInv /\ KnownInv /\ [Next]_vars => KnownInv'
    BY KnownStep DEF IInv
<1>3. KnownInv => KnownExact
    BY DEF KnownInv, KnownExact
<1> QED BY <1>1, <1>2, <1>3, Invariance, PTL DEF Spec
-----------------------------------------------------------------------------
(***************************************************************************)
(* No entity is lost, and none that was removed comes back.                *)
(***************************************************************************)
Live(e)    == \E id \in DOMAIN objs : objs[id].entity = e
Present(e) == Live(e) \/ \E b \in Blocks : e \in StoredIn(b)

\* The block has the entity, stored or as the static data of an object.
In(b, e) == \/ e \in StoredIn(b)
            \/ \E id \in DOMAIN objs : objs[id].entity = e /\ objs[id].static = b

\* What a block has that is not marked as modified is in the database.
SavedInv == \A b \in Blocks \ dirty, e \in Entities : In(b, e) => e \in disk[b]

\* What is nowhere is not to be kept, and does not come back from the
\* database, unless the server dropped it.
AbsentInv ==
    \A e \in Entities : ~Present(e) =>
        /\ fate[e] # "kept"
        /\ fate[e] \in {"dropped", "stuck"} \/ \A b \in Blocks : ~Held(b, e)

\* The static data of an object to be kept is stored when the object goes:
\* after its deactivation, and at the end of the server.
KeptInv ==
    \A id \in DOMAIN objs : fate[objs[id].entity] = "kept" =>
        /\ objs[id].saves /\ ~objs[id].removal
        /\ objs[id].deactivation => objs[id].static # Nowhere
        /\ task.kind = "shutdown" /\ id \notin task.todo => objs[id].static # Nowhere

KeepInv == SavedInv /\ AbsentInv /\ RemovedStaysRemoved /\ KeptInv

\* An entity that is active or stored is in the block the database has it for.
LEMMA WhereHeld ==
    ASSUME IInv, NEW e \in Entities, NEW b \in Blocks, Held(b, e)
    PROVE  /\ \A id \in DOMAIN objs : objs[id].entity = e =>
                objs[id].static = b /\ \A d \in Blocks : e \notin StoredIn(d)
           /\ \A d \in Blocks : e \in StoredIn(d) => d = b
<1>1. \A id \in DOMAIN objs, d \in Blocks : objs[id].entity = e => e \notin StoredIn(d)
    BY DEF IInv, OwnBlock, Held
<1>2. \A d \in Blocks : e \in StoredIn(d) => d = b
    BY DEF IInv, OneBlock, Held
<1> QED BY <1>1, <1>2 DEF IInv, OwnBlock

\* An entity that is active is not stored.
LEMMA LiveNotStored ==
    ASSUME IInv, NEW id \in DOMAIN objs, NEW b \in Blocks
    PROVE  objs[id].entity \notin StoredIn(b)
BY DEF IInv, OwnBlock, Held

\* Steps after which all entities are where they were.
LEMMA PlacesKept ==
    ASSUME SavedInv, AbsentInv, DOMAIN objs' = DOMAIN objs,
           \A id \in DOMAIN objs : /\ objs'[id].entity = objs[id].entity
                                   /\ objs'[id].static = objs[id].static,
           disk' = disk, dirty' = dirty,
           \A b \in Blocks : StoredIn(b)' = StoredIn(b),
           \A e \in Entities : Live(e) \/ fate'[e] = fate[e]
    PROVE  SavedInv' /\ AbsentInv'
<1>1. \A e \in Entities : /\ Live(e)' <=> Live(e)
                          /\ Present(e)' <=> Present(e)
                          /\ \A b \in Blocks : /\ Held(b, e)' <=> Held(b, e)
                                               /\ In(b, e)' <=> In(b, e)
    BY DEF Live, Present, Held, In
<1>2. SavedInv'
    BY <1>1 DEF SavedInv
<1>3. AbsentInv'
    BY <1>1 DEF AbsentInv, Present
<1> QED BY <1>2, <1>3

\* Scripts and clients.
LEMMA ScriptKeeps ==
    ASSUME IInv, KeepInv, NEW id \in Ids,
           \/ Remove(id)
           \/ \E b \in Blocks : Move(id, b)
           \/ \E saves \in BOOLEAN : SetStaticSave(id, saves)
    PROVE  KeepInv'
<1> USE DEF Remove, Move, SetStaticSave, mapVars
<1>0. /\ \A i \in DOMAIN objs : objs[i] \in ObjectType
      /\ fate \in [Entities -> Fates] /\ id \in DOMAIN objs /\ objs[id].entity \in Entities
      /\ ~Gone(objs[id])
    BY DEF IInv, TypeOK, ObjectType, Fates
<1>1. /\ DOMAIN objs' = DOMAIN objs /\ disk' = disk /\ dirty' = dirty /\ task' = task
      /\ stored' = stored
      /\ \A i \in DOMAIN objs : /\ objs'[i].entity = objs[i].entity
                                /\ objs'[i].static = objs[i].static
                                /\ objs'[i].deactivation = objs[i].deactivation
                                /\ i # id => objs'[i] = objs[i]
    BY <1>0 DEF ObjectType
<1>2. /\ \A b \in Blocks : StoredIn(b)' = StoredIn(b)
      /\ \A e \in Entities : e # objs[id].entity => fate'[e] = fate[e]
    BY <1>0, <1>1 DEF StoredIn
<1>3. SavedInv' /\ AbsentInv'
  <2>1. \A e \in Entities : Live(e) \/ fate'[e] = fate[e]
    BY <1>0, <1>2 DEF Live
  <2> QED BY <1>1, <1>2, <2>1, PlacesKept DEF KeepInv
<1>4. \A i \in DOMAIN objs : i # id => objs[i].entity # objs[id].entity
    BY <1>0 DEF IInv, OneObject
<1>5. RemovedStaysRemoved'
  <2>1. \A b \in Blocks : objs[id].entity \notin StoredIn(b)
    BY <1>0, LiveNotStored
  <2>2. fate'[objs[id].entity] = "removed" => objs'[id].removal
    BY <1>0 DEF ObjectType, KeepInv, RemovedStaysRemoved, Gone
  <2> QED BY <1>1, <1>2, <1>4, <2>1, <2>2 DEF KeepInv, RemovedStaysRemoved
<1>6. KeptInv'
  <2>1. fate'[objs[id].entity] = "kept" =>
            fate[objs[id].entity] = "kept" /\ objs'[id].saves /\ ~objs'[id].removal
    BY <1>0 DEF ObjectType, KeepInv, KeptInv, Gone
  <2> SUFFICES ASSUME NEW i \in DOMAIN objs, fate'[objs[i].entity] = "kept"
               PROVE  /\ objs'[i].saves /\ ~objs'[i].removal
                      /\ objs[i].deactivation => objs[i].static # Nowhere
                      /\ task.kind = "shutdown" /\ i \notin task.todo =>
                            objs[i].static # Nowhere
    BY <1>1 DEF KeptInv
  <2>2. fate[objs[i].entity] = "kept"
    BY <1>0, <1>2, <1>4, <2>1 DEF ObjectType
  <2> QED BY <1>1, <2>1, <2>2 DEF KeepInv, KeptInv
<1> QED BY <1>3, <1>5, <1>6 DEF KeepInv

\* Steps that leave objects to their fate, and go on in the loop under way.
LEMMA LoopKeepsEntities ==
    ASSUME IInv, KeepInv, DOMAIN objs' = DOMAIN objs,
           \A id \in DOMAIN objs : /\ objs'[id].entity = objs[id].entity
                                   /\ objs'[id].static = objs[id].static
                                   /\ objs'[id].saves = objs[id].saves
                                   /\ objs'[id].removal = objs[id].removal
                                   /\ objs'[id].deactivation = objs[id].deactivation,
           UNCHANGED <<disk, dirty, fate>>,
           \A b \in Blocks : StoredIn(b)' = StoredIn(b),
           \A id \in DOMAIN objs : task'.kind = "shutdown" /\ id \notin task'.todo =>
                                        task.kind = "shutdown" /\ id \notin task.todo
    PROVE  KeepInv'
<1>1. SavedInv' /\ AbsentInv'
    BY PlacesKept DEF KeepInv
<1>2. RemovedStaysRemoved'
    BY DEF KeepInv, RemovedStaysRemoved
<1>3. KeptInv'
    BY DEF KeepInv, KeptInv
<1> QED BY <1>1, <1>2, <1>3 DEF KeepInv

LEMMA LoopsKeep ==
    ASSUME IInv, KeepInv,
           \/ UNCHANGED vars
           \/ \E c \in Clients, seen \in SUBSET Ids : UpdateClient(c, seen)
           \/ \E blocks \in SUBSET Blocks : ManageBlocks(blocks)
           \/ \E b \in Blocks : FinishGen(b)
           \/ \E id \in Ids : Stays(id)
           \/ EndActivation \/ EndSweep \/ Shutdown \/ Restart
    PROVE  KeepInv'
<1> USE DEF mapVars, Idle, IsIdle
<1>0. /\ \A i \in DOMAIN objs : objs[i] \in ObjectType
      /\ task.kind # "activate" => task.block = Nowhere
      /\ task.kind = "activate" => task.block \in Blocks
      /\ Nowhere \notin Blocks
      /\ task \in TaskType /\ stored \in [Blocks -> SUBSET Entities]
    BY ObjectsAssumption DEF IInv, TypeOK, TaskInv, TaskType
<1>1. CASE UNCHANGED vars
    BY <1>1, LoopKeepsEntities DEF vars, StoredIn
<1>2. ASSUME NEW c \in Clients, NEW seen \in SUBSET Ids, UpdateClient(c, seen) PROVE KeepInv'
  <2>1. /\ DOMAIN objs' = DOMAIN objs /\ task' = task /\ UNCHANGED <<stored, disk, dirty, fate>>
        /\ \A id \in DOMAIN objs : /\ objs'[id].entity = objs[id].entity
                                   /\ objs'[id].static = objs[id].static
                                   /\ objs'[id].saves = objs[id].saves
                                   /\ objs'[id].removal = objs[id].removal
                                   /\ objs'[id].deactivation = objs[id].deactivation
    BY <1>0, <1>2 DEF UpdateClient, ObjectType
  <2>2. \A b \in Blocks : StoredIn(b)' = StoredIn(b)
    BY <2>1 DEF StoredIn
  <2> QED BY <2>1, <2>2, LoopKeepsEntities
\* The loops change task only.
<1>3. ASSUME UNCHANGED <<objs, stored, disk, dirty, fate>>, task'.block = task.block,
             task'.left = task.left \/ task.block = Nowhere,
             task'.kind = "shutdown" =>
                task.kind = "shutdown" /\ task.todo \cap DOMAIN objs \subseteq task'.todo
      PROVE  KeepInv'
  <2>1. \A b \in Blocks : StoredIn(b)' = StoredIn(b)
    BY <1>0, <1>3 DEF StoredIn
  <2> QED BY <1>3, <2>1, LoopKeepsEntities
<1>4. ASSUME \/ \E blocks \in SUBSET Blocks : ManageBlocks(blocks)
             \/ \E b \in Blocks : FinishGen(b)
             \/ EndSweep \/ Restart
      PROVE  KeepInv'
  <2>1. task.block = Nowhere
    BY <1>0, <1>4 DEF ManageBlocks, FinishGen, EndSweep, Restart, TaskInv, IInv
  <2>2. task'.block = Nowhere /\ task'.kind # "shutdown"
    <3>1. ASSUME NEW blocks \in SUBSET Blocks, ManageBlocks(blocks)
          PROVE  task'.block = Nowhere /\ task'.kind = "deactivate"
      BY <3>1 DEF ManageBlocks
    <3>2. ASSUME NEW b \in Blocks, FinishGen(b)
          PROVE  task'.block = Nowhere /\ task'.kind = "deactivate"
      BY <3>2 DEF FinishGen
    <3>3. CASE EndSweep \/ Restart
      BY <3>3 DEF EndSweep, Restart
    <3> QED BY <1>4, <3>1, <3>2, <3>3
  <2>3. UNCHANGED <<objs, stored, disk, dirty, fate>>
    BY <1>4 DEF ManageBlocks, FinishGen, EndSweep, Restart
  <2> QED BY <1>3, <2>1, <2>2, <2>3
<1>5. ASSUME NEW id \in Ids, Stays(id) PROVE KeepInv'
  <2>1. task' = [task EXCEPT !.todo = @ \ {id}]
          /\ UNCHANGED <<objs, stored, disk, dirty, fate>>
          /\ (task.kind = "shutdown" => id \notin DOMAIN objs)
    BY <1>5 DEF Stays, Visited, Forced
  <2>2. task'.block = task.block /\ task'.left = task.left /\ task'.kind = task.kind
          /\ task'.todo = task.todo \ {id}
    BY <1>0, <2>1 DEF TaskType
  <2> QED BY <1>3, <2>1, <2>2
<1>6. CASE EndActivation
  <2>1. /\ task.kind = "activate" /\ task.left = {} /\ task'.kind = "deactivate"
        /\ task'.block = Nowhere /\ task' \in TaskType
        /\ stored' = [stored EXCEPT ![task.block] = {}]
        /\ UNCHANGED <<objs, disk, dirty, fate>>
    BY <1>0, <1>6 DEF EndActivation, TaskType
  <2>2. \A b \in Blocks : StoredIn(b)' = StoredIn(b)
    BY <1>0, <2>1 DEF StoredIn
  <2> QED BY <2>1, <2>2, LoopKeepsEntities
<1>7. CASE Shutdown
  <2>1. /\ UNCHANGED <<objs, stored, disk, dirty, fate>> /\ task.block = Nowhere
        /\ task'.block = Nowhere /\ task'.todo = DOMAIN objs
    BY <1>0, <1>7 DEF Shutdown
  <2>2. \A b \in Blocks : StoredIn(b)' = StoredIn(b)
    BY <1>0, <2>1 DEF StoredIn
  <2> QED BY <2>1, <2>2, LoopKeepsEntities
<1> QED BY <1>1, <1>2, <1>4, <1>5, <1>6, <1>7

\* A new object has its static data in a block that is marked as modified.
LEMMA AddObjectKeepsEntities ==
    ASSUME IInv, KeepInv, NEW e \in Entities, NEW b \in Blocks, NEW saves \in BOOLEAN,
           AddObject(e, b, saves)
    PROVE  KeepInv'
<1> PICK id \in FreeIds : objs' = Put(id, Object(e, b, IF saves THEN b ELSE Nowhere, saves))
    BY DEF AddObject
<1>1. /\ id \notin DOMAIN objs /\ DOMAIN objs' = DOMAIN objs \cup {id}
      /\ \A i \in DOMAIN objs : objs'[i] = objs[i]
      /\ objs'[id].entity = e /\ objs'[id].static = (IF saves THEN b ELSE Nowhere)
      /\ objs'[id].saves = saves /\ ~objs'[id].removal /\ ~objs'[id].deactivation
    BY DEF FreeIds, Put, Object
<1>2. /\ stored' = stored /\ disk' = disk /\ task' = task
      /\ dirty' = (IF saves THEN dirty \cup {b} ELSE dirty)
      /\ fate[e] = "unborn" /\ fate'[e] = Kept(saves)
      /\ \A f \in Entities \ {e} : fate'[f] = fate[f]
      /\ Nowhere \notin Blocks
    BY ObjectsAssumption DEF AddObject, IInv, TypeOK
<1>3. \A d \in Blocks : StoredIn(d)' = StoredIn(d)
    BY <1>2 DEF StoredIn
<1>4. /\ \A i \in DOMAIN objs : objs[i].entity # e
      /\ \A d \in Blocks : e \notin StoredIn(d)
    BY <1>2, StoredInSubset DEF IInv, UnbornNowhere
<1>5. SavedInv'
  <2> SUFFICES ASSUME NEW d \in Blocks, d \notin dirty', NEW f \in Entities, In(d, f)'
               PROVE  f \in disk[d]
    BY <1>2 DEF SavedInv
  <2>1. f # e
    BY <1>1, <1>2, <1>3, <1>4 DEF In
  <2>2. In(d, f) /\ d \notin dirty
    BY <1>1, <1>2, <1>3, <2>1 DEF In
  <2> QED BY <2>2 DEF KeepInv, SavedInv
<1>6. AbsentInv'
  <2> SUFFICES ASSUME NEW f \in Entities, ~Present(f)'
               PROVE  /\ fate'[f] # "kept"
                      /\ fate'[f] \in {"dropped", "stuck"} \/ \A d \in Blocks : ~Held(d, f)'
    BY DEF AbsentInv
  <2>1. f # e /\ ~Present(f)
    BY <1>1, <1>3 DEF Present, Live
  <2>2. \A d \in Blocks : Held(d, f)' => Held(d, f)
    BY <1>2, <1>3 DEF Held
  <2> QED BY <1>2, <2>1, <2>2 DEF KeepInv, AbsentInv
<1>7. RemovedStaysRemoved'
    BY <1>1, <1>2, <1>3 DEF KeepInv, RemovedStaysRemoved, Kept
<1>8. KeptInv'
  <2> SUFFICES ASSUME NEW i \in DOMAIN objs', fate'[objs'[i].entity] = "kept"
               PROVE  /\ objs'[i].saves /\ ~objs'[i].removal
                      /\ objs'[i].deactivation => objs'[i].static # Nowhere
                      /\ task.kind = "shutdown" /\ i \notin task.todo =>
                            objs'[i].static # Nowhere
    BY <1>2 DEF KeptInv
  <2>1. CASE i = id
    BY <1>1, <1>2, <2>1 DEF Kept
  <2>2. CASE i # id
    <3>1. i \in DOMAIN objs /\ objs'[i] = objs[i] /\ objs[i].entity \in Entities \ {e}
      BY <1>1, <1>4, <2>2 DEF IInv, TypeOK, ObjectType
    <3>2. fate[objs[i].entity] = "kept"
      BY <1>2, <3>1
    <3> QED BY <3>1, <3>2 DEF KeepInv, KeptInv
  <2> QED BY <2>1, <2>2
<1> QED BY <1>5, <1>6, <1>7, <1>8 DEF KeepInv

\* What a deactivated object leaves is stored, what a removed one leaves is
\* deleted and its block marked.
LEMMA RemoveRemovedKeepsEntities == ASSUME IInv, KeepInv, RemoveRemovedObjects PROVE KeepInv'
<1> DEFINE removed == {id \in DOMAIN objs : objs[id].removal}
           changed == removed \cup Storing
<1>1. /\ DOMAIN objs' = DOMAIN objs \ Dead
      /\ \A i \in DOMAIN objs' :
            objs'[i] = IF i \in removed THEN [objs[i] EXCEPT !.static = Nowhere] ELSE objs[i]
      /\ stored' = [b \in Blocks |-> stored[b] \cup
                {objs[id].entity : id \in {i \in Storing : objs[i].static = b}}]
      /\ dirty' = dirty \cup {b \in Blocks : \E id \in changed : objs[id].static = b}
      /\ disk' = disk /\ fate' = fate /\ task' = task /\ task.kind = "idle"
    BY DEF RemoveRemovedObjects, IsIdle
<1>2. /\ Storing \subseteq Dead /\ Dead \subseteq DOMAIN objs /\ Nowhere \notin Blocks
      /\ \A i \in DOMAIN objs : objs[i] \in ObjectType
      /\ \A i \in DOMAIN objs : objs[i].static \in Blocks \cup {Nowhere}
    BY ObjectsAssumption DEF Storing, Dead, IInv, TypeOK, ObjectType
<1>3. \A i \in DOMAIN objs' :
        /\ i \in DOMAIN objs /\ objs'[i].entity = objs[i].entity
        /\ objs'[i].static = (IF objs[i].removal THEN Nowhere ELSE objs[i].static)
        /\ objs'[i].removal = objs[i].removal /\ objs'[i].saves = objs[i].saves
        /\ objs'[i].deactivation = objs[i].deactivation
    BY <1>1, <1>2 DEF ObjectType
<1>4. \A b \in Blocks : StoredIn(b) = stored[b] /\ StoredIn(b)' = stored'[b]
    BY <1>1, <1>2 DEF StoredIn, IInv, TaskInv
<1>5. \A b \in Blocks \ dirty' : b \notin dirty /\ stored'[b] = stored[b]
                                  /\ \A id \in changed : objs[id].static # b
    BY <1>1 DEF IInv, TypeOK
<1>6. SavedInv'
  <2>1. \A b \in Blocks \ dirty', e \in Entities : In(b, e)' => In(b, e)
    BY <1>2, <1>3, <1>4, <1>5 DEF In
  <2> QED BY <1>1, <1>5, <2>1 DEF KeepInv, SavedInv
<1>7. AbsentInv'
  <2> SUFFICES ASSUME NEW e \in Entities, ~Present(e)'
               PROVE  /\ fate[e] # "kept"
                      /\ fate[e] \in {"dropped", "stuck"} \/ \A b \in Blocks : ~Held(b, e)'
    BY <1>1 DEF AbsentInv
  <2>1. \A b \in Blocks : Held(b, e)' => Held(b, e) /\ b \notin dirty'
    BY <1>1, <1>4, <1>5 DEF Held, Present
  <2>2. CASE ~Live(e)
    <3>1. ~Present(e)
      BY <1>1, <1>4, <2>2 DEF Present
    <3> QED BY <2>1, <3>1 DEF KeepInv, AbsentInv
  <2>3. CASE Live(e)
    <3> PICK id \in DOMAIN objs : objs[id].entity = e
      BY <2>3 DEF Live
    <3>1. id \in Dead
      BY <1>1, <1>3 DEF Present, Live
    <3>2. id \notin Storing
      <4>1. ASSUME id \in Storing PROVE FALSE
        <5>1. objs[id].static \in Blocks
          BY <1>2, <4>1 DEF Storing
        <5>2. e \in stored'[objs[id].static]
          BY <1>1, <4>1, <5>1
        <5> QED BY <1>4, <5>1, <5>2 DEF Present
      <4> QED BY <4>1
    <3>3. objs[id].removal \/ objs[id].static = Nowhere
      BY <3>1, <3>2 DEF Storing
    <3>4. fate[e] # "kept"
      BY <3>1, <3>3 DEF KeepInv, KeptInv, Dead, Gone
    <3>5. \A b \in Blocks : ~Held(b, e)'
      <4> SUFFICES ASSUME NEW b \in Blocks, Held(b, e)' PROVE FALSE
        OBVIOUS
      <4>1. objs[id].static = b /\ b \notin dirty'
        BY <2>1, WhereHeld
      <4>2. id \in changed
        BY <1>2, <3>3, <4>1
      <4> QED BY <1>5, <4>1, <4>2
    <3> QED BY <3>4, <3>5
  <2> QED BY <2>2, <2>3
<1>8. RemovedStaysRemoved'
  <2> SUFFICES ASSUME NEW e \in Entities, fate[e] = "removed"
               PROVE  /\ \A b \in Blocks : e \notin stored'[b]
                      /\ \A id \in DOMAIN objs' : objs'[id].entity = e => objs'[id].removal
    BY <1>1, <1>4 DEF RemovedStaysRemoved
  <2>1. /\ \A b \in Blocks : e \notin stored[b]
        /\ \A id \in DOMAIN objs : objs[id].entity = e => objs[id].removal
    BY <1>4 DEF KeepInv, RemovedStaysRemoved
  <2>2. \A id \in Storing : objs[id].entity # e
    BY <1>2, <2>1 DEF Storing
  <2> QED BY <1>1, <1>3, <2>1, <2>2
<1>9. KeptInv'
    BY <1>1, <1>3 DEF KeepInv, KeptInv
<1> QED BY <1>6, <1>7, <1>8, <1>9 DEF KeepInv

\* Static data that moves marks both blocks.
LEMMA ResaveKeepsEntities == ASSUME IInv, KeepInv, NEW id \in Ids, Resave(id) PROVE KeepInv'
<1> DEFINE o == objs[id]
           b == ResavedIn(o)
<1>1. /\ id \in DOMAIN objs /\ o \in ObjectType /\ ~o.deactivation /\ o.static \in Blocks
      /\ task.kind = "deactivate" /\ task \in TaskType
    BY DEF Resave, Visiting, Forced, Strayed, Gone, IInv, TypeOK, ObjectType, TaskType
<1>2. /\ objs' = [objs EXCEPT ![id].static = b] /\ dirty' = dirty \cup Moved(o.static, b)
      /\ task' = [task EXCEPT !.todo = @ \ {id}] /\ UNCHANGED <<stored, disk, fate>>
    BY DEF Resave, Visited
<1>3. /\ DOMAIN objs' = DOMAIN objs /\ objs'[id].entity = o.entity /\ objs'[id].static = b
      /\ objs'[id].removal = o.removal /\ objs'[id].saves = o.saves
      /\ objs'[id].deactivation = o.deactivation
      /\ \A i \in DOMAIN objs : i # id => objs'[i] = objs[i]
      /\ task'.kind = "deactivate" /\ task'.block = task.block /\ task'.left = task.left
    BY <1>1, <1>2 DEF ObjectType, TaskType
<1>4. /\ \A d \in Blocks : StoredIn(d)' = StoredIn(d) /\ Nowhere \notin Blocks
      /\ dirty \subseteq dirty' /\ o.static \in dirty' /\ (b \in Blocks => b \in dirty')
      /\ b \in Blocks \cup {Nowhere}
    BY <1>1, <1>2, <1>3, ObjectsAssumption DEF StoredIn, Moved, ResavedIn, ObjectType
<1> HIDE DEF b, o
<1>5. SavedInv'
  <2>1. \A d \in Blocks \ dirty', e \in Entities : In(d, e)' => In(d, e)
    BY <1>3, <1>4 DEF In
  <2> QED BY <1>2, <1>4, <2>1 DEF KeepInv, SavedInv
<1>6. AbsentInv'
  <2>1. \A e \in Entities : /\ Present(e)' <=> Present(e)
                            /\ \A d \in Blocks : Held(d, e)' => Held(d, e)
    BY <1>1, <1>2, <1>3, <1>4 DEF Present, Live, Held, o
  <2> QED BY <1>2, <2>1 DEF KeepInv, AbsentInv
<1>7. RemovedStaysRemoved'
    BY <1>1, <1>2, <1>3, <1>4 DEF KeepInv, RemovedStaysRemoved, o
<1>8. KeptInv'
    BY <1>1, <1>2, <1>3 DEF KeepInv, KeptInv, o
<1> QED BY <1>5, <1>6, <1>7, <1>8 DEF KeepInv

\* The static data of an object goes with it, or the server drops it.
LEMMA DeactivateKeepsEntities ==
    ASSUME IInv, KeepInv, NEW id \in Ids, NEW changed \in BOOLEAN, NEW leaves \in BOOLEAN,
           Deactivate(id, changed, leaves)
    PROVE  KeepInv'
<1> DEFINE o       == objs[id]
           b       == o.pos
           pending == o.known > 0 /\ ~Forced
           refused == o.saves /\ Full(b)
           saved   == o.saves /\ ~Full(b)
           stays   == pending /\ ~refused
           written == ~o.saves \/ o.static # b \/ changed
           to      == IF saved THEN b ELSE Nowhere
           gone    == leaves \/ o.removal
<1>1. /\ id \in DOMAIN objs
      /\ objs' = IF ~stays THEN Delete({id})
                 ELSE Put(id, [o EXCEPT !.deactivation = TRUE, !.removal = @ \/ leaves,
                                        !.static = to])
      /\ stored' = IF saved /\ ~pending
                   THEN [stored EXCEPT ![b] = @ \cup {o.entity}] ELSE stored
      /\ dirty' = IF ~written THEN dirty ELSE dirty \cup Moved(o.static, to)
      /\ task' = [task EXCEPT !.todo = @ \ {id}] /\ task.kind # "activate"
      /\ disk' = disk
    BY DEF Deactivate, Visiting, Visited
<1>2. /\ o \in ObjectType /\ o.entity \in Entities /\ b \in Blocks
      /\ o.static \in Blocks \cup {Nowhere} /\ Nowhere \notin Blocks
      /\ o.removal \in BOOLEAN /\ stored \in [Blocks -> SUBSET Entities]
      /\ task \in TaskType
    BY <1>1, ObjectsAssumption DEF IInv, TypeOK, ObjectType, TaskType
<1>3. /\ DOMAIN objs' = IF stays THEN DOMAIN objs ELSE DOMAIN objs \ {id}
      /\ \A i \in DOMAIN objs : i # id => objs'[i] = objs[i]
      /\ stays => /\ objs'[id].entity = o.entity /\ objs'[id].static = to
                  /\ objs'[id].saves = o.saves /\ objs'[id].removal = gone
  <2>1. CASE stays
    BY <1>1, <1>2, <2>1 DEF ObjectType, Put
  <2>2. CASE ~stays
    BY <1>1, <2>2 DEF Delete
  <2> QED BY <2>1, <2>2
<1>4. /\ fate'[o.entity] = IF ~stays /\ gone THEN "stuck" ELSE IF gone THEN "removed"
                           ELSE IF refused /\ ~stays THEN "dropped" ELSE fate[o.entity]
      /\ \A e \in Entities : e # o.entity => fate'[e] = fate[e]
    BY <1>2 DEF Deactivate, IInv, TypeOK
<1>5. \A d \in Blocks : stored'[d] =
        IF d = b /\ saved /\ ~pending THEN stored[d] \cup {o.entity} ELSE stored[d]
    BY <1>1, <1>2
<1>6. task'.block = task.block /\ task'.kind = task.kind /\ task'.todo = task.todo \ {id}
    BY <1>1, <1>2 DEF TaskType
<1>7. \A d \in Blocks : StoredIn(d) = stored[d] /\ StoredIn(d)' = stored'[d]
    BY <1>1, <1>2, <1>6 DEF StoredIn, IInv, TaskInv
<1>8. /\ \A i \in DOMAIN objs : i # id => objs[i].entity # o.entity
      /\ \A d \in Blocks : o.entity \notin stored[d]
    BY <1>1, <1>7, LiveNotStored DEF IInv, OneObject
<1>9. /\ dirty \subseteq dirty'
      /\ written => /\ o.static \in Blocks => o.static \in dirty'
                    /\ saved => b \in dirty'
    BY <1>1, <1>2 DEF Moved
<1>10. pending => task.kind # "shutdown"
    BY DEF Forced
<1>11. stays => ~refused /\ pending
    OBVIOUS
<1>12. /\ saved => to = b /\ ~refused
       /\ ~saved => to = Nowhere
       /\ refused => o.saves
       /\ o.saves => saved \/ refused
       /\ ~stays => ~pending \/ refused
       /\ ~written => o.static = b
       /\ ~o.saves => written /\ ~refused
    OBVIOUS
<1> HIDE DEF o, b, pending, refused, saved, stays, written, to, gone
<1>13. \A e \in Entities, d \in Blocks : e # o.entity =>
        /\ Live(e)' <=> Live(e)
        /\ e \in StoredIn(d)' <=> e \in StoredIn(d)
        /\ In(d, e)' <=> In(d, e)
        /\ Held(d, e)' => Held(d, e)
  <2> SUFFICES ASSUME NEW e \in Entities, NEW d \in Blocks, e # o.entity
               PROVE  /\ Live(e)' <=> Live(e)
                      /\ e \in StoredIn(d)' <=> e \in StoredIn(d)
                      /\ In(d, e)' <=> In(d, e)
                      /\ Held(d, e)' => Held(d, e)
    OBVIOUS
  <2>1. e \in StoredIn(d)' <=> e \in StoredIn(d)
    BY <1>5, <1>7
  <2>2. \A i \in DOMAIN objs : objs[i].entity = e => i \in DOMAIN objs' /\ objs'[i] = objs[i]
    BY <1>3 DEF o
  <2>3. \A i \in DOMAIN objs' : objs'[i].entity = e => i \in DOMAIN objs /\ objs'[i] = objs[i]
    BY <1>3
  <2> QED BY <1>1, <1>9, <2>1, <2>2, <2>3 DEF Live, In, Held
<1>14. SavedInv'
  <2> SUFFICES ASSUME NEW d \in Blocks, d \notin dirty', NEW e \in Entities, In(d, e)'
               PROVE  e \in disk[d]
    BY <1>1 DEF SavedInv
  <2>1. CASE e # o.entity
    BY <1>9, <1>13, <2>1 DEF KeepInv, SavedInv
  <2>2. CASE e = o.entity
    <3>1. saved /\ d = b
      <4>1. CASE e \in StoredIn(d)'
        BY <1>5, <1>7, <1>8, <2>2, <4>1
      <4>2. CASE \E i \in DOMAIN objs' : objs'[i].entity = e /\ objs'[i].static = d
        <5> PICK i \in DOMAIN objs' : objs'[i].entity = e /\ objs'[i].static = d
          BY <4>2
        <5>1. i = id /\ stays
          BY <1>3, <1>8, <2>2
        <5> QED BY <1>2, <1>3, <1>12, <5>1
      <4> QED BY <4>1, <4>2 DEF In
    <3>2. ~written
      BY <1>9, <3>1
    <3>3. o.static = d
      BY <1>12, <3>1, <3>2
    <3>4. In(d, e) /\ d \notin dirty
      BY <1>1, <1>9, <2>2, <3>3 DEF In, o
    <3> QED BY <3>4 DEF KeepInv, SavedInv
  <2> QED BY <2>1, <2>2
<1>15. AbsentInv'
  <2> SUFFICES ASSUME NEW e \in Entities, ~Present(e)'
               PROVE  /\ fate'[e] # "kept"
                      /\ fate'[e] \in {"dropped", "stuck"} \/ \A d \in Blocks : ~Held(d, e)'
    BY DEF AbsentInv
  <2>1. CASE e # o.entity
    <3>1. ~Present(e) /\ fate'[e] = fate[e]
      <4>1. ~Live(e)' /\ \A d \in Blocks : e \notin StoredIn(d)'
        BY DEF Present
      <4>2. \A d \in Blocks : e \notin StoredIn(d)
        BY <1>13, <2>1, <4>1
      <4>3. ~Live(e)
        BY <1>2, <1>13, <2>1, <4>1
      <4> QED BY <1>4, <2>1, <4>2, <4>3 DEF Present
    <3>2. \A d \in Blocks : Held(d, e)' => Held(d, e)
      BY <1>13, <2>1
    <3> QED BY <3>1, <3>2 DEF KeepInv, AbsentInv
  <2>2. CASE e = o.entity
    <3>1. ~stays
      BY <1>1, <1>3, <2>2 DEF Present, Live
    <3>2. ~ (saved /\ ~pending)
      <4>1. \A d \in Blocks : e \notin stored'[d]
        BY <1>7 DEF Present
      <4> QED BY <1>2, <1>5, <1>7, <2>2, <4>1
    <3>3. ~saved
      BY <1>12, <3>1, <3>2
    <3>4. CASE refused
      BY <1>4, <2>2, <3>1, <3>4
    <3>5. CASE ~refused
      <4>1. ~o.saves /\ written
        BY <1>12, <3>3, <3>5
      <4>2. fate[e] # "kept"
        BY <1>1, <2>2, <4>1 DEF KeepInv, KeptInv, o
      <4>3. fate'[e] # "kept"
        BY <1>4, <2>2, <4>2
      <4>4. \A d \in Blocks : ~Held(d, e)'
        <5> SUFFICES ASSUME NEW d \in Blocks, Held(d, e)' PROVE FALSE
          OBVIOUS
        <5>1. d \notin dirty' /\ e \in disk[d]
          BY <1>1, <1>5, <1>7, <1>8, <2>2, <3>3 DEF Held
        <5>2. Held(d, e)
          BY <1>9, <5>1 DEF Held
        <5>3. o.static = d
          BY <1>1, <2>2, <5>2, WhereHeld DEF o
        <5> QED BY <1>9, <4>1, <5>1, <5>3
      <4> QED BY <4>3, <4>4
    <3> QED BY <3>4, <3>5
  <2> QED BY <2>1, <2>2
<1>16. RemovedStaysRemoved'
  <2> SUFFICES ASSUME NEW e \in Entities, fate'[e] = "removed"
               PROVE  /\ \A d \in Blocks : e \notin StoredIn(d)'
                      /\ \A i \in DOMAIN objs' : objs'[i].entity = e => objs'[i].removal
    BY DEF RemovedStaysRemoved
  <2>1. fate[e] = "removed" => /\ \A d \in Blocks : e \notin StoredIn(d)
                               /\ \A i \in DOMAIN objs : objs[i].entity = e => objs[i].removal
    BY DEF KeepInv, RemovedStaysRemoved
  <2>2. CASE e # o.entity
    BY <1>3, <1>4, <1>13, <2>1, <2>2
  <2>3. CASE e = o.entity
    <3>1. fate[e] = "removed" => gone
      BY <1>1, <2>1, <2>3 DEF o, gone
    <3>2. stays /\ gone
      BY <1>4, <2>3, <3>1
    <3>3. \A d \in Blocks : e \notin StoredIn(d)'
      BY <1>5, <1>7, <1>8, <1>11, <2>3, <3>2
    <3>4. \A i \in DOMAIN objs' : objs'[i].entity = e => i = id
      BY <1>3, <1>8, <2>3
    <3> QED BY <1>3, <3>2, <3>3, <3>4
  <2> QED BY <2>2, <2>3
<1>17. KeptInv'
  <2> SUFFICES ASSUME NEW i \in DOMAIN objs', fate'[objs'[i].entity] = "kept"
               PROVE  /\ objs'[i].saves /\ ~objs'[i].removal
                      /\ objs'[i].deactivation => objs'[i].static # Nowhere
                      /\ task'.kind = "shutdown" /\ i \notin task'.todo =>
                            objs'[i].static # Nowhere
    BY DEF KeptInv
  <2>1. CASE i # id
    <3>1. i \in DOMAIN objs /\ objs'[i] = objs[i] /\ objs[i].entity \in Entities
      BY <1>3, <2>1 DEF IInv, TypeOK, ObjectType
    <3>2. fate[objs[i].entity] = "kept"
      BY <1>4, <1>8, <2>1, <3>1
    <3> QED BY <1>6, <2>1, <3>1, <3>2 DEF KeepInv, KeptInv
  <2>2. CASE i = id
    <3>1. stays
      BY <1>3, <2>2
    <3>2. ~gone /\ fate[o.entity] = "kept"
      BY <1>3, <1>4, <2>2, <3>1
    <3>3. o.saves
      BY <1>1, <3>2 DEF KeepInv, KeptInv, o
    <3>4. saved /\ to = b
      BY <1>11, <1>12, <3>1, <3>3
    <3> QED BY <1>2, <1>3, <2>2, <3>1, <3>2, <3>3, <3>4
  <2> QED BY <2>1, <2>2
<1> QED BY <1>14, <1>15, <1>16, <1>17 DEF KeepInv

\* The objects of a block with too many are dropped, and the block is marked.
LEMMA StartActivationKeepsEntities ==
    ASSUME IInv, KeepInv, NEW b \in Blocks, StartActivation(b) PROVE KeepInv'
<1>1. /\ task.kind = "deactivate" /\ task.block = Nowhere /\ Nowhere \notin Blocks
      /\ objs' = objs /\ disk' = disk
      /\ task \in TaskType /\ stored \in [Blocks -> SUBSET Entities]
    BY ObjectsAssumption DEF StartActivation, IInv, TypeOK, TaskInv, TaskType
<1>2. CASE Cardinality(stored[b]) > MaxObjects
  <2>1. /\ stored' = [stored EXCEPT ![b] = {}]
        /\ fate' = [e \in Entities |-> IF e \in stored[b] THEN "dropped" ELSE fate[e]]
        /\ task' = [task EXCEPT !.blocks = @ \ {b}]
        /\ dirty' = dirty \cup {b}
    BY <1>2 DEF StartActivation
  <2>2. task'.kind = "deactivate" /\ task'.block = Nowhere /\ task'.todo = task.todo
    BY <1>1, <2>1 DEF TaskType
  <2>3. \A d \in Blocks : /\ StoredIn(d) = stored[d] /\ StoredIn(d)' = stored'[d]
                          /\ stored'[d] = IF d = b THEN {} ELSE stored[d]
    BY <1>1, <2>1, <2>2 DEF StoredIn
  <2>4. \A d \in Blocks, e \in Entities : (Held(d, e)' => Held(d, e)) /\ (In(d, e)' => In(d, e))
    BY <1>1, <2>1, <2>3 DEF Held, In
  <2>5. SavedInv'
    BY <1>1, <2>1, <2>4 DEF KeepInv, SavedInv
  <2>6. AbsentInv'
    <3> SUFFICES ASSUME NEW e \in Entities, ~Present(e)'
                 PROVE  /\ fate'[e] # "kept"
                        /\ fate'[e] \in {"dropped", "stuck"} \/ \A d \in Blocks : ~Held(d, e)'
      BY DEF AbsentInv
    <3>1. CASE e \in stored[b]
      BY <2>1, <3>1
    <3>2. CASE e \notin stored[b]
      <4>1. ~Present(e) /\ fate'[e] = fate[e]
        BY <1>1, <2>1, <2>3, <3>2 DEF Present, Live
      <4> QED BY <2>4, <4>1 DEF KeepInv, AbsentInv
    <3> QED BY <3>1, <3>2
  <2>7. \A e \in Entities : fate'[e] \in {"kept", "removed"} => fate[e] = fate'[e]
    BY <2>1
  <2>8. RemovedStaysRemoved'
    BY <1>1, <2>3, <2>7 DEF KeepInv, RemovedStaysRemoved
  <2>9. KeptInv'
    BY <1>1, <2>2, <2>7 DEF KeepInv, KeptInv, IInv, TypeOK, ObjectType
  <2> QED BY <2>5, <2>6, <2>8, <2>9 DEF KeepInv
<1>3. CASE ~ (Cardinality(stored[b]) > MaxObjects)
  <2>1. /\ task' = [task EXCEPT !.kind = "activate", !.blocks = @ \ {b},
                                !.block = b, !.left = stored[b]]
        /\ stored' = stored /\ dirty' = dirty /\ fate' = fate
    BY <1>3 DEF StartActivation
  <2>2. task'.kind = "activate" /\ task'.block = b /\ task'.left = stored[b]
    BY <1>1, <2>1 DEF TaskType
  <2>3. \A d \in Blocks : StoredIn(d)' = StoredIn(d)
    BY <1>1, <2>1, <2>2 DEF StoredIn
  <2> QED BY <1>1, <2>1, <2>2, <2>3, LoopKeepsEntities
<1> QED BY <1>2, <1>3

\* The entity was stored, and its object has its static data in the same block.
LEMMA ActivateObjectKeepsEntities ==
    ASSUME IInv, KeepInv, NEW e \in Entities, ActivateObject(e) PROVE KeepInv'
<1> DEFINE b == task.block
<1>1. /\ task.kind = "activate" /\ e \in task.left /\ b \in Blocks /\ Nowhere \notin Blocks
      /\ stored' = stored /\ disk' = disk /\ dirty' = dirty
      /\ task' = [task EXCEPT !.left = @ \ {e}] /\ task \in TaskType
      /\ fate \in [Entities -> Fates]
    BY ObjectsAssumption DEF ActivateObject, IInv, TypeOK, TaskInv, TaskType, Fates
<1>2. /\ task'.kind = "activate" /\ task'.block = b /\ task'.left = task.left \ {e}
    BY <1>1 DEF TaskType
<1>3. \A d \in Blocks : StoredIn(d)' = IF d = b THEN StoredIn(d) \ {e} ELSE StoredIn(d)
    BY <1>1, <1>2 DEF StoredIn
<1>4. e \in StoredIn(b) /\ \A i \in DOMAIN objs : objs[i].entity # e
  <2>1. e \in StoredIn(b)
    BY <1>1 DEF StoredIn
  <2> QED BY <1>1, <2>1, LiveNotStored
<1>5. \A d \in Blocks : \A f \in Entities : Held(d, f)' => Held(d, f)
    BY <1>1, <1>3 DEF Held
<1>6. /\ \A i \in DOMAIN objs : i \in DOMAIN objs' /\ objs'[i] = objs[i]
      /\ \A i \in DOMAIN objs' : i \in DOMAIN objs \/
            /\ objs'[i].entity = e /\ objs'[i].static = b /\ objs'[i].saves
            /\ ~objs'[i].removal /\ ~objs'[i].deactivation
      /\ \A f \in Entities \ {e} : fate'[f] = fate[f]
      /\ fate'[e] \in {"stuck", "kept", "dropped"}
      /\ (\E i \in DOMAIN objs' : objs'[i].entity = e) \/ fate'[e] = "dropped"
  <2>1. CASE objs' = objs /\ fate' = [fate EXCEPT ![e] = "dropped"]
    BY <1>1, <2>1
  <2>2. CASE \E id \in FreeIds :
        /\ objs' = Put(id, Object(e, b, b, TRUE))
        /\ fate' = IF fate[e] = "stuck" THEN fate ELSE [fate EXCEPT ![e] = "kept"]
    <3> PICK id \in FreeIds :
        /\ objs' = Put(id, Object(e, b, b, TRUE))
        /\ fate' = IF fate[e] = "stuck" THEN fate ELSE [fate EXCEPT ![e] = "kept"]
      BY <2>2
    <3>1. /\ id \notin DOMAIN objs /\ DOMAIN objs' = DOMAIN objs \cup {id}
          /\ objs'[id] = Object(e, b, b, TRUE)
          /\ \A i \in DOMAIN objs : objs'[i] = objs[i]
      BY DEF FreeIds, Put
    <3>2. /\ objs'[id].entity = e /\ objs'[id].static = b /\ objs'[id].saves
          /\ ~objs'[id].removal /\ ~objs'[id].deactivation
      BY <3>1 DEF Object
    <3> QED BY <1>1, <3>1, <3>2
  <2> QED BY <2>1, <2>2 DEF ActivateObject
<1> HIDE DEF b
<1>7. \A f \in Entities : Live(f) <=> f # e /\ Live(f)'
    BY <1>4, <1>6 DEF Live
<1>8. SavedInv'
  <2>1. \A d \in Blocks, f \in Entities : In(d, f)' => In(d, f)
    <3> SUFFICES ASSUME NEW d \in Blocks, NEW f \in Entities, In(d, f)' PROVE In(d, f)
      OBVIOUS
    <3>1. CASE f \in StoredIn(d)'
      BY <1>3, <3>1 DEF In
    <3>2. CASE \E i \in DOMAIN objs' : objs'[i].entity = f /\ objs'[i].static = d
      BY <1>4, <1>6, <3>2 DEF In
    <3> QED BY <3>1, <3>2 DEF In
  <2> QED BY <1>1, <2>1 DEF KeepInv, SavedInv
<1>9. AbsentInv'
  <2> SUFFICES ASSUME NEW f \in Entities, ~Present(f)'
               PROVE  /\ fate'[f] # "kept"
                      /\ fate'[f] \in {"dropped", "stuck"} \/ \A d \in Blocks : ~Held(d, f)'
    BY DEF AbsentInv
  <2>1. CASE f = e
    BY <1>6, <2>1 DEF Present, Live
  <2>2. CASE f # e
    <3>1. ~Present(f)
      BY <1>3, <1>7, <2>2 DEF Present
    <3> QED BY <1>5, <1>6, <2>2, <3>1 DEF KeepInv, AbsentInv
  <2> QED BY <2>1, <2>2
<1>10. RemovedStaysRemoved'
  <2> SUFFICES ASSUME NEW f \in Entities, fate'[f] = "removed"
               PROVE  /\ \A d \in Blocks : f \notin StoredIn(d)'
                      /\ \A i \in DOMAIN objs' : objs'[i].entity = f => objs'[i].removal
    BY DEF RemovedStaysRemoved
  <2>1. f # e /\ fate[f] = "removed"
    BY <1>6
  <2> QED BY <1>3, <1>6, <2>1 DEF KeepInv, RemovedStaysRemoved
<1>11. KeptInv'
  <2> SUFFICES ASSUME NEW i \in DOMAIN objs', fate'[objs'[i].entity] = "kept"
               PROVE  /\ objs'[i].saves /\ ~objs'[i].removal
                      /\ objs'[i].deactivation => objs'[i].static # Nowhere
    BY <1>2 DEF KeptInv
  <2>1. CASE i \notin DOMAIN objs
    BY <1>6, <2>1
  <2>2. CASE i \in DOMAIN objs
    <3>1. objs'[i] = objs[i] /\ objs[i].entity \in Entities \ {e}
      BY <1>4, <1>6, <2>2 DEF IInv, TypeOK, ObjectType
    <3> QED BY <1>6, <2>2, <3>1 DEF KeepInv, KeptInv
  <2> QED BY <2>1, <2>2
<1> QED BY <1>8, <1>9, <1>10, <1>11 DEF KeepInv

\* What a block has is in the database after it is written.
LEMMA WrittenHas ==
    ASSUME IInv, SavedInv, task.block = Nowhere,
           NEW bs \in SUBSET Blocks, NEW b \in bs, NEW e \in Entities, In(b, e)
    PROVE  e \in Written(bs)[b]
<1>1. StoredIn(b) = stored[b] /\ active[b] = {id \in DOMAIN objs : objs[id].static = b}
    BY ObjectsAssumption DEF StoredIn, IInv, StaticExact
<1>2. e \in Content(b)
    BY <1>1 DEF In, Content
<1>3. b \notin dirty => e \in disk[b]
    BY DEF SavedInv
<1> QED BY <1>2, <1>3 DEF Written

\* A removed entity that the database has, in a block that is not marked, is
\* that of an object with its static data in the block.
LEMMA RemovedHeld ==
    ASSUME IInv, KeepInv, NEW e \in Entities, NEW b \in Blocks, fate[e] = "removed", Held(b, e)
    PROVE  \E id \in DOMAIN objs :
                objs[id].entity = e /\ objs[id].static = b /\ objs[id].removal
<1>1. Live(e)
    BY DEF KeepInv, RemovedStaysRemoved, AbsentInv, Present
<1> PICK id \in DOMAIN objs : objs[id].entity = e
    BY <1>1 DEF Live
<1> QED BY WhereHeld DEF KeepInv, RemovedStaysRemoved

LEMMA SaveKeepsEntities == ASSUME IInv, KeepInv, Save PROVE KeepInv'
<1>1. /\ task.kind = "idle" /\ task.block = Nowhere /\ Nowhere \notin Blocks
      /\ disk' = Written(Blocks) /\ dirty' = {}
      /\ UNCHANGED <<objs, stored, task, fate>>
    BY ObjectsAssumption DEF Save, IsIdle, IInv, TaskInv
<1>2. \A b \in Blocks : StoredIn(b) = stored[b] /\ StoredIn(b)' = StoredIn(b)
    BY <1>1 DEF StoredIn
<1>3. \A b \in Blocks, e \in Entities : In(b, e)' <=> In(b, e)
    BY <1>1, <1>2 DEF In
<1>4. SavedInv'
    BY <1>1, <1>3, WrittenHas DEF KeepInv, SavedInv
<1>5. AbsentInv'
  <2> SUFFICES ASSUME NEW e \in Entities, ~Present(e)'
               PROVE  /\ fate[e] # "kept"
                      /\ fate[e] \in {"dropped", "stuck"} \/ \A b \in Blocks : ~Held(b, e)'
    BY <1>1 DEF AbsentInv
  <2>1. ~Present(e)
    BY <1>1, <1>2 DEF Present, Live
  <2>2. \A b \in Blocks : Held(b, e)' => Held(b, e)
    BY <1>1, <1>2, <2>1, WrittenTypes DEF Held, Present, Live
  <2> QED BY <2>1, <2>2 DEF KeepInv, AbsentInv
<1>6. RemovedStaysRemoved' /\ KeptInv'
    BY <1>1, <1>2 DEF KeepInv, RemovedStaysRemoved, KeptInv
<1> QED BY <1>4, <1>5, <1>6 DEF KeepInv

\* A block that is not marked comes back from the database as it was.
LEMMA UnloadKeepsEntities == ASSUME IInv, KeepInv, NEW u \in Blocks, Unload(u) PROVE KeepInv'
<1>1. /\ task.kind = "idle" /\ task.block = Nowhere /\ Nowhere \notin Blocks /\ active[u] = {}
      /\ disk' = Written({u}) /\ dirty' = dirty \ {u}
      /\ stored' = [stored EXCEPT ![u] = disk'[u]]
      /\ UNCHANGED <<objs, active, task, fate>>
    BY ObjectsAssumption DEF Unload, IsIdle, IInv, TaskInv
<1>2. \A b \in Blocks : StoredIn(b) = stored[b] /\ StoredIn(b)' = stored'[b]
    BY <1>1 DEF StoredIn
<1>3. \A id \in DOMAIN objs : objs[id].static # u
    BY <1>1 DEF IInv, StaticExact
<1>4. \A b \in Blocks \ {u} : stored'[b] = stored[b] /\ disk'[b] = disk[b]
    BY <1>1 DEF Written, IInv, TypeOK
<1>5. /\ stored'[u] = disk'[u]
      /\ \A e \in Entities : e \in stored[u] => e \in disk'[u]
      /\ \A e \in Entities : e \in disk'[u] => Held(u, e)
  <2>1. stored'[u] = disk'[u]
    BY <1>1 DEF IInv, TypeOK
  <2>2. \A e \in Entities : e \in stored[u] => e \in disk'[u]
    BY <1>1, <1>2, WrittenHas DEF In, KeepInv
  <2>3. \A e \in Entities : e \in disk'[u] =>
            e \in stored[u] \/ (e \in disk[u] /\ u \notin dirty)
    BY <1>1, <1>3, WrittenTypes
  <2> QED BY <1>2, <2>1, <2>2, <2>3 DEF Held
<1>6. \A b \in Blocks, e \in Entities : Held(b, e)' => Held(b, e)
    BY <1>1, <1>2, <1>4, <1>5 DEF Held
<1>7. SavedInv'
  <2> SUFFICES ASSUME NEW b \in Blocks, b \notin dirty', NEW e \in Entities, In(b, e)'
               PROVE  e \in disk'[b]
    BY DEF SavedInv
  <2>1. CASE b = u
    BY <1>1, <1>2, <1>3, <1>5, <2>1 DEF In
  <2>2. CASE b # u
    <3>1. In(b, e) /\ b \notin dirty
      BY <1>1, <1>2, <1>4, <2>2 DEF In
    <3> QED BY <1>4, <2>2, <3>1 DEF KeepInv, SavedInv
  <2> QED BY <2>1, <2>2
<1>8. AbsentInv'
  <2> SUFFICES ASSUME NEW e \in Entities, ~Present(e)'
               PROVE  /\ fate[e] # "kept"
                      /\ fate[e] \in {"dropped", "stuck"} \/ \A b \in Blocks : ~Held(b, e)'
    BY <1>1 DEF AbsentInv
  <2>1. ~Present(e)
    BY <1>1, <1>2, <1>4, <1>5 DEF Present, Live
  <2> QED BY <1>6, <2>1 DEF KeepInv, AbsentInv
<1>9. RemovedStaysRemoved'
  <2> SUFFICES ASSUME NEW e \in Entities, fate[e] = "removed"
               PROVE  \A b \in Blocks : e \notin stored'[b]
    BY <1>1, <1>2 DEF KeepInv, RemovedStaysRemoved
  <2>1. \A b \in Blocks : e \notin stored[b]
    BY <1>2 DEF KeepInv, RemovedStaysRemoved
  <2>2. ~Held(u, e)
    BY <1>3, RemovedHeld
  <2> QED BY <1>4, <1>5, <2>1, <2>2
<1>10. KeptInv'
    BY <1>1 DEF KeepInv, KeptInv
<1> QED BY <1>7, <1>8, <1>9, <1>10 DEF KeepInv

\* All objects were visited: those to be kept have static data in a block.
LEMMA EndShutdownKeepsEntities == ASSUME IInv, KeepInv, EndShutdown PROVE KeepInv'
<1>1. /\ task.kind = "shutdown" /\ task.todo = {} /\ task.block = Nowhere
      /\ Nowhere \notin Blocks
      /\ disk' = Written(Blocks) /\ dirty' = {} /\ stored' = disk' /\ objs' = <<>>
      /\ task' = [Idle EXCEPT !.kind = "down"]
      /\ fate' = [e \in Entities |->
            IF \E b \in Blocks : \E id \in active[b] :
                    objs[id].entity = e /\ objs[id].removal
            THEN "stuck" ELSE fate[e]]
    BY ObjectsAssumption DEF EndShutdown, IInv, TaskInv
<1>2. DOMAIN objs' = {} /\ task'.block = Nowhere
    BY <1>1 DEF Idle
<1>3. \A b \in Blocks : StoredIn(b) = stored[b] /\ StoredIn(b)' = disk'[b]
    BY <1>1, <1>2 DEF StoredIn
<1>4. SavedInv'
    BY <1>2, <1>3 DEF SavedInv, In
<1>5. AbsentInv'
  <2> SUFFICES ASSUME NEW e \in Entities, ~Present(e)'
               PROVE  /\ fate'[e] # "kept"
                      /\ \A b \in Blocks : ~Held(b, e)'
    BY DEF AbsentInv
  <2>1. \A b \in Blocks : e \notin disk'[b]
    BY <1>3 DEF Present
  <2>2. \A b \in Blocks : ~In(b, e)
    BY <1>1, <2>1, WrittenHas DEF KeepInv
  <2>3. fate[e] = "kept" => ~Live(e)
    BY <1>1, <2>2 DEF KeepInv, KeptInv, Live, In, IInv, TypeOK, ObjectType
  <2>4. fate[e] # "kept"
    BY <2>2, <2>3 DEF KeepInv, AbsentInv, Present, In
  <2>5. fate'[e] # "kept"
    BY <1>1, <2>4
  <2> QED BY <1>3, <2>1, <2>5 DEF Held
<1>6. RemovedStaysRemoved'
  <2> SUFFICES ASSUME NEW e \in Entities, fate'[e] = "removed", NEW b \in Blocks,
                      e \in Written(Blocks)[b]
               PROVE  FALSE
    BY <1>1, <1>2, <1>3 DEF RemovedStaysRemoved
  <2>1. /\ fate[e] = "removed"
        /\ ~\E id \in active[b] : objs[id].entity = e /\ objs[id].removal
    BY <1>1
  <2>2. ~\E id \in DOMAIN objs :
            objs[id].entity = e /\ objs[id].static = b /\ objs[id].removal
    BY <2>1 DEF IInv, StaticExact
  <2>3. ~Held(b, e)
    BY <2>1, <2>2, RemovedHeld
  <2>4. \E id \in DOMAIN objs : objs[id].static = b /\ objs[id].entity = e
    BY <1>3, <2>3, WrittenTypes DEF Held
  <2> QED BY <2>1, <2>2, <2>4 DEF KeepInv, RemovedStaysRemoved
<1>7. KeptInv'
    BY <1>2 DEF KeptInv
<1> QED BY <1>4, <1>5, <1>6, <1>7 DEF KeepInv

LEMMA InitKeep == Init => KeepInv
<1> SUFFICES ASSUME Init PROVE KeepInv
    OBVIOUS
<1>1. /\ DOMAIN objs = {} /\ dirty = {}
      /\ \A e \in Entities : fate[e] = "unborn"
      /\ \A b \in Blocks : StoredIn(b) = {} /\ disk[b] = {}
    BY ObjectsAssumption DEF Init, StoredIn, Idle
<1> QED BY <1>1 DEF KeepInv, SavedInv, AbsentInv, RemovedStaysRemoved, KeptInv, In, Held

LEMMA KeepStep == IInv /\ KeepInv /\ [Next]_vars => KeepInv'
<1> SUFFICES ASSUME IInv, KeepInv, [Next]_vars PROVE KeepInv'
    OBVIOUS
<1>1. CASE Script
    BY <1>1, AddObjectKeepsEntities, ScriptKeeps DEF Script
<1>2. CASE TaskStep
  <2>1. CASE \E id \in Ids : Resave(id)
    BY <2>1, ResaveKeepsEntities
  <2>2. CASE \E id \in Ids, changed, leaves \in BOOLEAN : Deactivate(id, changed, leaves)
    BY <2>2, DeactivateKeepsEntities
  <2>3. CASE \E b \in Blocks : StartActivation(b)
    BY <2>3, StartActivationKeepsEntities
  <2>4. CASE \E e \in Entities : ActivateObject(e)
    BY <2>4, ActivateObjectKeepsEntities
  <2>5. CASE EndShutdown
    BY <2>5, EndShutdownKeepsEntities
  <2>6. CASE (\E id \in Ids : Stays(id)) \/ EndActivation \/ EndSweep \/ Restart
    BY <2>6, LoopsKeep
  <2> QED BY <1>2, <2>1, <2>2, <2>3, <2>4, <2>5, <2>6 DEF TaskStep
<1>3. CASE \E b \in Blocks : Unload(b)
    BY <1>3, UnloadKeepsEntities
<1>4. CASE RemoveRemovedObjects
    BY <1>4, RemoveRemovedKeepsEntities
<1>5. CASE Save
    BY <1>5, SaveKeepsEntities
<1>6. CASE \/ UNCHANGED vars
           \/ \E c \in Clients, seen \in SUBSET Ids : UpdateClient(c, seen)
           \/ \E blocks \in SUBSET Blocks : ManageBlocks(blocks)
           \/ \E b \in Blocks : FinishGen(b)
           \/ Shutdown
    BY <1>6, LoopsKeep
<1> QED BY <1>1, <1>2, <1>3, <1>4, <1>5, <1>6 DEF Next

LEMMA EntitiesKept == Spec => []KeepInv
<1> QED BY InitKeep, KeepStep, Invariance, PTL DEF Spec

\* An entity that is to be saved and was not removed is active or stored, after
\* any interleaving of scripts with the loops, saves, unloads and restarts,
\* unless a limit made the server drop it.
THEOREM NothingIsLost == Spec => []NothingLost
<1>1. AbsentInv => NothingLost
    BY DEF AbsentInv, NothingLost, Present, Live, Places
<1> QED BY <1>1, EntitiesKept, PTL DEF KeepInv

\* A removed entity leaves no static data, unless it was removed while its
\* deactivation or the shutdown was under way.
THEOREM RemovalCorrect == Spec => []RemovedStaysRemoved
<1> QED BY EntitiesKept, PTL DEF KeepInv

\* A block that is not marked as modified is in the database as it is in memory.
THEOREM UnmodifiedCorrect == Spec => []UnmodifiedIsOnDisk
<1>1. IInv /\ KeepInv => UnmodifiedIsOnDisk
  <2> SUFFICES ASSUME IInv, KeepInv, NEW b \in Blocks \ dirty, NEW e,
                      ~ (e \in Entities /\ fate[e] \in {"dropped", "stuck"})
               PROVE  e \in disk[b] <=>
                        e \in StoredIn(b) \cup {objs[id].entity : id \in active[b]}
    BY DEF UnmodifiedIsOnDisk
  <2>1. /\ active[b] = {id \in DOMAIN objs : objs[id].static = b}
        /\ disk[b] \subseteq Entities
        /\ StoredIn(b) \subseteq Entities
        /\ \A id \in DOMAIN objs : objs[id].entity \in Entities
    BY StoredInSubset DEF IInv, TypeOK, ObjectType, StaticExact
  <2>2. In(b, e) <=> e \in StoredIn(b) \cup {objs[id].entity : id \in active[b]}
    BY <2>1 DEF In
  <2>3. In(b, e) => e \in Entities
    BY <2>1 DEF In
  <2>4. In(b, e) => e \in disk[b]
    BY <2>3 DEF KeepInv, SavedInv
  <2>5. ASSUME e \in disk[b] PROVE In(b, e)
    <3>1. e \in Entities /\ Held(b, e)
      BY <2>1, <2>5 DEF Held
    <3>2. Present(e)
      BY <2>1, <3>1 DEF KeepInv, AbsentInv
    <3> QED BY <3>1, <3>2, WhereHeld DEF Present, Live, In
  <2> QED BY <2>2, <2>4, <2>5
<1> QED BY <1>1, EntitiesKept, Invariance, PTL
=============================================================================
