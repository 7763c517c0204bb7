---------------------------- MODULE ActiveObjects ----------------------------
(***************************************************************************)
(* Active objects (entities that exist as ServerActiveObject, with an id)  *)
(* and static ones (data kept in blocks): ServerEnvironment activates,     *)
(* deactivates and removes objects, and clients are told of them.          *)
(*                                                                         *)
(* A block keeps static data in m_stored and, for objects that are active, *)
(* in m_active by id.  An entity is followed through all its incarnations. *)
(* The environment does one thing at a time (m_env_mutex), but its loops   *)
(* call Lua, which adds, moves and removes objects meanwhile: task is the  *)
(* loop under way.                                                         *)
(***************************************************************************)
EXTENDS Integers, FiniteSets

CONSTANTS
    Entities,       \* what scripts add: each at most once
    Ids,            \* ids of active objects
    Blocks,
    Clients,
    MaxObjects,     \* max_objects_per_block
    Nowhere         \* m_static_block when m_static_exists is false

ASSUME ObjectsAssumption == MaxObjects \in Nat \ {0} /\ Nowhere \notin Blocks

VARIABLES
    objs,           \* m_active_objects: objects by id
    stored,         \* per block: entities in m_stored
    active,         \* per block: ids in m_active
    disk,           \* per block: entities in the map database
    dirty,          \* blocks with m_modified
    activeBlocks,   \* m_active_blocks
    knows,          \* per client: m_known_objects
    task,           \* the loop under way
    fate,           \* history: what became of each entity
    cut             \* history: ids taken from objects that clients know

mapVars == <<stored, active, disk, dirty>>
vars == <<objs, mapVars, activeBlocks, knows, task, fate, cut>>

\* An object: its entity, the block it is in, the one that has its static
\* data, isStaticAllowed, m_pending_removal, m_pending_deactivation and
\* m_known_by_count.
ObjectType ==
    [entity : Entities, pos : Blocks, static : Blocks \cup {Nowhere}, saves : BOOLEAN,
     removal : BOOLEAN, deactivation : BOOLEAN, known : Nat]

Object(e, b, static, saves) ==
    [entity |-> e, pos |-> b, static |-> static, saves |-> saves,
     removal |-> FALSE, deactivation |-> FALSE, known |-> 0]

Gone(o) == o.removal \/ o.deactivation
FreeIds == Ids \ DOMAIN objs
Full(b) == Cardinality(stored[b]) >= MaxObjects

\* objs with o under id, and without the ids.
Put(id, o)   == [i \in DOMAIN objs \cup {id} |-> IF i = id THEN o ELSE objs[i]]
Delete(ids)  == [i \in DOMAIN objs \ ids |-> objs[i]]

\* Idle: nothing under way.  A sweep still has the ids in todo to visit, then
\* come the blocks to activate.  An activation still has the entities in left.
Idle == [kind |-> "idle", todo |-> {}, blocks |-> {}, block |-> Nowhere, left |-> {}]
IsIdle == task.kind = "idle"
LuaMayRun == task.kind # "down"

Init ==
    /\ objs = <<>>
    /\ stored = [b \in Blocks |-> {}] /\ active = [b \in Blocks |-> {}]
    /\ disk = [b \in Blocks |-> {}] /\ dirty = {}
    /\ activeBlocks = {}
    /\ knows = [c \in Clients |-> {}]
    /\ task = Idle
    /\ fate = [e \in Entities |-> "unborn"]
    /\ cut = {}
-----------------------------------------------------------------------------
(***************************************************************************)
(* What scripts do.                                                        *)
(***************************************************************************)
\* What becomes of an entity that is active: it is to be kept if its static
\* data is to be saved.
Kept(saves) == IF saves THEN "kept" ELSE "loose"

\* core.add_entity: addActiveObject, addActiveObjectRaw.
AddObject(e, b, saves) ==
    /\ LuaMayRun /\ fate[e] = "unborn"
    /\ \E id \in FreeIds :
        /\ objs' = Put(id, Object(e, b, IF saves THEN b ELSE Nowhere, saves))
        /\ active' = IF saves THEN [active EXCEPT ![b] = @ \cup {id}] ELSE active
    /\ dirty' = IF saves THEN dirty \cup {b} ELSE dirty
    /\ fate' = [fate EXCEPT ![e] = Kept(saves)]
    /\ UNCHANGED <<stored, disk, activeBlocks, knows, task, cut>>

\* ObjectRef::remove: markForRemoval.
Remove(id) ==
    /\ LuaMayRun /\ id \in DOMAIN objs /\ ~Gone(objs[id])
    /\ objs' = [objs EXCEPT ![id].removal = TRUE]
    /\ fate' = [fate EXCEPT ![objs[id].entity] = "removed"]
    /\ UNCHANGED <<mapVars, activeBlocks, knows, task, cut>>

Move(id, b) ==
    /\ LuaMayRun /\ id \in DOMAIN objs /\ ~Gone(objs[id])
    /\ objs' = [objs EXCEPT ![id].pos = b]
    /\ UNCHANGED <<mapVars, activeBlocks, knows, task, fate, cut>>

\* set_properties changes static_save.  An object whose static data was not to
\* be saved for a while is not promised to be kept.
SetStaticSave(id, saves) ==
    /\ LuaMayRun /\ id \in DOMAIN objs /\ ~Gone(objs[id])
    /\ objs' = [objs EXCEPT ![id].saves = saves]
    /\ fate' = IF saves \/ fate[objs[id].entity] # "kept" THEN fate
               ELSE [fate EXCEPT ![objs[id].entity] = "loose"]
    /\ UNCHANGED <<mapVars, activeBlocks, knows, task, cut>>
-----------------------------------------------------------------------------
(***************************************************************************)
(* Clients.                                                                *)
(***************************************************************************)
Knowers(id) == {c \in Clients : id \in knows[c]}

\* m_known_by_count of an object that a client forgets.
Forgotten(known) == IF known > 0 THEN known - 1 ELSE known

\* Server::SendActiveObjectRemoveAdd, when the objects seen are in range, and
\* ClientInterface::DeleteClient, when it sees none.
UpdateClient(c, seen) ==
    /\ IsIdle /\ seen # knows[c]
    /\ seen \subseteq {id \in DOMAIN objs : ~Gone(objs[id])}
    /\ knows' = [knows EXCEPT ![c] = seen]
    /\ objs' = [id \in DOMAIN objs |->
        [objs[id] EXCEPT !.known =
            IF id \in seen \ knows[c] THEN @ + 1
            ELSE IF id \in knows[c] \ seen THEN Forgotten(@) ELSE @]]
    /\ cut' = {id \in cut : \E d \in Clients : id \in knows'[d]}
    /\ UNCHANGED <<mapVars, activeBlocks, task, fate>>
-----------------------------------------------------------------------------
(***************************************************************************)
(* The loops of ServerEnvironment::step.                                   *)
(***************************************************************************)
\* Broken variant: objects that clients know are deleted too.
Dead_Known == {id \in DOMAIN objs : Gone(objs[id])}

\* The objects removeRemovedObjects deletes, and those of them whose static
\* data it stores: the removal of an object goes before its deactivation.
Dead == {id \in DOMAIN objs : Gone(objs[id]) /\ objs[id].known = 0}

\* Broken variants: the deactivation goes before the removal; no data is stored.
Storing_All  == {id \in Dead : objs[id].static # Nowhere}
Storing_None == {}

Storing == {id \in Dead : ~objs[id].removal /\ objs[id].static # Nowhere}

\* removeRemovedObjects.  Static data of objects to be removed is deleted
\* (deleteStaticFromBlock), that of deactivated ones is stored
\* (MapBlock::storeActiveObject), unless a client knows the object.
RemoveRemovedObjects ==
    LET removed == {id \in DOMAIN objs : objs[id].removal}
        changed == removed \cup Storing
    IN  /\ IsIdle
        /\ objs' = [id \in DOMAIN objs \ Dead |->
                IF id \in removed THEN [objs[id] EXCEPT !.static = Nowhere] ELSE objs[id]]
        /\ active' = [b \in Blocks |-> active[b] \ {id \in changed : objs[id].static = b}]
        /\ stored' = [b \in Blocks |-> stored[b] \cup
                {objs[id].entity : id \in {i \in Storing : objs[i].static = b}}]
        /\ dirty' = dirty \cup {b \in Blocks : \E id \in changed : objs[id].static = b}
        /\ UNCHANGED <<disk, activeBlocks, knows, task, fate, cut>>

\* The active blocks change (ActiveBlockList::update; blocks that are not
\* loaded are taken out again): deactivateFarObjects, then the blocks added
\* are activated.
ManageBlocks(blocks) ==
    /\ IsIdle
    /\ activeBlocks' = blocks
    /\ task' = [Idle EXCEPT !.kind = "deactivate", !.todo = DOMAIN objs,
                            !.blocks = blocks \ activeBlocks]
    /\ UNCHANGED <<objs, mapVars, knows, fate, cut>>

\* EmergeThread::finishGen: a new block is activated, active or not.
FinishGen(b) ==
    /\ IsIdle /\ stored[b] # {}
    /\ task' = [Idle EXCEPT !.kind = "deactivate", !.blocks = {b}]
    /\ UNCHANGED <<objs, mapVars, activeBlocks, knows, fate, cut>>
-----------------------------------------------------------------------------
(***************************************************************************)
(* deactivateFarObjects: the visit of one object.  At the shutdown all     *)
(* objects are deactivated by force.                                       *)
(***************************************************************************)
Forced == task.kind = "shutdown"
Visiting(id) ==
    /\ task.kind \in {"deactivate", "shutdown"} /\ task.todo # {}
    /\ id \in task.todo
Visited(id) == task' = [task EXCEPT !.todo = @ \ {id}]

\* deleteStaticFromBlock.
WithoutStatic(id) ==
    [b \in Blocks |-> IF b = objs[id].static THEN active[b] \ {id} ELSE active[b]]

\* The static data is in a block that is not active, the object in one that is.
Strayed(o) ==
    /\ o.saves /\ o.static # Nowhere
    /\ o.static \notin activeBlocks /\ o.pos \in activeBlocks

\* An object that is not saved stays while its block is in memory.
Far(o, inMemory) ==
    /\ ~Strayed(o)
    /\ o.pos \notin activeBlocks
    /\ ~o.saves => ~inMemory

\* The object is not there any more, or stays as it is.
Stays(id) ==
    /\ Visiting(id)
    /\ \/ id \notin DOMAIN objs
       \/ /\ id \in DOMAIN objs /\ ~Forced
          /\ \/ Gone(objs[id])
             \/ ~Strayed(objs[id]) /\ \E inMemory \in BOOLEAN : ~Far(objs[id], inMemory)
    /\ Visited(id)
    /\ UNCHANGED <<objs, mapVars, activeBlocks, knows, fate, cut>>

\* Broken variant: a full block counts as the one that has the data.
ResavedIn_Full(o) == o.pos

\* Where saveStaticToBlock leaves the static data of an object.
ResavedIn(o) == IF Full(o.pos) THEN Nowhere ELSE o.pos

\* Broken variant: only the block that gets the data is marked.
Moved_To(from, to) == {to} \ {Nowhere}

\* The blocks marked as modified when static data moves.
Moved(from, to) == {from, to} \ {Nowhere}

\* Its static data moves to the block it is in, unless that is full.
Resave(id) ==
    /\ Visiting(id) /\ id \in DOMAIN objs /\ ~Forced
    /\ ~Gone(objs[id]) /\ Strayed(objs[id])
    /\ LET b == ResavedIn(objs[id])
       IN  /\ objs' = [objs EXCEPT ![id].static = b]
           /\ active' = [d \in Blocks |->
                IF d = objs[id].pos /\ ~Full(d) THEN active[d] \cup {id}
                ELSE WithoutStatic(id)[d]]
           /\ dirty' = dirty \cup Moved(objs[id].static, b)
    /\ Visited(id)
    /\ UNCHANGED <<stored, disk, activeBlocks, knows, fate, cut>>

\* It is deactivated: its static data goes to the block it is in, as stored or,
\* while a client knows the object, by id.  The blocks are only marked as
\* modified when the static data moves or has changed.  on_deactivate may
\* remove the object.
Deactivate(id, changed, leaves) ==
    /\ Visiting(id) /\ id \in DOMAIN objs
    /\ Forced \/ (~Gone(objs[id]) /\ \E inMemory \in BOOLEAN : Far(objs[id], inMemory))
    /\ leaves => ~Gone(objs[id])
    /\ changed => objs[id].saves /\ objs[id].static = objs[id].pos
    /\ LET o       == objs[id]
           b       == o.pos
           pending == o.known > 0 /\ ~Forced
           refused == o.saves /\ Full(b)
           saved   == o.saves /\ ~Full(b)
           stays   == pending /\ ~refused
           written == ~o.saves \/ o.static # b \/ changed
       IN  /\ objs' = IF ~stays THEN Delete({id})
                      ELSE Put(id, [o EXCEPT !.deactivation = TRUE, !.removal = @ \/ leaves,
                                             !.static = IF saved THEN b ELSE Nowhere])
           /\ active' = [d \in Blocks |->
                IF d = b /\ saved /\ pending THEN active[d] \cup {id}
                ELSE WithoutStatic(id)[d]]
           /\ stored' = IF saved /\ ~pending
                        THEN [stored EXCEPT ![b] = @ \cup {o.entity}] ELSE stored
           /\ dirty' = IF ~written THEN dirty
                       ELSE dirty \cup Moved(o.static, IF saved THEN b ELSE Nowhere)
           /\ fate' = [fate EXCEPT ![o.entity] =
                IF ~stays /\ (leaves \/ o.removal) THEN "stuck"
                ELSE IF leaves \/ o.removal THEN "removed"
                ELSE IF refused /\ ~stays THEN "dropped" ELSE @]
           /\ cut' = IF stays \/ Knowers(id) = {} THEN cut ELSE cut \cup {id}
    /\ Visited(id)
    /\ UNCHANGED <<disk, activeBlocks, knows>>
-----------------------------------------------------------------------------
(***************************************************************************)
(* activateObjects.                                                        *)
(***************************************************************************)
\* The next block (MapBlock::onObjectsActivation): when it has too many
\* stored objects all of them are deleted.
StartActivation(b) ==
    /\ task.kind = "deactivate" /\ task.todo = {} /\ b \in task.blocks
    /\ IF Cardinality(stored[b]) > MaxObjects
       THEN /\ stored' = [stored EXCEPT ![b] = {}]
            /\ fate' = [e \in Entities |-> IF e \in stored[b] THEN "dropped" ELSE fate[e]]
            /\ task' = [task EXCEPT !.blocks = @ \ {b}]
            /\ dirty' = dirty \cup {b}
       ELSE /\ task' = [task EXCEPT !.kind = "activate", !.blocks = @ \ {b},
                                    !.block = b, !.left = stored[b]]
            /\ UNCHANGED <<stored, dirty, fate>>
    /\ UNCHANGED <<objs, active, disk, activeBlocks, knows, cut>>

\* One stored object becomes active, or is lost if there is no id for it.  The
\* block counts as unchanged.  What on_activate does, also to static_save, is a
\* step of a script.
ActivateObject(e) ==
    /\ task.kind = "activate" /\ e \in task.left
    /\ \/ \E id \in FreeIds :
            /\ objs' = Put(id, Object(e, task.block, task.block, TRUE))
            /\ active' = [active EXCEPT ![task.block] = @ \cup {id}]
            /\ fate' = IF fate[e] = "stuck" THEN fate ELSE [fate EXCEPT ![e] = "kept"]
       \/ /\ FreeIds = {}
          /\ fate' = [fate EXCEPT ![e] = "dropped"]
          /\ UNCHANGED <<objs, active>>
    /\ task' = [task EXCEPT !.left = @ \ {e}]
    /\ UNCHANGED <<stored, disk, dirty, activeBlocks, knows, cut>>

\* Broken variant: m_stored is not cleared.
EndActivation_Keep ==
    /\ task.kind = "activate" /\ task.left = {}
    /\ task' = [task EXCEPT !.kind = "deactivate", !.block = Nowhere]
    /\ UNCHANGED <<objs, mapVars, activeBlocks, knows, fate, cut>>

\* The list of stored objects is cleared.
EndActivation ==
    /\ task.kind = "activate" /\ task.left = {}
    /\ stored' = [stored EXCEPT ![task.block] = {}]
    /\ task' = [task EXCEPT !.kind = "deactivate", !.block = Nowhere]
    /\ UNCHANGED <<objs, active, disk, dirty, activeBlocks, knows, fate, cut>>

\* The step goes on.
EndSweep ==
    /\ task.kind = "deactivate" /\ task.todo = {} /\ task.blocks = {}
    /\ task' = Idle
    /\ UNCHANGED <<objs, mapVars, activeBlocks, knows, fate, cut>>
-----------------------------------------------------------------------------
(***************************************************************************)
(* Saving.                                                                 *)
(***************************************************************************)
\* What is written of a block (StaticObjectList::serialize), and the database
\* when the modified ones of bs are.
Content(b) == stored[b] \cup {objs[id].entity : id \in active[b]}
Written(bs) == [b \in Blocks |-> IF b \in bs \cap dirty THEN Content(b) ELSE disk[b]]

\* ServerMap::save, once in a while.
Save ==
    /\ IsIdle /\ dirty # {}
    /\ disk' = Written(Blocks) /\ dirty' = {}
    /\ UNCHANGED <<objs, stored, active, activeBlocks, knows, task, fate, cut>>

\* Map::timerUpdate: a block nobody has used for long leaves the memory, and is
\* read again when it is wanted.  Its objects were deactivated long before.
Unload(b) ==
    /\ IsIdle /\ b \notin activeBlocks /\ active[b] = {}
    /\ disk' = Written({b}) /\ dirty' = dirty \ {b}
    /\ stored' = [stored EXCEPT ![b] = disk'[b]]
    /\ UNCHANGED <<objs, active, activeBlocks, knows, task, fate, cut>>
-----------------------------------------------------------------------------
(***************************************************************************)
(* The end of the server, and its next start.                              *)
(***************************************************************************)
\* ServerEnvironment::deactivateBlocksAndObjects: the clients were kicked.
Shutdown ==
    /\ IsIdle
    /\ activeBlocks' = {}
    /\ task' = [Idle EXCEPT !.kind = "shutdown", !.todo = DOMAIN objs]
    /\ UNCHANGED <<objs, mapVars, knows, fate, cut>>

\* ~ServerEnvironment: the map is saved, with the static data of objects that
\* callbacks have added meanwhile, even of those removed again.
EndShutdown ==
    /\ task.kind = "shutdown" /\ task.todo = {}
    /\ disk' = Written(Blocks) /\ dirty' = {}
    /\ stored' = disk'
    /\ fate' = [e \in Entities |->
            IF \E b \in Blocks : \E id \in active[b] :
                    objs[id].entity = e /\ objs[id].removal
            THEN "stuck" ELSE fate[e]]
    /\ active' = [b \in Blocks |-> {}]
    /\ objs' = <<>>
    /\ knows' = [c \in Clients |-> {}] /\ cut' = {}
    /\ task' = [Idle EXCEPT !.kind = "down"]
    /\ UNCHANGED activeBlocks

Restart ==
    /\ task.kind = "down"
    /\ task' = Idle
    /\ UNCHANGED <<objs, mapVars, activeBlocks, knows, fate, cut>>
-----------------------------------------------------------------------------
Script ==
    \/ \E e \in Entities, b \in Blocks, saves \in BOOLEAN : AddObject(e, b, saves)
    \/ \E id \in Ids :
        \/ Remove(id)
        \/ \E b \in Blocks : Move(id, b)
        \/ \E saves \in BOOLEAN : SetStaticSave(id, saves)

TaskStep ==
    \/ \E id \in Ids : Stays(id) \/ Resave(id)
        \/ \E changed, leaves \in BOOLEAN : Deactivate(id, changed, leaves)
    \/ \E b \in Blocks : StartActivation(b)
    \/ \E e \in Entities : ActivateObject(e)
    \/ EndActivation \/ EndSweep \/ EndShutdown \/ Restart

Next ==
    \/ Script \/ TaskStep
    \/ \E c \in Clients, seen \in SUBSET Ids : UpdateClient(c, seen)
    \/ \E blocks \in SUBSET Blocks : ManageBlocks(blocks)
    \/ \E b \in Blocks : FinishGen(b)
    \/ \E b \in Blocks : Unload(b)
    \/ RemoveRemovedObjects \/ Save \/ Shutdown

Spec == Init /\ [][Next]_vars

-----------------------------------------------------------------------------
(***************************************************************************)
(* Properties.                                                             *)
(***************************************************************************)
\* Type invariant: objects, static data, what clients know and the loop under
\* way are built from the entities, ids and blocks there are.
TypeOK ==
    /\ DOMAIN objs \subseteq Ids
    /\ \A id \in DOMAIN objs : objs[id] \in ObjectType
    /\ stored \in [Blocks -> SUBSET Entities] /\ active \in [Blocks -> SUBSET Ids]
    /\ disk \in [Blocks -> SUBSET Entities] /\ dirty \subseteq Blocks
    /\ activeBlocks \subseteq Blocks /\ knows \in [Clients -> SUBSET Ids]
    /\ task \in [kind : {"idle", "deactivate", "activate", "shutdown", "down"},
                 todo : SUBSET Ids, blocks : SUBSET Blocks,
                 block : Blocks \cup {Nowhere}, left : SUBSET Entities]
    /\ fate \in [Entities -> {"unborn", "kept", "loose", "removed", "stuck", "dropped"}]
    /\ cut \subseteq Ids

\* m_static_exists and m_static_block of an object say where its static data
\* is, and there is no static data of objects that are not there: after any
\* moves between active and inactive blocks, full blocks, removals and
\* callbacks in the middle of a sweep.
StaticExact ==
    \A b \in Blocks : active[b] = {id \in DOMAIN objs : objs[id].static = b}

\* Where an entity is: active, or stored and not yet activated.
StoredIn(b) == IF task.block = b THEN task.left ELSE stored[b]
Places(e) ==
    {id \in DOMAIN objs : objs[id].entity = e} \cup {b \in Blocks : e \in StoredIn(b)}

\* No entity is doubled: it is active once or stored once.
NoDuplicate == \A e \in Entities : Cardinality(Places(e)) <= 1

\* No entity is lost: one that was added, is to be saved and was not removed
\* is active or stored, unless a limit on stored objects or ids made the
\* server drop it.
NothingLost == \A e \in Entities : fate[e] = "kept" => Places(e) # {}

\* A removed entity does not come back: no static data of it is stored, and an
\* object of it is only waiting until the clients forget it.  The exception:
\* it was removed while its deactivation or the shutdown was under way.
RemovedStaysRemoved ==
    \A e \in Entities : fate[e] = "removed" =>
        /\ \A b \in Blocks : e \notin StoredIn(b)
        /\ \A id \in DOMAIN objs : objs[id].entity = e => objs[id].removal

\* A block that is not marked as modified is in the database as it is in memory,
\* so that nothing changes when it is unloaded or the server stops: also after
\* activations, and deactivations of objects that did not change, which do not
\* mark it.
UnmodifiedIsOnDisk ==
    \A b \in Blocks \ dirty :
        LET dropped == {e \in Entities : fate[e] \in {"dropped", "stuck"}}
            now     == StoredIn(b) \cup {objs[id].entity : id \in active[b]}
        IN  disk[b] \ dropped = now \ dropped

\* Without the exception, as lua_api.md says of remove().
NeverComesBack ==
    \A e \in Entities : fate[e] \in {"removed", "stuck"} =>
        \A b \in Blocks : e \notin StoredIn(b)

\* An id is kept as long as a client knows the object by it, and the object
\* knows how many clients do, except when a full block made the server cut the
\* object short.
KnownExact ==
    task.kind \notin {"shutdown", "down"} =>
        \A id \in Ids \ cut :
            IF id \in DOMAIN objs THEN objs[id].known = Cardinality(Knowers(id))
            ELSE Knowers(id) = {}
=============================================================================
