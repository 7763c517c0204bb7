---------------------------- MODULE PlayerSession -----------------------------
(***************************************************************************)
(* How a player joins and leaves: the states of a client                   *)
(* (RemoteClient::notifyEvent), the handlers of the packets that log a     *)
(* client in, the players of ServerEnvironment, and the database.          *)
(*                                                                         *)
(* A player lives as long as its object: a session that ends only marks    *)
(* the object, and removeRemovedObjects saves and frees both once no       *)
(* client knows the object.  The player database keeps a number for each   *)
(* name, how far it has got; 0 is a name without a record.                 *)
(***************************************************************************)
EXTENDS Integers, FiniteSets, Sequences

CONSTANTS
    Peers,          \* connections; the id of each is used once
    Names,          \* names of players
    NoPeer,         \* PEER_ID_INEXISTENT
    MaxUsers,       \* max_users
    MaxProgress     \* bound: steps forward under one name

ASSUME SessionAssumption == NoPeer \notin Peers /\ MaxProgress \in Nat

VARIABLES
    conn,           \* per peer: what the connection has of it
    asked,          \* peers that are to be disconnected
    client,         \* m_clients: the RemoteClient of each peer
    players,        \* m_players
    db,             \* the player database
    auth,           \* per name: who has set the password last, if anybody
    aborted,        \* FATAL_ERROR_IF has ended the server
    epoch           \* history, per name: erased an odd number of times

vars == <<conn, asked, client, players, db, auth, aborted, epoch>>

\* CS_InitDone and CS_Disconnecting are left again inside the handler that
\* enters them, so no other handler ever finds them.
States == {"None", "Denied", "Created", "HelloSent", "AwaitingInit2", "DefinitionsSent",
           "Active", "SudoMode"}
\* The name of a client that has not said it yet is NoPeer.
NoClient == [state |-> "None", name |-> NoPeer, allowed |-> "none", mech |-> "none"]
NewClient == [NoClient EXCEPT !.state = "Created"]

\* The states from CS_HelloSent and from CS_InitDone on.
HelloStates == {"HelloSent", "AwaitingInit2", "DefinitionsSent", "Active", "SudoMode"}
InitStates  == {"DefinitionsSent", "Active", "SudoMode"}

\* A RemotePlayer with its PlayerSAO.  One without a peer waits for its removal.
Player(n, p, progress) == [name |-> n, peer |-> p, progress |-> progress]

Init ==
    /\ conn = [p \in Peers |-> "new"] /\ asked = {}
    /\ client = [p \in Peers |-> NoClient]
    /\ players = <<>>
    /\ db = [n \in Names |-> 0] /\ auth = [n \in Names |-> NoPeer]
    /\ aborted = FALSE /\ epoch = [n \in Names |-> FALSE]
-----------------------------------------------------------------------------
(***************************************************************************)
(* RemoteClient::notifyEvent.                                              *)
(***************************************************************************)
\* The next state for each event besides Disconnect and SetDenied, which every
\* state here knows; others throw.  In other states no event has an effect.
Transitions ==
    [Created         |-> [Hello          |-> "HelloSent"],
     HelloSent       |-> [AuthAccept     |-> "AwaitingInit2"],
     AwaitingInit2   |-> [GotInit2       |-> "DefinitionsSent"],
     DefinitionsSent |-> [SetClientReady |-> "Active"],
     Active          |-> [SudoSuccess    |-> "SudoMode"],
     SudoMode        |-> [SudoLeave      |-> "Active"]]

Throws(c, event) ==
    c.state \in DOMAIN Transitions /\ event \notin DOMAIN Transitions[c.state]

\* resetChosenMech ends the authentication under way.
After(c, event) ==
    IF c.state \notin DOMAIN Transitions \/ Throws(c, event) THEN c
    ELSE [c EXCEPT !.state = Transitions[c.state][event],
                   !.mech = IF event \in {"AuthAccept", "SudoSuccess"} THEN "none" ELSE @]

Denied(c) ==
    IF c.state \notin DOMAIN Transitions THEN c
    ELSE [c EXCEPT !.state = "Denied",
                   !.mech = IF c.state = "HelloSent" THEN "none" ELSE @]

\* Server::DenyAccess.
DenyAccess(p) ==
    /\ client' = [client EXCEPT ![p] = Denied(@)]
    /\ asked' = asked \cup {p}

Event(p, event) ==
    IF Throws(client[p], event) THEN DenyAccess(p)
    ELSE /\ client' = [client EXCEPT ![p] = After(@, event)]
         /\ UNCHANGED asked
-----------------------------------------------------------------------------
(***************************************************************************)
(* The players of ServerEnvironment.                                       *)
(***************************************************************************)
Named(n) == {i \in DOMAIN players : players[i].name = n}
WithPeer(p) == {i \in DOMAIN players : players[i].peer = p}
FirstOf(S) == CHOOSE i \in S : \A j \in S : i <= j
LastOf(S) == CHOOSE i \in S : \A j \in S : j <= i

\* getPlayer(name) looks at the first player of the name only.
Connected(n) == Named(n) # {} /\ players[FirstOf(Named(n))].peer # NoPeer

\* saveLoadedPlayers.
Saved ==
    [n \in Names |-> IF Named(n) = {} THEN db[n] ELSE players[LastOf(Named(n))].progress]
-----------------------------------------------------------------------------
(***************************************************************************)
(* The connection: a peer comes, is lost or disconnected, and the server   *)
(* thread gets the events of it and its packets in their order.            *)
(***************************************************************************)
Running == ~aborted
HasClient(p) == client[p].state # "None"

\* A packet of p is handled; the peer may be gone already.
Handles(p) == Running /\ conn[p] \in {"up", "down"} /\ HasClient(p)

\* Connection::createPeer, Server::peerAdded.
PeerAdded(p) ==
    /\ Running /\ conn[p] = "new"
    /\ conn' = [conn EXCEPT ![p] = "up"]
    /\ client' = [client EXCEPT ![p] = NewClient]
    /\ UNCHANGED <<asked, players, db, auth, aborted, epoch>>

PeerLost(p) ==
    /\ Running /\ conn[p] = "up"
    /\ conn' = [conn EXCEPT ![p] = "down"]
    /\ UNCHANGED <<asked, client, players, db, auth, aborted, epoch>>

\* Broken variant: the players stay as they are.
Disconnected_Never(p) == players

\* PlayerSAO::disconnected.
Disconnected(p) ==
    [i \in DOMAIN players |->
        IF players[i].peer = p THEN [players[i] EXCEPT !.peer = NoPeer] ELSE players[i]]

\* Server::deletingPeer, DeleteClient.
DeletingPeer(p) ==
    /\ Running /\ conn[p] = "down"
    /\ conn' = [conn EXCEPT ![p] = "gone"]
    /\ players' = Disconnected(p)
    /\ client' = [client EXCEPT ![p] = NoClient]
    /\ asked' = asked \ {p}
    /\ UNCHANGED <<db, auth, aborted, epoch>>

\* Broken variant: those that nobody has noticed yet may stay.
Lingering_Denied == {"Denied"}

Lingering == {"Denied", "Created"}

\* ClientInterface::step: clients that are not on their way in.
Linger(p) ==
    /\ Running /\ conn[p] = "up" /\ p \notin asked /\ client[p].state \in Lingering
    /\ asked' = asked \cup {p}
    /\ UNCHANGED <<conn, client, players, db, auth, aborted, epoch>>
-----------------------------------------------------------------------------
(***************************************************************************)
(* Packets of a client that logs in.                                       *)
(***************************************************************************)
UserLimitReached == Cardinality({p \in Peers : client[p].state \in HelloStates}) >= MaxUsers

\* handleCommand_Init.  ok: versions, name and scripts are content.
Hello(c, n) ==
    After([c EXCEPT !.name = n, !.mech = "none",
                    !.allowed = IF auth[n] = NoPeer THEN "first" ELSE "srp"], "Hello")

HandleInit(p, n, ok) ==
    /\ Handles(p) /\ conn[p] = "up" /\ client[p].state = "Created"
    /\ IF ok /\ ~Connected(n) /\ ~UserLimitReached
       THEN client' = [client EXCEPT ![p] = Hello(@, n)] /\ UNCHANGED asked
       ELSE DenyAccess(p)
    /\ UNCHANGED <<conn, players, db, auth, aborted, epoch>>

\* Broken variant: who was allowed to register in handleCommand_Init still is.
Taken_Never(n) == FALSE

Taken(n) == auth[n] # NoPeer

\* handleCommand_FirstSrp, to register.
Register(p, ok) ==
    /\ Handles(p) /\ conn[p] = "up" /\ client[p].state = "HelloSent"
    /\ LET c == client[p] IN
       IF c.allowed = "first" /\ ok /\ ~Taken(c.name)
       THEN /\ auth' = [auth EXCEPT ![c.name] = p]
            /\ client' = [client EXCEPT ![p] = After([c EXCEPT !.allowed = "srp"], "AuthAccept")]
            /\ UNCHANGED asked
       ELSE DenyAccess(p) /\ UNCHANGED auth
    /\ UNCHANGED <<conn, players, db, aborted, epoch>>

\* handleCommand_FirstSrp, to change the password.
ChangePassword(p, ok) ==
    /\ Handles(p) /\ conn[p] = "up" /\ client[p].state = "SudoMode"
    /\ client' = [client EXCEPT ![p] = After(@, "SudoLeave")]
    /\ auth' = IF ok THEN [auth EXCEPT ![client[p].name] = p] ELSE auth
    /\ UNCHANGED <<conn, asked, players, db, aborted, epoch>>

\* An attempt to authenticate that fails: a login is denied, while sudo mode
\* only is, and the client goes on.
Authenticates(p) == Handles(p) /\ client[p].state \in {"HelloSent", "Active"}
AuthFails(p, c) ==
    IF c.state = "HelloSent" THEN DenyAccess(p)
    ELSE client' = [client EXCEPT ![p] = c] /\ UNCHANGED asked

\* handleCommand_SrpBytesA.
SrpBytesA(p, ok) ==
    /\ Authenticates(p) /\ conn[p] = "up"
    /\ LET c == client[p] IN
       IF c.mech = "none" /\ c.allowed = "srp" /\ ok
       THEN client' = [client EXCEPT ![p].mech = "srp"] /\ UNCHANGED asked
       ELSE AuthFails(p, c)
    /\ UNCHANGED <<conn, players, db, auth, aborted, epoch>>

\* handleCommand_SrpBytesM, with a proof that is right, wrong or of the wrong size.
SrpBytesM(p, proof) ==
    /\ Authenticates(p)
    /\ LET c == client[p] IN
       IF c.mech = "none" THEN AuthFails(p, c)
       ELSE \/ proof = "short" /\ DenyAccess(p)
            \/ proof = "wrong" /\ AuthFails(p, [c EXCEPT !.mech = "none"])
            \/ proof = "right" /\ Event(p, IF c.state = "Active" THEN "SudoSuccess"
                                           ELSE "AuthAccept")
    /\ UNCHANGED <<conn, players, db, auth, aborted, epoch>>

\* handleCommand_Init2.  In any state but the right one the client is denied.
HandleInit2(p) ==
    /\ Handles(p)
    /\ Event(p, "GotInit2")
    /\ UNCHANGED <<conn, players, db, auth, aborted, epoch>>
-----------------------------------------------------------------------------
(***************************************************************************)
(* handleCommand_ClientReady: StageTwoClientInit and emergePlayer.         *)
(***************************************************************************)
\* emergePlayer: nobody is connected with the name or with the peer.
Emerges(p) == ~Connected(client[p].name) /\ WithPeer(p) = {}

ClientReady(p) == Handles(p) /\ client[p].state \in InitStates

\* The name plays already, perhaps by this client.
ReadyRefused(p) ==
    /\ ClientReady(p) /\ ~Emerges(p)
    /\ DenyAccess(p)
    /\ UNCHANGED <<conn, players, db, auth, aborted, epoch>>

\* loadPlayer.  When the peer is gone meanwhile, asking for its address throws
\* before the client becomes active.
Join(p) ==
    /\ ClientReady(p) /\ Emerges(p) /\ Named(client[p].name) = {}
    /\ players' = Append(players, Player(client[p].name, p, db[client[p].name]))
    /\ IF conn[p] = "up" THEN Event(p, "SetClientReady") ELSE UNCHANGED <<client, asked>>
    /\ UNCHANGED <<conn, db, auth, aborted, epoch>>

\* A player of the name still waits for its removal.  emergePlayer adds a second
\* one, but StageTwoClientInit then finds the first, and sending to a player
\* without a peer is a fatal error.
JoinAborts(p) ==
    /\ ClientReady(p) /\ Emerges(p) /\ Named(client[p].name) # {}
    /\ aborted' = TRUE
    /\ UNCHANGED <<conn, asked, client, players, db, auth, epoch>>
-----------------------------------------------------------------------------
(***************************************************************************)
(* Scripts, the environment and the end of the server.                     *)
(***************************************************************************)
\* core.disconnect_player.
Kick(n) ==
    /\ Running /\ Connected(n)
    /\ DenyAccess(players[FirstOf(Named(n))].peer)
    /\ UNCHANGED <<conn, players, db, auth, aborted, epoch>>

\* core.remove_player: from the database, if not connected.
RemovePlayer(n) ==
    /\ Running /\ ~Connected(n)
    /\ db' = [db EXCEPT ![n] = 0]
    /\ epoch' = IF Named(n) = {} THEN [epoch EXCEPT ![n] = ~@] ELSE epoch
    /\ UNCHANGED <<conn, asked, client, players, auth, aborted>>

\* Anything that changes what is saved of a player.
Play(i) ==
    /\ Running /\ players[i].peer # NoPeer /\ players[i].progress < MaxProgress
    /\ players' = [players EXCEPT ![i].progress = @ + 1]
    /\ UNCHANGED <<conn, asked, client, db, auth, aborted, epoch>>

\* saveLoadedPlayers, once in a while.
SavePlayers ==
    /\ Running
    /\ db' = Saved
    /\ UNCHANGED <<conn, asked, client, players, auth, aborted, epoch>>

\* Broken variant: nothing is saved.
Unlinked_Unsaved(i) == db

\* unlinkPlayerSessionAndSave.
Unlinked(i) == [db EXCEPT ![players[i].name] = players[i].progress]

\* ServerEnvironment::removePlayer.
Without(i) ==
    [j \in 1 .. Len(players) - 1 |-> players[IF j < i THEN j ELSE j + 1]]

\* removeRemovedObjects: the visit of a player that no client knows any more.
RemoveRemovedObject(i) ==
    /\ Running /\ players[i].peer = NoPeer
    /\ db' = Unlinked(i)
    /\ players' = Without(i)
    /\ UNCHANGED <<conn, asked, client, auth, aborted, epoch>>

\* ~Server, which saves the players and removes their objects, and the next start.
Restart ==
    /\ Running
    /\ db' = Saved
    /\ players' = <<>>
    /\ client' = [p \in Peers |-> NoClient]
    /\ conn' = [p \in Peers |-> IF conn[p] = "new" THEN "new" ELSE "gone"]
    /\ asked' = {}
    /\ UNCHANGED <<auth, aborted, epoch>>
-----------------------------------------------------------------------------
Packet(p) ==
    \/ \E ok \in BOOLEAN :
        \/ \E n \in Names : HandleInit(p, n, ok)
        \/ Register(p, ok) \/ ChangePassword(p, ok) \/ SrpBytesA(p, ok)
    \/ \E proof \in {"right", "wrong", "short"} : SrpBytesM(p, proof)
    \/ HandleInit2(p) \/ ReadyRefused(p) \/ Join(p) \/ JoinAborts(p)

Next ==
    \/ \E p \in Peers : PeerAdded(p) \/ PeerLost(p) \/ DeletingPeer(p) \/ Linger(p) \/ Packet(p)
    \/ \E n \in Names : Kick(n) \/ RemovePlayer(n)
    \/ \E i \in DOMAIN players : Play(i) \/ RemoveRemovedObject(i)
    \/ SavePlayers \/ Restart

Spec == Init /\ [][Next]_vars

\* The server's step looks for clients that linger, the connection disconnects
\* the peers it is asked to, and its events are handled.
FairSpec ==
    /\ Spec
    /\ \A p \in Peers : /\ WF_vars(Linger(p))
                        /\ WF_vars(p \in asked /\ PeerLost(p))
                        /\ WF_vars(DeletingPeer(p))
-----------------------------------------------------------------------------
(***************************************************************************)
(* Properties.                                                             *)
(***************************************************************************)
Clients == [state : States, name : Names \cup {NoPeer},
            allowed : {"none", "first", "srp"}, mech : {"none", "srp"}]
PlayerRecords == [name : Names, peer : Peers \cup {NoPeer}, progress : 0 .. MaxProgress]

\* Type invariant: connections, clients, players and what is stored of them
\* are built from the peers and names there are.
TypeOK ==
    /\ conn \in [Peers -> {"new", "up", "down", "gone"}] /\ asked \subseteq Peers
    /\ client \in [Peers -> Clients] /\ players \in Seq(PlayerRecords)
    /\ db \in [Names -> 0 .. MaxProgress] /\ auth \in [Names -> Peers \cup {NoPeer}]
    /\ aborted \in BOOLEAN /\ epoch \in [Names -> BOOLEAN]

\* Clients and players agree: a connected player belongs to a client of its
\* name that has got so far and is still there, and an active client has a
\* player; also when the connection is lost or a script kicks the player in
\* the middle of a handler, and when several clients log in with one name.
PlayersFollowClients ==
    /\ \A i \in DOMAIN players : players[i].peer # NoPeer =>
        LET c == client[players[i].peer]
        IN  /\ c.name = players[i].name
            /\ \/ c.state \in {"Active", "SudoMode", "Denied"}
               \/ c.state = "DefinitionsSent" /\ conn[players[i].peer] = "down"
    /\ \A p \in Peers : client[p].state \in {"Active", "SudoMode"} =>
        \E i \in WithPeer(p) : players[i].name = client[p].name

\* Only one of several clients that try to register a name at a time does, and
\* from then on its password only changes by a client that has logged in with
\* the name and has proved the old password once more.
PasswordIsTheOwners ==
    [][\A n \in Names : auth[n] # NoPeer /\ auth'[n] # auth[n] =>
            \E p \in Peers : /\ client[p].state = "SudoMode" /\ client[p].name = n
                             /\ \E i \in WithPeer(p) : players[i].name = n]_vars

\* A client that was denied, or that nobody has heard of since it came, does not
\* stay: it leaves, or says who it is, unless the server ends by an error.
NobodyLingers ==
    \A p \in Peers :
        client[p].state \in {"Created", "Denied"}
            ~> aborted \/ client[p].state \notin {"Created", "Denied"}

\* The server fulfils Sessions: a name never plays twice, and who comes back
\* goes on with what was saved, or is still to be saved, when the last session
\* ended.  A name that is erased while its player waits for the removal is
\* not: the removal writes it again.
Holders(n) == {players[i].peer : i \in Named(n)} \ {NoPeer}
Promised(n) == IF Named(n) = {} THEN db[n] ELSE players[FirstOf(Named(n))].progress

S == INSTANCE Sessions WITH
        holders <- [n \in Names |-> Holders(n)],
        value   <- [n \in Names |-> Promised(n)]

ImplementsSessions == S!Spec

\* The server never ends by a fatal error: emergePlayer and addPlayer mean to
\* let a player come back while its old object waits for the removal.
NeverAborts == ~aborted
=============================================================================
