---------------------------- MODULE ServerPeers -----------------------------
(***************************************************************************)
(* The server's clients beside the connection's peers: the server thread   *)
(* takes the peer events of PeerLifetime one by one inside                 *)
(* ReceiveTimeoutMs, and ClientInterface keeps a RemoteClient per peer id. *)
(***************************************************************************)
EXTENDS PeerLifetime

VARIABLES clients,  \* ClientInterface::m_clients, the ids with a client
          handled   \* how many of the events the server thread has taken

serverVars == <<vars, clients, handled>>

ServerInit == Init /\ clients = {} /\ handled = 0

NextEvent == events[handled + 1]

\* Server::peerAdded and ClientInterface::CreateClient, which returns at once
\* when the id has a client.
PeerAdded ==
    /\ handled < Len(events) /\ NextEvent.kind = "added"
    /\ clients' = clients \cup {id[NextEvent.peer]}
    /\ handled' = handled + 1
    /\ UNCHANGED vars

\* Broken variant: the client of a peer that left is kept.
DeletingPeer_Kept ==
    /\ handled < Len(events) /\ NextEvent.kind = "removed"
    /\ handled' = handled + 1
    /\ UNCHANGED <<vars, clients>>

\* Server::deletingPeer and DeleteClient, which tolerate a missing client.
DeletingPeer ==
    /\ handled < Len(events) /\ NextEvent.kind = "removed"
    /\ clients' = clients \ {id[NextEvent.peer]}
    /\ handled' = handled + 1
    /\ UNCHANGED vars

ServerNext == PeerAdded \/ DeletingPeer \/ (Next /\ UNCHANGED <<clients, handled>>)

ServerSpec == ServerInit /\ [][ServerNext]_serverVars

\* Fairness, besides that of the connection's threads: the server thread
\* calls Receive in every round of its loop, until no event is left.
ServerFairSpec == /\ ServerSpec /\ Fairness
                  /\ WF_serverVars(PeerAdded) /\ WF_serverVars(DeletingPeer)
-----------------------------------------------------------------------------
\* When the server has caught up with the connection, no client is left
\* whose peer is gone.
NoGhostClient ==
    handled = Len(events) /\ (\A t \in Threads : pc[t] = "idle") =>
        clients \subseteq {i \in Ids : peers[i] # None}

\* A client whose peer has left goes away, unless its id belongs to a peer
\* again, or ~Connection, which announces nothing, has ended it all.
GhostsVanish ==
    \A i \in Ids : i \in clients /\ peers[i] = None ~>
        i \notin clients \/ peers[i] # None \/ pc[Closer] = "stopped"

\* clientiface.cpp says of CreateClient: "The client shouldn't already exist".
NewPeerHasNoClient ==
    handled < Len(events) /\ NextEvent.kind = "added" =>
        id[NextEvent.peer] \notin clients

\* peerhandler.h says of deletingPeer: "This is called before the Peer has
\* been removed from the Connection's peer container".
DeletingPeerComesFirst ==
    handled < Len(events) /\ NextEvent.kind = "removed" => InContainer(NextEvent.peer)
=============================================================================
