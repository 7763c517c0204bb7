------------------------ MODULE PlayerSessionProofs ---------------------------
(***************************************************************************)
(* Proofs about PlayerSession, for any peers, names, limit of users and    *)
(* progress.  Everything rests on one invariant: the properties that       *)
(* clients and players agree and that a name has one player, which need    *)
(* each other, and what is known of clients that have said their name and  *)
(* of peers that have not come yet.                                        *)
(***************************************************************************)
EXTENDS PlayerSession, SequenceTheorems, TLAPS

Playing == {"Active", "SudoMode"}

OnePlayer == \A i, j \in DOMAIN players : players[i].name = players[j].name => i = j
NamesKnown == \A p \in Peers : client[p].state \in HelloStates => client[p].name \in Names
AbsentHaveNoClient ==
    \A p \in Peers : conn[p] \in {"new", "gone"} => client[p].state = "None"

Inv == TypeOK /\ OnePlayer /\ PlayersFollowClients /\ NamesKnown /\ AbsentHaveNoClient

LEMMA PlayerTypes ==
    ASSUME NEW s \in Seq(PlayerRecords)
    PROVE  /\ DOMAIN s = 1 .. Len(s) /\ Len(s) \in Nat
           /\ \A i \in DOMAIN s : /\ s[i] \in PlayerRecords /\ i \in Nat
                                 /\ s[i].name \in Names
                                 /\ s[i].peer \in Peers \cup {NoPeer}
                                 /\ s[i].progress \in 0 .. MaxProgress
<1>1. DOMAIN s = 1 .. Len(s) /\ Len(s) \in Nat
    BY LenProperties
<1>2. \A i \in DOMAIN s : s[i] \in PlayerRecords
    BY <1>1, ElementOfSeq
<1> QED BY <1>1, <1>2 DEF PlayerRecords

LEMMA InitInv == Init => Inv
<1> SUFFICES ASSUME Init PROVE Inv
    OBVIOUS
<1> USE SessionAssumption DEF Init, NoClient
<1>1. TypeOK
  <2>1. players \in Seq(PlayerRecords)
    BY EmptySeq
  <2>2. client \in [Peers -> Clients]
    BY DEF Clients, States
  <2>3. db \in [Names -> 0 .. MaxProgress]
    OBVIOUS
  <2> QED BY <2>1, <2>2, <2>3 DEF TypeOK
<1>2. DOMAIN players = {}
    BY EmptySeq
<1> QED BY <1>1, <1>2 DEF Inv, OnePlayer, PlayersFollowClients, NamesKnown,
        AbsentHaveNoClient, HelloStates
-----------------------------------------------------------------------------
(***************************************************************************)
(* What the events make of a client.                                       *)
(***************************************************************************)
\* What may become of a client c without its player knowing.
Follows(c, d) ==
    \/ c.state \notin Playing \cup {"DefinitionsSent", "Denied"} /\ d.state \notin Playing
    \/ /\ d.name = c.name
       /\ d.state \in {c.state, "Denied"} \/ (c.state \in Playing /\ d.state \in Playing)

Becomes(c, d) ==
    /\ d \in Clients /\ Follows(c, d)
    /\ d.state \in HelloStates => d.name \in Names

LEMMA DeniedClient ==
    ASSUME NEW c \in Clients, c.state \in HelloStates => c.name \in Names
    PROVE  Becomes(c, Denied(c))
<1>1. DOMAIN Transitions \subseteq States
    BY DEF Transitions, States
<1>2. /\ Denied(c) \in Clients /\ Denied(c).name = c.name
      /\ Denied(c).state \in {c.state, "Denied"}
    BY DEF Denied, Clients, States
<1> QED BY <1>2 DEF Becomes, Follows, HelloStates

\* An event leads to the state of the table, or nowhere.
LEMMA AfterClient ==
    ASSUME NEW c \in Clients, NEW event
    PROVE  /\ After(c, event) \in Clients
           /\ After(c, event).name = c.name
           /\ \/ After(c, event).state = c.state
              \/ /\ c.state \in DOMAIN Transitions /\ event \in DOMAIN Transitions[c.state]
                 /\ After(c, event).state = Transitions[c.state][event]
<1>1. CASE c.state \notin DOMAIN Transitions \/ Throws(c, event)
    BY <1>1 DEF After
<1>2. CASE c.state \in DOMAIN Transitions /\ event \in DOMAIN Transitions[c.state]
  <2>1. Transitions[c.state][event] \in States
      BY <1>2 DEF Transitions, States
  <2>2. After(c, event) = [c EXCEPT !.state = Transitions[c.state][event],
                   !.mech = IF event \in {"AuthAccept", "SudoSuccess"} THEN "none" ELSE @]
      BY <1>2 DEF After, Throws
  <2> HIDE DEF Transitions
  <2> QED BY <1>2, <2>1, <2>2 DEF Clients
<1> QED BY <1>1, <1>2 DEF Throws

\* No event but SetClientReady makes a player of a client.
LEMMA EventClient ==
    ASSUME NEW c \in Clients, c.state \in HelloStates => c.name \in Names,
           NEW event, event # "SetClientReady",
           event = "Hello" => c.name \in Names
    PROVE  Becomes(c, After(c, event))
<1> DEFINE d == After(c, event)
<1>1. CASE d.state = c.state
    BY <1>1, AfterClient DEF Becomes, Follows
<1>2. CASE /\ c.state \in DOMAIN Transitions /\ event \in DOMAIN Transitions[c.state]
           /\ d.state = Transitions[c.state][event]
  <2>1. \/ c.state = "Created" /\ event = "Hello" /\ d.state = "HelloSent"
        \/ c.state = "HelloSent" /\ d.state = "AwaitingInit2"
        \/ c.state = "AwaitingInit2" /\ d.state = "DefinitionsSent"
        \/ c.state = "Active" /\ d.state = "SudoMode"
        \/ c.state = "SudoMode" /\ d.state = "Active"
      BY <1>2 DEF Transitions
  <2>2. d \in Clients /\ d.name = c.name
      BY AfterClient
  <2>3. d.state \in HelloStates => d.name \in Names
      BY <2>1, <2>2 DEF HelloStates
  <2>4. Follows(c, d)
      BY <2>1, <2>2 DEF Follows, Playing
  <2> QED BY <2>2, <2>3, <2>4 DEF Becomes
<1> HIDE DEF d
<1> QED BY <1>1, <1>2, AfterClient DEF d
-----------------------------------------------------------------------------
(***************************************************************************)
(* The invariant is kept.                                                  *)
(***************************************************************************)
\* A client changes and the players do not.
LEMMA ClientStep ==
    ASSUME Inv, NEW p \in Peers, conn[p] \in {"up", "down"},
           NEW d, Becomes(client[p], d), client' = [client EXCEPT ![p] = d],
           asked' \in SUBSET Peers, auth' \in [Names -> Peers \cup {NoPeer}],
           UNCHANGED <<conn, players, db, aborted, epoch>>
    PROVE  Inv'
<1> USE DEF Inv
<1>1. TypeOK'
  <2>1. client' \in [Peers -> Clients] /\ d \in Clients
    BY DEF TypeOK, Becomes
  <2> QED BY <2>1 DEF TypeOK
<1>2. PlayersFollowClients'
  <2>1. client \in [Peers -> Clients]
    BY DEF TypeOK
  <2>2. \A q \in Peers : client'[q] = IF q = p THEN d ELSE client[q]
    BY <2>1
  <2>3. \A i \in DOMAIN players : players[i].peer \in Peers \cup {NoPeer}
    BY PlayerTypes DEF TypeOK
  <2>4. ASSUME NEW i \in DOMAIN players, players[i].peer # NoPeer
        PROVE  LET c == client'[players[i].peer]
               IN  /\ c.name = players[i].name
                   /\ \/ c.state \in {"Active", "SudoMode", "Denied"}
                      \/ c.state = "DefinitionsSent" /\ conn[players[i].peer] = "down"
    <3>1. CASE players[i].peer = p
      <4>1. /\ client[p].name = players[i].name
            /\ \/ client[p].state \in {"Active", "SudoMode", "Denied"}
               \/ client[p].state = "DefinitionsSent" /\ conn[p] = "down"
        BY <2>4, <3>1 DEF PlayersFollowClients
      <4> QED BY <3>1, <4>1, <2>2 DEF Becomes, Follows, Playing
    <3>2. CASE players[i].peer # p
      BY <2>2, <2>3, <2>4, <3>2 DEF PlayersFollowClients
    <3> QED BY <3>1, <3>2
  <2>5. ASSUME NEW q \in Peers, client'[q].state \in {"Active", "SudoMode"}
        PROVE  \E i \in WithPeer(q) : players[i].name = client'[q].name
    <3>1. CASE q = p
      <4>1. client[p].state \in {"Active", "SudoMode"} /\ d.name = client[p].name
        BY <2>2, <2>5, <3>1 DEF Becomes, Follows, Playing
      <4> QED BY <2>2, <3>1, <4>1 DEF PlayersFollowClients
    <3>2. CASE q # p
      BY <2>2, <2>5, <3>2 DEF PlayersFollowClients
    <3> QED BY <3>1, <3>2
  <2> QED BY <2>4, <2>5 DEF PlayersFollowClients, WithPeer
<1>3. NamesKnown' /\ AbsentHaveNoClient'
    BY DEF NamesKnown, AbsentHaveNoClient, Becomes, TypeOK
<1>4. OnePlayer'
    BY DEF OnePlayer
<1> QED BY <1>1, <1>2, <1>3, <1>4

\* A packet of p is no news to its player, unless it joins.
LEMMA PacketClient ==
    ASSUME Inv, NEW p \in Peers, Handles(p)
    PROVE  /\ conn[p] \in {"up", "down"} /\ client[p] \in Clients
           /\ client[p].state \in HelloStates => client[p].name \in Names
           /\ asked \in SUBSET Peers /\ asked \cup {p} \in SUBSET Peers
           /\ auth \in [Names -> Peers \cup {NoPeer}]
BY DEF Inv, TypeOK, Handles, NamesKnown

LEMMA DenyAccessKeeps ==
    ASSUME Inv, NEW p \in Peers, Handles(p), DenyAccess(p),
           UNCHANGED <<conn, players, db, auth, aborted, epoch>>
    PROVE  Inv'
<1>1. Becomes(client[p], Denied(client[p]))
    BY PacketClient, DeniedClient
<1>2. client' = [client EXCEPT ![p] = Denied(client[p])] /\ asked' = asked \cup {p}
    BY DEF DenyAccess
<1> QED BY <1>1, <1>2, PacketClient, ClientStep

LEMMA EventKeeps ==
    ASSUME Inv, NEW p \in Peers, Handles(p), NEW event, event \notin {"SetClientReady", "Hello"},
           Event(p, event), UNCHANGED <<conn, players, db, auth, aborted, epoch>>
    PROVE  Inv'
<1>1. CASE DenyAccess(p)
    BY <1>1, DenyAccessKeeps
<1>2. CASE client' = [client EXCEPT ![p] = After(@, event)] /\ UNCHANGED asked
  <2>1. Becomes(client[p], After(client[p], event))
    BY PacketClient, EventClient
  <2>2. client' = [client EXCEPT ![p] = After(client[p], event)] /\ asked' = asked
    BY <1>2
  <2> QED BY <2>1, <2>2, PacketClient, ClientStep
<1> QED BY <1>1, <1>2 DEF Event

\* Another mechanism, or the right to another, says nothing to the player.
LEMMA SameClient ==
    ASSUME NEW c \in Clients, c.state \in HelloStates => c.name \in Names, NEW d \in Clients,
           d.state = c.state, d.name = c.name
    PROVE  Becomes(c, d)
BY DEF Becomes, Follows

LEMMA HandleInitKeeps ==
    ASSUME Inv, NEW p \in Peers, NEW n \in Names, NEW ok, HandleInit(p, n, ok)
    PROVE  Inv'
<1>1. Handles(p) /\ client[p].state = "Created"
    BY DEF HandleInit
<1>2. CASE DenyAccess(p)
    BY <1>1, <1>2, DenyAccessKeeps DEF HandleInit
<1>3. CASE client' = [client EXCEPT ![p] = Hello(@, n)] /\ UNCHANGED asked
  <2> DEFINE c == [client[p] EXCEPT !.name = n, !.mech = "none",
                                    !.allowed = IF auth[n] = NoPeer THEN "first" ELSE "srp"]
             d == After(c, "Hello")
  <2>1. client[p] \in Clients
    BY <1>1, PacketClient
  <2>2. c \in Clients /\ c.state = "Created" /\ c.name = n
    BY <1>1, <2>1 DEF Clients
  <2>3. "Hello" \in DOMAIN Transitions["Created"] /\ Transitions["Created"]["Hello"] = "HelloSent"
        /\ "Created" \in DOMAIN Transitions
    BY DEF Transitions
  <2> HIDE DEF c
  <2>4. d \in Clients /\ d.name = n /\ d.state \in {"Created", "HelloSent"}
    BY <2>2, <2>3, AfterClient
  <2>5. Hello(client[p], n) = d
    BY DEF Hello, c
  <2> HIDE DEF d
  <2>6. Becomes(client[p], d)
    BY <1>1, <2>4 DEF Becomes, Follows, Playing
  <2>7. client' = [client EXCEPT ![p] = d] /\ asked' = asked
    BY <1>3, <2>5
  <2> QED BY <1>1, <2>6, <2>7, PacketClient, ClientStep DEF HandleInit
<1> QED BY <1>2, <1>3 DEF HandleInit

LEMMA RegisterKeeps ==
    ASSUME Inv, NEW p \in Peers, NEW ok, Register(p, ok)
    PROVE  Inv'
<1>1. Handles(p) /\ client[p].state = "HelloSent"
    BY DEF Register
<1>2. CASE DenyAccess(p) /\ UNCHANGED auth
    BY <1>1, <1>2, DenyAccessKeeps DEF Register
<1>3. CASE /\ auth' = [auth EXCEPT ![client[p].name] = p]
           /\ client' = [client EXCEPT ![p] = After([client[p] EXCEPT !.allowed = "srp"],
                                                    "AuthAccept")]
           /\ UNCHANGED asked
  <2> DEFINE c == [client[p] EXCEPT !.allowed = "srp"]
             d == After(c, "AuthAccept")
  <2>1. client[p] \in Clients /\ client[p].name \in Names
    BY <1>1, PacketClient DEF HelloStates
  <2>2. c \in Clients /\ c.state = "HelloSent" /\ c.name = client[p].name
    BY <1>1, <2>1 DEF Clients
  <2> HIDE DEF c
  <2>3. Becomes(c, d)
    BY <2>1, <2>2, EventClient
  <2> HIDE DEF d
  <2>4. Becomes(client[p], d)
    BY <1>1, <2>2, <2>3 DEF Becomes, Follows
  <2>5. client' = [client EXCEPT ![p] = d] /\ asked' = asked
    BY <1>3 DEF c, d
  <2>6. auth' \in [Names -> Peers \cup {NoPeer}]
    BY <1>1, <1>3, PacketClient
  <2> QED BY <1>1, <2>4, <2>5, <2>6, PacketClient, ClientStep DEF Register
<1> QED BY <1>2, <1>3 DEF Register

LEMMA ChangePasswordKeeps ==
    ASSUME Inv, NEW p \in Peers, NEW ok, ChangePassword(p, ok)
    PROVE  Inv'
<1> DEFINE d == After(client[p], "SudoLeave")
<1>1. Handles(p)
    BY DEF ChangePassword
<1>2. Becomes(client[p], d)
    BY <1>1, PacketClient, EventClient
<1>3. auth' \in [Names -> Peers \cup {NoPeer}]
    BY <1>1, PacketClient DEF ChangePassword
<1>4. client' = [client EXCEPT ![p] = d] /\ asked' = asked
    BY DEF ChangePassword
<1> HIDE DEF d
<1> QED BY <1>1, <1>2, <1>3, <1>4, PacketClient, ClientStep DEF ChangePassword

LEMMA AuthFailsKeeps ==
    ASSUME Inv, NEW p \in Peers, Handles(p), NEW c \in Clients,
           c.state = client[p].state, c.name = client[p].name, AuthFails(p, c),
           UNCHANGED <<conn, players, db, auth, aborted, epoch>>
    PROVE  Inv'
<1>1. CASE DenyAccess(p)
    BY <1>1, DenyAccessKeeps
<1>2. CASE client' = [client EXCEPT ![p] = c] /\ UNCHANGED asked
  <2>1. Becomes(client[p], c)
    BY PacketClient, SameClient
  <2> QED BY <1>2, <2>1, PacketClient, ClientStep
<1> QED BY <1>1, <1>2 DEF AuthFails

LEMMA SrpBytesAKeeps ==
    ASSUME Inv, NEW p \in Peers, NEW ok, SrpBytesA(p, ok)
    PROVE  Inv'
<1>1. Handles(p) /\ client[p] \in Clients /\ client \in [Peers -> Clients]
    BY PacketClient DEF SrpBytesA, Authenticates, Inv, TypeOK
<1>2. CASE AuthFails(p, client[p])
    BY <1>1, <1>2, AuthFailsKeeps DEF SrpBytesA
<1>3. CASE client' = [client EXCEPT ![p].mech = "srp"] /\ UNCHANGED asked
  <2> DEFINE d == [client[p] EXCEPT !.mech = "srp"]
  <2>1. d \in Clients /\ d.state = client[p].state /\ d.name = client[p].name
    BY <1>1 DEF Clients
  <2>2. client' = [client EXCEPT ![p] = d] /\ asked' = asked
    BY <1>3
  <2> HIDE DEF d
  <2>3. Becomes(client[p], d)
    BY <1>1, <2>1, PacketClient, SameClient
  <2> QED BY <1>1, <2>2, <2>3, PacketClient, ClientStep DEF SrpBytesA
<1> QED BY <1>2, <1>3 DEF SrpBytesA

LEMMA SrpBytesMKeeps ==
    ASSUME Inv, NEW p \in Peers, NEW proof, SrpBytesM(p, proof)
    PROVE  Inv'
<1> DEFINE c == [client[p] EXCEPT !.mech = "none"]
<1>1. Handles(p) /\ client[p] \in Clients
      /\ UNCHANGED <<conn, players, db, auth, aborted, epoch>>
    BY PacketClient DEF SrpBytesM, Authenticates
<1>2. c \in Clients /\ c.state = client[p].state /\ c.name = client[p].name
    BY <1>1 DEF Clients
<1>3. \/ AuthFails(p, client[p]) \/ DenyAccess(p) \/ AuthFails(p, c)
      \/ Event(p, "SudoSuccess") \/ Event(p, "AuthAccept")
    BY DEF SrpBytesM
<1> HIDE DEF c
<1>4. CASE AuthFails(p, client[p]) \/ AuthFails(p, c)
    BY <1>1, <1>2, <1>4, AuthFailsKeeps
<1>5. CASE DenyAccess(p)
    BY <1>1, <1>5, DenyAccessKeeps
<1>6. CASE Event(p, "SudoSuccess")
    BY <1>1, <1>6, EventKeeps
<1>7. CASE Event(p, "AuthAccept")
    BY <1>1, <1>7, EventKeeps
<1> QED BY <1>3, <1>4, <1>5, <1>6, <1>7

LEMMA HandleInit2Keeps ==
    ASSUME Inv, NEW p \in Peers, HandleInit2(p)
    PROVE  Inv'
BY EventKeeps DEF HandleInit2

LEMMA ReadyRefusedKeeps ==
    ASSUME Inv, NEW p \in Peers, ReadyRefused(p)
    PROVE  Inv'
BY DenyAccessKeeps DEF ReadyRefused, ClientReady
-----------------------------------------------------------------------------
(***************************************************************************)
(* Steps that change the players, or that no client asked for.             *)
(***************************************************************************)
\* A name has one player or none.
LEMMA NamedOne ==
    ASSUME Inv, NEW n \in Names
    PROVE  \/ Named(n) = {}
           \/ \E i \in DOMAIN players :
                  /\ Named(n) = {i} /\ FirstOf(Named(n)) = i /\ LastOf(Named(n)) = i
                  /\ players[i].name = n
<1> SUFFICES ASSUME NEW i \in Named(n)
             PROVE  /\ i \in DOMAIN players /\ Named(n) = {i} /\ players[i].name = n
                    /\ FirstOf(Named(n)) = i /\ LastOf(Named(n)) = i
    OBVIOUS
<1>1. i \in DOMAIN players /\ players[i].name = n /\ i \in Nat
    BY PlayerTypes DEF Named, Inv, TypeOK
<1>2. Named(n) = {i}
    BY <1>1 DEF Named, Inv, OnePlayer
<1>3. FirstOf({i}) = i /\ LastOf({i}) = i
    BY <1>1 DEF FirstOf, LastOf
<1> QED BY <1>1, <1>2, <1>3

\* The client of a connected player is there.
LEMMA ConnectedPlayer ==
    ASSUME Inv, NEW i \in DOMAIN players, players[i].peer # NoPeer
    PROVE  LET p == players[i].peer
           IN  /\ p \in Peers /\ conn[p] \in {"up", "down"}
               /\ client[p].state \in {"Active", "SudoMode", "Denied", "DefinitionsSent"}
               /\ client[p].name = players[i].name
<1> DEFINE p == players[i].peer
<1>1. p \in Peers
    BY PlayerTypes DEF Inv, TypeOK
<1>2. /\ client[p].state \in {"Active", "SudoMode", "Denied", "DefinitionsSent"}
      /\ client[p].name = players[i].name
    BY DEF Inv, PlayersFollowClients
<1>3. conn[p] \in {"up", "down"}
    BY <1>1, <1>2 DEF Inv, AbsentHaveNoClient, TypeOK
<1> QED BY <1>1, <1>2, <1>3

LEMMA SavedType ==
    ASSUME Inv
    PROVE  Saved \in [Names -> 0 .. MaxProgress]
<1>1. ASSUME NEW n \in Names, Named(n) # {}
      PROVE  players[LastOf(Named(n))].progress \in 0 .. MaxProgress
    BY <1>1, NamedOne, PlayerTypes DEF Inv, TypeOK
<1> QED BY <1>1 DEF Saved, Inv, TypeOK

LEMMA PeerAddedKeeps ==
    ASSUME Inv, NEW p \in Peers, PeerAdded(p)
    PROVE  Inv'
<1> USE DEF PeerAdded, Inv
<1>1. NewClient \in Clients /\ NewClient.state = "Created"
    BY DEF NewClient, NoClient, Clients, States
<1>2. client[p].state = "None"
    BY DEF AbsentHaveNoClient
<1>3. \A q \in Peers : /\ client'[q] = IF q = p THEN NewClient ELSE client[q]
                       /\ conn'[q] = IF q = p THEN "up" ELSE conn[q]
    BY DEF TypeOK
<1>4. TypeOK'
    BY <1>1 DEF TypeOK
<1>5. \A i \in DOMAIN players : players[i].peer # NoPeer =>
          players[i].peer \in Peers /\ players[i].peer # p
    BY <1>2, ConnectedPlayer
<1>6. PlayersFollowClients'
    BY <1>1, <1>3, <1>5 DEF PlayersFollowClients, WithPeer
<1>7. NamesKnown' /\ AbsentHaveNoClient'
    BY <1>1, <1>3 DEF NamesKnown, AbsentHaveNoClient, HelloStates
<1> QED BY <1>4, <1>6, <1>7 DEF OnePlayer

LEMMA PeerLostKeeps ==
    ASSUME Inv, NEW p \in Peers, PeerLost(p)
    PROVE  Inv'
<1> USE DEF PeerLost, Inv
<1>1. \A q \in Peers : conn'[q] = IF q = p THEN "down" ELSE conn[q]
    BY DEF TypeOK
<1>2. TypeOK'
    BY DEF TypeOK
<1>3. \A i \in DOMAIN players : players[i].peer # NoPeer => players[i].peer \in Peers
    BY ConnectedPlayer
<1>4. PlayersFollowClients'
    BY <1>1, <1>3 DEF PlayersFollowClients, WithPeer
<1>5. NamesKnown' /\ AbsentHaveNoClient' /\ OnePlayer'
    BY <1>1 DEF NamesKnown, AbsentHaveNoClient, OnePlayer
<1> QED BY <1>2, <1>4, <1>5

\* What is left of the players when p goes.
LEMMA DisconnectedPlayers ==
    ASSUME Inv, NEW p \in Peers
    PROVE  LET s == Disconnected(p)
           IN  /\ s \in Seq(PlayerRecords) /\ DOMAIN s = DOMAIN players
               /\ \A i \in DOMAIN players :
                      /\ s[i].name = players[i].name /\ s[i].progress = players[i].progress
                      /\ s[i].peer = IF players[i].peer = p THEN NoPeer ELSE players[i].peer
<1> DEFINE s == Disconnected(p)
<1>1. /\ DOMAIN players = 1 .. Len(players) /\ Len(players) \in Nat
      /\ \A i \in DOMAIN players : players[i] \in PlayerRecords
    BY PlayerTypes DEF Inv, TypeOK
<1>2. \A i \in DOMAIN players :
          /\ s[i] \in PlayerRecords
          /\ s[i].name = players[i].name /\ s[i].progress = players[i].progress
          /\ s[i].peer = IF players[i].peer = p THEN NoPeer ELSE players[i].peer
    BY <1>1 DEF Disconnected, PlayerRecords
<1>3. s \in [1 .. Len(players) -> PlayerRecords]
    BY <1>1, <1>2 DEF Disconnected
<1>4. s \in Seq(PlayerRecords)
    BY <1>1, <1>3, SeqDef
<1> QED BY <1>1, <1>2, <1>3, <1>4

LEMMA DeletingPeerKeeps ==
    ASSUME Inv, NEW p \in Peers, DeletingPeer(p)
    PROVE  Inv'
<1> USE DEF DeletingPeer, Inv
<1>1. NoClient \in Clients /\ NoClient.state = "None"
    BY DEF NoClient, Clients, States
<1>2. \A q \in Peers : /\ client'[q] = IF q = p THEN NoClient ELSE client[q]
                       /\ conn'[q] = IF q = p THEN "gone" ELSE conn[q]
    BY DEF TypeOK
<1>3. /\ players' \in Seq(PlayerRecords) /\ DOMAIN players' = DOMAIN players
      /\ \A i \in DOMAIN players :
             /\ players'[i].name = players[i].name
             /\ players'[i].peer = IF players[i].peer = p THEN NoPeer ELSE players[i].peer
    BY DisconnectedPlayers
<1>4. TypeOK'
    BY <1>1, <1>3 DEF TypeOK
<1>5. \A i \in DOMAIN players : players[i].peer # NoPeer => players[i].peer \in Peers
    BY ConnectedPlayer
<1>6. PlayersFollowClients'
  <2>1. ASSUME NEW i \in DOMAIN players', players'[i].peer # NoPeer
        PROVE  LET c == client'[players'[i].peer]
               IN  /\ c.name = players'[i].name
                   /\ \/ c.state \in {"Active", "SudoMode", "Denied"}
                      \/ c.state = "DefinitionsSent" /\ conn'[players'[i].peer] = "down"
    BY <1>2, <1>3, <1>5, <2>1 DEF PlayersFollowClients
  <2>2. ASSUME NEW q \in Peers, client'[q].state \in {"Active", "SudoMode"}
        PROVE  \E i \in WithPeer(q)' : players'[i].name = client'[q].name
    BY <1>1, <1>2, <1>3, <2>2 DEF PlayersFollowClients, WithPeer
  <2> QED BY <2>1, <2>2 DEF PlayersFollowClients
<1>7. NamesKnown' /\ AbsentHaveNoClient' /\ OnePlayer'
    BY <1>1, <1>2, <1>3 DEF NamesKnown, AbsentHaveNoClient, OnePlayer, HelloStates
<1> QED BY <1>4, <1>6, <1>7

LEMMA LingerKeeps ==
    ASSUME Inv, NEW p \in Peers, Linger(p)
    PROVE  Inv'
BY DEF Linger, Inv, TypeOK, OnePlayer, PlayersFollowClients, WithPeer, NamesKnown,
       AbsentHaveNoClient

LEMMA KickKeeps ==
    ASSUME Inv, NEW n \in Names, Kick(n)
    PROVE  Inv'
<1>1. PICK i \in DOMAIN players : players[i].peer # NoPeer /\ FirstOf(Named(n)) = i
    BY NamedOne DEF Kick, Connected
<1>2. players[i].peer \in Peers /\ Handles(players[i].peer)
    BY <1>1, ConnectedPlayer DEF Kick, Handles, HasClient
<1> QED BY <1>1, <1>2, DenyAccessKeeps DEF Kick

\* A client that may emerge has no player, so it is not playing yet.
LEMMA JoiningClient ==
    ASSUME Inv, NEW p \in Peers, ClientReady(p), Emerges(p)
    PROVE  client[p].state = "DefinitionsSent" /\ client[p].name \in Names
BY DEF Inv, ClientReady, InitStates, Emerges, PlayersFollowClients, NamesKnown, HelloStates

\* The client of p after it: active, unless the peer is gone.
LEMMA JoinedClient ==
    ASSUME Inv, NEW p \in Peers, Join(p)
    PROVE  \E d \in Clients :
               /\ client' = [client EXCEPT ![p] = d] /\ d.name = client[p].name
               /\ d.state = "Active" \/ (d.state = "DefinitionsSent" /\ conn[p] = "down")
<1>1. /\ client[p].state = "DefinitionsSent" /\ client[p] \in Clients
      /\ client \in [Peers -> Clients] /\ conn[p] \in {"up", "down"}
    BY JoiningClient DEF Join, ClientReady, Handles, Inv, TypeOK
<1>2. CASE conn[p] = "up"
  <2> DEFINE d == After(client[p], "SetClientReady")
  <2>1. /\ "DefinitionsSent" \in DOMAIN Transitions
        /\ "SetClientReady" \in DOMAIN Transitions["DefinitionsSent"]
        /\ Transitions["DefinitionsSent"]["SetClientReady"] = "Active"
    BY DEF Transitions
  <2>2. ~Throws(client[p], "SetClientReady")
    BY <1>1, <2>1 DEF Throws
  <2>3. d.state = "Active"
    BY <1>1, <2>1, <2>2 DEF After, Clients
  <2>4. client' = [client EXCEPT ![p] = d]
    BY <1>2, <2>2 DEF Join, Event
  <2> HIDE DEF d
  <2>5. d \in Clients /\ d.name = client[p].name
    BY <1>1, AfterClient DEF d
  <2> QED BY <2>3, <2>4, <2>5
<1>3. CASE conn[p] = "down"
  <2>1. client' = client
    BY <1>3 DEF Join
  <2>2. client = [client EXCEPT ![p] = client[p]]
    BY <1>1
  <2> QED BY <1>1, <1>3, <2>1, <2>2
<1> QED BY <1>1, <1>2, <1>3

\* The players after it.
LEMMA JoinedPlayers ==
    ASSUME Inv, NEW p \in Peers, Join(p)
    PROVE  LET k == Len(players) + 1
           IN  /\ players' \in Seq(PlayerRecords)
               /\ DOMAIN players' = DOMAIN players \cup {k} /\ k \notin DOMAIN players
               /\ \A i \in DOMAIN players : players'[i] = players[i]
               /\ players'[k] = Player(client[p].name, p, db[client[p].name])
<1> DEFINE r == Player(client[p].name, p, db[client[p].name])
<1>1. r \in PlayerRecords
    BY JoiningClient DEF Join, Player, PlayerRecords, Inv, TypeOK
<1>2. players \in Seq(PlayerRecords) /\ players' = Append(players, r)
    BY DEF Join, Inv, TypeOK
<1> HIDE DEF r
<1>3. DOMAIN players = 1 .. Len(players) /\ Len(players) \in Nat
    BY <1>2, PlayerTypes
<1>4. /\ players' \in Seq(PlayerRecords) /\ Len(players') = Len(players) + 1
      /\ \A i \in 1 .. Len(players) : players'[i] = players[i]
      /\ players'[Len(players) + 1] = r
    BY <1>1, <1>2, AppendProperties
<1>5. DOMAIN players' = 1 .. Len(players) + 1
    BY <1>4, PlayerTypes
<1> QED BY <1>3, <1>4, <1>5 DEF r

LEMMA JoinKeeps ==
    ASSUME Inv, NEW p \in Peers, Join(p)
    PROVE  Inv'
<1> USE DEF Inv
<1> DEFINE k == Len(players) + 1
           n == client[p].name
<1>1. PICK d \in Clients :
          /\ client' = [client EXCEPT ![p] = d] /\ d.name = n
          /\ d.state = "Active" \/ (d.state = "DefinitionsSent" /\ conn[p] = "down")
    BY JoinedClient
<1>2. \A q \in Peers : client'[q] = IF q = p THEN d ELSE client[q]
    BY <1>1 DEF TypeOK
<1>3. /\ players' \in Seq(PlayerRecords)
      /\ DOMAIN players' = DOMAIN players \cup {k} /\ k \notin DOMAIN players
      /\ \A i \in DOMAIN players : players'[i] = players[i]
      /\ players'[k].name = n /\ players'[k].peer = p
  <2>1. Player(n, p, db[n]).name = n /\ Player(n, p, db[n]).peer = p
    BY DEF Player
  <2> QED BY <2>1, JoinedPlayers
<1> HIDE DEF k
<1>4. /\ n \in Names /\ p # NoPeer /\ conn[p] \in {"up", "down"} /\ conn' = conn
      /\ \A i \in DOMAIN players : players[i].name # n /\ players[i].peer # p
    BY JoiningClient, SessionAssumption
       DEF Join, ClientReady, Handles, Emerges, Named, WithPeer
<1>5. \A i \in DOMAIN players : players[i].peer # NoPeer => players[i].peer \in Peers
    BY ConnectedPlayer
<1>6. TypeOK'
  <2>1. client' \in [Peers -> Clients] /\ asked' \subseteq Peers
    BY <1>1 DEF TypeOK, Join, Event, DenyAccess
  <2> QED BY <1>3, <2>1 DEF TypeOK, Join
<1>7. OnePlayer'
    BY <1>3, <1>4 DEF OnePlayer
<1>8. PlayersFollowClients'
  <2>1. ASSUME NEW i \in DOMAIN players', players'[i].peer # NoPeer
        PROVE  LET c == client'[players'[i].peer]
               IN  /\ c.name = players'[i].name
                   /\ \/ c.state \in {"Active", "SudoMode", "Denied"}
                      \/ c.state = "DefinitionsSent" /\ conn'[players'[i].peer] = "down"
    <3>1. CASE i = k
      BY <1>1, <1>2, <1>3, <1>4, <3>1
    <3>2. CASE i \in DOMAIN players
      BY <1>2, <1>3, <1>4, <1>5, <2>1, <3>2 DEF PlayersFollowClients
    <3> QED BY <1>3, <3>1, <3>2
  <2>2. ASSUME NEW q \in Peers, client'[q].state \in {"Active", "SudoMode"}
        PROVE  \E i \in WithPeer(q)' : players'[i].name = client'[q].name
    <3>1. CASE q = p
      BY <1>1, <1>2, <1>3, <3>1 DEF WithPeer
    <3>2. CASE q # p
      BY <1>2, <1>3, <2>2, <3>2 DEF PlayersFollowClients, WithPeer
    <3> QED BY <3>1, <3>2
  <2> QED BY <2>1, <2>2 DEF PlayersFollowClients
<1>9. NamesKnown' /\ AbsentHaveNoClient'
    BY <1>1, <1>2, <1>4 DEF NamesKnown, AbsentHaveNoClient
<1> QED BY <1>6, <1>7, <1>8, <1>9

LEMMA JoinAbortsKeeps ==
    ASSUME Inv, NEW p \in Peers, JoinAborts(p)
    PROVE  Inv'
BY DEF JoinAborts, Inv, TypeOK, OnePlayer, PlayersFollowClients, WithPeer, NamesKnown,
       AbsentHaveNoClient

LEMMA RemovePlayerKeeps ==
    ASSUME Inv, NEW n \in Names, RemovePlayer(n)
    PROVE  Inv'
<1> USE DEF RemovePlayer, Inv
<1>1. db' \in [Names -> 0 .. MaxProgress] /\ epoch' \in [Names -> BOOLEAN]
    BY SessionAssumption DEF TypeOK
<1>2. TypeOK'
    BY <1>1 DEF TypeOK
<1> QED BY <1>2 DEF OnePlayer, PlayersFollowClients, WithPeer, NamesKnown, AbsentHaveNoClient

\* Only the progress of a player changes.
LEMMA PlayedPlayers ==
    ASSUME Inv, NEW i \in DOMAIN players, Play(i)
    PROVE  /\ players' \in Seq(PlayerRecords) /\ DOMAIN players' = DOMAIN players
           /\ \A j \in DOMAIN players :
                  /\ players'[j].name = players[j].name /\ players'[j].peer = players[j].peer
                  /\ players'[j].progress = IF j = i THEN players[i].progress + 1
                                            ELSE players[j].progress
<1>1. /\ players \in Seq(PlayerRecords) /\ players[i] \in PlayerRecords
      /\ i \in 1 .. Len(players) /\ players[i].progress \in 0 .. MaxProgress
    BY PlayerTypes DEF Inv, TypeOK
<1> DEFINE r == [players[i] EXCEPT !.progress = @ + 1]
<1>2. /\ r \in PlayerRecords /\ r.name = players[i].name /\ r.peer = players[i].peer
      /\ r.progress = players[i].progress + 1
    BY <1>1, SessionAssumption DEF Play, PlayerRecords
<1>3. players' = [players EXCEPT ![i] = r]
    BY DEF Play
<1> HIDE DEF r
<1>4. players' \in Seq(PlayerRecords)
    BY <1>1, <1>2, <1>3, ExceptSeq
<1> QED BY <1>2, <1>3, <1>4

LEMMA PlayKeeps ==
    ASSUME Inv, NEW i \in DOMAIN players, Play(i)
    PROVE  Inv'
<1> USE DEF Inv
<1>1. /\ players' \in Seq(PlayerRecords) /\ DOMAIN players' = DOMAIN players
      /\ \A j \in DOMAIN players : players'[j].name = players[j].name
                                   /\ players'[j].peer = players[j].peer
      /\ UNCHANGED <<conn, asked, client, db, auth, aborted, epoch>>
    BY PlayedPlayers DEF Play
<1>2. TypeOK'
    BY <1>1 DEF TypeOK
<1> QED BY <1>1, <1>2 DEF OnePlayer, PlayersFollowClients, WithPeer, NamesKnown,
                          AbsentHaveNoClient

LEMMA SavePlayersKeeps ==
    ASSUME Inv, SavePlayers
    PROVE  Inv'
<1> USE DEF SavePlayers, Inv
<1>1. TypeOK'
    BY SavedType DEF TypeOK
<1> QED BY <1>1 DEF OnePlayer, PlayersFollowClients, WithPeer, NamesKnown, AbsentHaveNoClient

LEMMA RestartKeeps ==
    ASSUME Inv, Restart
    PROVE  Inv'
<1> USE DEF Restart, Inv
<1>1. NoClient \in Clients /\ NoClient.state = "None"
    BY DEF NoClient, Clients, States
<1>2. players' \in Seq(PlayerRecords) /\ DOMAIN players' = {}
    BY EmptySeq
<1>3. TypeOK'
    BY <1>1, <1>2, SavedType DEF TypeOK
<1> QED BY <1>1, <1>2, <1>3 DEF OnePlayer, PlayersFollowClients, WithPeer, NamesKnown,
                                AbsentHaveNoClient, HelloStates

\* Without(i) has all players but i, each at one place.
LEMMA WithoutPlayers ==
    ASSUME Inv, NEW i \in DOMAIN players
    PROVE  LET s == Without(i)
           IN  /\ s \in Seq(PlayerRecords)
               /\ \A j \in DOMAIN s : \E k \in DOMAIN players \ {i} : s[j] = players[k]
               /\ \A k \in DOMAIN players \ {i} : \E j \in DOMAIN s : s[j] = players[k]
               /\ \A j, l \in DOMAIN s : s[j].name = s[l].name => j = l
<1> DEFINE s == Without(i)
           N == Len(players)
           at(j) == IF j < i THEN j ELSE j + 1
<1>1. /\ players \in Seq(PlayerRecords) /\ N \in Nat /\ i \in 1 .. N
      /\ DOMAIN players = 1 .. N /\ \A k \in 1 .. N : players[k] \in PlayerRecords
    BY PlayerTypes DEF Inv, TypeOK
<1>2. \A j \in 1 .. N - 1 : at(j) \in 1 .. N /\ at(j) # i
    BY <1>1
<1>3. DOMAIN s = 1 .. N - 1 /\ \A j \in 1 .. N - 1 : s[j] = players[at(j)]
    BY DEF Without
<1>4. s \in Seq(PlayerRecords)
  <2>1. s \in [1 .. N - 1 -> PlayerRecords]
    BY <1>1, <1>2 DEF Without
  <2>2. N - 1 \in Nat
    BY <1>1
  <2> QED BY <2>1, <2>2, SeqDef
<1>5. ASSUME NEW k \in DOMAIN players \ {i}
      PROVE  \E j \in DOMAIN s : s[j] = players[k]
  <2>1. CASE k < i
    <3>1. k \in 1 .. N - 1 /\ at(k) = k
      BY <1>1, <2>1
    <3> QED BY <1>3, <3>1
  <2>2. CASE k > i
    <3>1. k - 1 \in 1 .. N - 1 /\ at(k - 1) = k
      BY <1>1, <2>2
    <3> QED BY <1>3, <3>1
  <2> QED BY <1>1, <2>1, <2>2
<1>6. ASSUME NEW j \in DOMAIN s, NEW l \in DOMAIN s, s[j].name = s[l].name
      PROVE  j = l
  <2>1. /\ at(j) \in DOMAIN players /\ at(l) \in DOMAIN players
        /\ s[j] = players[at(j)] /\ s[l] = players[at(l)]
    BY <1>1, <1>2, <1>3
  <2> HIDE DEF s, at
  <2>2. at(j) = at(l)
    BY <1>6, <2>1 DEF Inv, OnePlayer
  <2> USE DEF s, at
  <2> QED BY <1>1, <1>3, <2>2
<1> HIDE DEF s
<1>7. \A j \in DOMAIN s : \E k \in DOMAIN players \ {i} : s[j] = players[k]
    BY <1>1, <1>2, <1>3
<1> QED BY <1>4, <1>5, <1>6, <1>7 DEF s

LEMMA RemoveRemovedObjectKeeps ==
    ASSUME Inv, NEW i \in DOMAIN players, RemoveRemovedObject(i)
    PROVE  Inv'
<1> USE DEF RemoveRemovedObject, Inv
<1>1. /\ players' \in Seq(PlayerRecords)
      /\ \A j \in DOMAIN players' : \E k \in DOMAIN players \ {i} : players'[j] = players[k]
      /\ \A k \in DOMAIN players \ {i} : \E j \in DOMAIN players' : players'[j] = players[k]
    BY WithoutPlayers
<1>2. OnePlayer'
    BY WithoutPlayers DEF OnePlayer
<1>3. players[i].progress \in 0 .. MaxProgress
    BY PlayerTypes DEF TypeOK
<1>4. TypeOK'
    BY <1>1, <1>3 DEF TypeOK, Unlinked
<1>5. PlayersFollowClients'
  <2>1. ASSUME NEW q \in Peers, client'[q].state \in {"Active", "SudoMode"}
        PROVE  \E j \in WithPeer(q)' : players'[j].name = client'[q].name
    <3>1. PICK k \in DOMAIN players : players[k].peer = q /\ players[k].name = client[q].name
      BY <2>1 DEF PlayersFollowClients, WithPeer
    <3>2. k # i
      BY <3>1, SessionAssumption
    <3> QED BY <1>1, <3>1, <3>2 DEF WithPeer
  <2>2. ASSUME NEW j \in DOMAIN players', players'[j].peer # NoPeer
        PROVE  LET c == client'[players'[j].peer]
               IN  /\ c.name = players'[j].name
                   /\ \/ c.state \in {"Active", "SudoMode", "Denied"}
                      \/ c.state = "DefinitionsSent" /\ conn'[players'[j].peer] = "down"
    BY <1>1, <2>2 DEF PlayersFollowClients
  <2> QED BY <2>1, <2>2 DEF PlayersFollowClients
<1>6. NamesKnown' /\ AbsentHaveNoClient'
    BY DEF NamesKnown, AbsentHaveNoClient
<1> QED BY <1>2, <1>4, <1>5, <1>6
-----------------------------------------------------------------------------
LEMMA PacketKeeps ==
    ASSUME Inv, NEW p \in Peers, Packet(p)
    PROVE  Inv'
<1>1. CASE \E ok \in BOOLEAN : \E n \in Names : HandleInit(p, n, ok)
    BY <1>1, HandleInitKeeps
<1>2. CASE \E ok \in BOOLEAN : Register(p, ok) \/ ChangePassword(p, ok) \/ SrpBytesA(p, ok)
    BY <1>2, RegisterKeeps, ChangePasswordKeeps, SrpBytesAKeeps
<1>3. CASE \E proof \in {"right", "wrong", "short"} : SrpBytesM(p, proof)
    BY <1>3, SrpBytesMKeeps
<1>4. CASE HandleInit2(p) \/ ReadyRefused(p)
    BY <1>4, HandleInit2Keeps, ReadyRefusedKeeps
<1>5. CASE Join(p) \/ JoinAborts(p)
    BY <1>5, JoinKeeps, JoinAbortsKeeps
<1> QED BY <1>1, <1>2, <1>3, <1>4, <1>5 DEF Packet

LEMMA InvStep == Inv /\ [Next]_vars => Inv'
<1> SUFFICES ASSUME Inv, [Next]_vars PROVE Inv'
    OBVIOUS
<1>1. CASE UNCHANGED vars
    BY <1>1 DEF vars, Inv, TypeOK, OnePlayer, PlayersFollowClients, WithPeer, NamesKnown,
                AbsentHaveNoClient
<1>2. ASSUME NEW p \in Peers,
             PeerAdded(p) \/ PeerLost(p) \/ DeletingPeer(p) \/ Linger(p) \/ Packet(p)
      PROVE  Inv'
    BY <1>2, PeerAddedKeeps, PeerLostKeeps, DeletingPeerKeeps, LingerKeeps, PacketKeeps
<1>3. ASSUME NEW n \in Names, Kick(n) \/ RemovePlayer(n)
      PROVE  Inv'
    BY <1>3, KickKeeps, RemovePlayerKeeps
<1>4. ASSUME NEW i \in DOMAIN players, Play(i) \/ RemoveRemovedObject(i)
      PROVE  Inv'
    BY <1>4, PlayKeeps, RemoveRemovedObjectKeeps
<1>5. CASE SavePlayers \/ Restart
    BY <1>5, SavePlayersKeeps, RestartKeeps
<1> QED BY <1>1, <1>2, <1>3, <1>4, <1>5 DEF Next

LEMMA Invariance == Spec => []Inv
<1>1. Inv /\ [Next]_vars => Inv'
    BY InvStep
<1> QED BY <1>1, InitInv, PTL DEF Spec

LEMMA InvImplies == Inv => TypeOK /\ PlayersFollowClients
BY DEF Inv

\* Connections, clients, players and what is stored stay in their types.
THEOREM TypeCorrect == Spec => []TypeOK
BY Invariance, InvImplies, PTL

\* A connected player belongs to a client of its name that is still there, and
\* an active client has a player, for any number of clients, names and kicks.
THEOREM PlayersFollow == Spec => []PlayersFollowClients
BY Invariance, InvImplies, PTL
-----------------------------------------------------------------------------
(***************************************************************************)
(* The password.                                                           *)
(***************************************************************************)
OwnerSets ==
    \A n \in Names : auth[n] # NoPeer /\ auth'[n] # auth[n] =>
        \E p \in Peers : /\ client[p].state = "SudoMode" /\ client[p].name = n
                         /\ \E i \in WithPeer(p) : players[i].name = n

LEMMA OwnerStep == Inv /\ [Next]_vars => [OwnerSets]_vars
<1> SUFFICES ASSUME Inv, Next PROVE OwnerSets
    BY DEF OwnerSets
<1>1. CASE UNCHANGED auth
    BY <1>1 DEF OwnerSets
<1>2. ASSUME NEW p \in Peers, NEW ok \in BOOLEAN, Register(p, ok)
      PROVE  OwnerSets
  <2>1. CASE UNCHANGED auth
    BY <2>1 DEF OwnerSets
  <2>2. CASE auth' = [auth EXCEPT ![client[p].name] = p] /\ auth[client[p].name] = NoPeer
    BY <2>2 DEF OwnerSets, Inv, TypeOK
  <2> QED BY <1>2, <2>1, <2>2 DEF Register, Taken
<1>3. ASSUME NEW p \in Peers, NEW ok \in BOOLEAN, ChangePassword(p, ok)
      PROVE  OwnerSets
  <2>1. client[p].state = "SudoMode"
    BY <1>3 DEF ChangePassword
  <2>2. \E i \in WithPeer(p) : players[i].name = client[p].name
    BY <2>1 DEF Inv, PlayersFollowClients
  <2>3. \A n \in Names : auth'[n] # auth[n] => n = client[p].name
    BY <1>3 DEF ChangePassword, Inv, TypeOK
  <2> QED BY <2>1, <2>2, <2>3 DEF OwnerSets
<1>4. ASSUME NEW p \in Peers,
             PeerAdded(p) \/ PeerLost(p) \/ DeletingPeer(p) \/ Linger(p)
      PROVE  UNCHANGED auth
    BY <1>4 DEF PeerAdded, PeerLost, DeletingPeer, Linger
<1>5. ASSUME NEW p \in Peers, NEW ok \in BOOLEAN,
             (\E n \in Names : HandleInit(p, n, ok)) \/ SrpBytesA(p, ok)
      PROVE  UNCHANGED auth
    BY <1>5 DEF HandleInit, SrpBytesA
<1>6. ASSUME NEW p \in Peers, NEW proof, SrpBytesM(p, proof)
      PROVE  UNCHANGED auth
    BY <1>6 DEF SrpBytesM
<1>7. ASSUME NEW p \in Peers, HandleInit2(p) \/ ReadyRefused(p) \/ Join(p) \/ JoinAborts(p)
      PROVE  UNCHANGED auth
    BY <1>7 DEF HandleInit2, ReadyRefused, Join, JoinAborts
<1>8. ASSUME NEW n \in Names, Kick(n) \/ RemovePlayer(n)
      PROVE  UNCHANGED auth
    BY <1>8 DEF Kick, RemovePlayer
<1>9. ASSUME NEW i \in DOMAIN players, Play(i) \/ RemoveRemovedObject(i)
      PROVE  UNCHANGED auth
    BY <1>9 DEF Play, RemoveRemovedObject
<1>10. CASE SavePlayers \/ Restart
    BY <1>1, <1>10 DEF SavePlayers, Restart
<1>11. ASSUME NEW p \in Peers, Packet(p)
       PROVE  OwnerSets
    BY <1>1, <1>2, <1>3, <1>5, <1>6, <1>7, <1>11 DEF Packet
<1> QED BY <1>1, <1>4, <1>8, <1>9, <1>10, <1>11 DEF Next

\* The password of a name that has one changes only by a client that plays
\* under the name and has proved the old one.
THEOREM PasswordTheorem == Spec => PasswordIsTheOwners
<1>1. Spec => [][OwnerSets]_vars
    BY Invariance, OwnerStep, PTL DEF Spec
<1> QED BY <1>1 DEF PasswordIsTheOwners, OwnerSets
-----------------------------------------------------------------------------
(***************************************************************************)
(* The refinement of Sessions.                                             *)
(***************************************************************************)
\* What Sessions sees of a name: its one player, or what is stored.
View ==
    /\ \A i \in DOMAIN players :
           /\ Holders(players[i].name) = {players[i].peer} \ {NoPeer}
           /\ Promised(players[i].name) = players[i].progress
    /\ \A n \in Names : Named(n) = {} => Holders(n) = {} /\ Promised(n) = db[n]

LEMMA InvView == Inv => View
<1> SUFFICES ASSUME Inv PROVE View
    OBVIOUS
<1>1. ASSUME NEW i \in DOMAIN players
      PROVE  /\ Holders(players[i].name) = {players[i].peer} \ {NoPeer}
             /\ Promised(players[i].name) = players[i].progress
  <2> DEFINE n == players[i].name
  <2>1. n \in Names /\ i \in Named(n)
    BY PlayerTypes DEF Inv, TypeOK, Named
  <2>2. Named(n) = {i} /\ FirstOf(Named(n)) = i
    BY <2>1, NamedOne
  <2> QED BY <2>2 DEF Holders, Promised
<1>2. \A n \in Names : Named(n) = {} => Holders(n) = {} /\ Promised(n) = db[n]
    BY DEF Holders, Promised
<1> QED BY <1>1, <1>2 DEF View

LEMMA InvViewNext == Inv' => View'
BY InvView, PTL

\* A name plays if and only if somebody is connected with it.
LEMMA ConnectedHolders ==
    ASSUME Inv, NEW n \in Names
    PROVE  Connected(n) <=> Holders(n) # {}
BY NamedOne, InvView DEF View, Connected

AbstractVars == <<[n \in Names |-> Holders(n)], [n \in Names |-> Promised(n)], epoch>>

\* UNCHANGED players leaves these as they are, whatever is stored.
LEMMA SameNamed ==
    ASSUME UNCHANGED players, NEW n \in Names
    PROVE  /\ Named(n)' = Named(n) /\ Holders(n)' = Holders(n)
           /\ Promised(n)' = IF Named(n) = {} THEN db'[n] ELSE Promised(n)
<1>1. Named(n)' = Named(n)
    BY DEF Named
<1>2. Holders(n)' = Holders(n)
    BY DEF Named, Holders
<1>3. FirstOf(Named(n))' = FirstOf(Named(n))
    BY DEF Named, FirstOf
<1> QED BY <1>1, <1>2, <1>3 DEF Promised

LEMMA SamePlayers ==
    ASSUME UNCHANGED <<players, db, epoch>>
    PROVE  UNCHANGED AbstractVars
BY DEF AbstractVars, Holders, Promised, Named, FirstOf

\* Names whose players and stored values seem the same.
LEMMA SameView ==
    ASSUME UNCHANGED epoch,
           \A n \in Names : Holders(n)' = Holders(n) /\ Promised(n)' = Promised(n)
    PROVE  UNCHANGED AbstractVars
BY DEF AbstractVars

LEMMA EndStep ==
    ASSUME NEW ns \in SUBSET Names, UNCHANGED epoch,
           \A n \in Names : /\ Holders(n)' = IF n \in ns THEN {} ELSE Holders(n)
                            /\ Promised(n)' = Promised(n)
    PROVE  S!Next
<1>1. S!End(ns)
    BY DEF S!End
<1> QED BY <1>1 DEF S!Next

LEMMA JoinRefines ==
    ASSUME Inv, Inv', NEW p \in Peers, Join(p)
    PROVE  S!Next
<1> DEFINE k == Len(players) + 1
<1>0. PICK n \in Names : n = client[p].name
    BY JoiningClient DEF Join
<1>1. /\ Named(n) = {} /\ p # NoPeer /\ WithPeer(p) = {}
      /\ UNCHANGED <<db, epoch>>
    BY <1>0, SessionAssumption DEF Join, Emerges
<1>2. /\ DOMAIN players' = DOMAIN players \cup {k}
      /\ \A i \in DOMAIN players : players'[i] = players[i]
      /\ players'[k].name = n /\ players'[k].peer = p /\ players'[k].progress = db[n]
  <2>1. LET r == Player(n, p, db[n])
        IN  r.name = n /\ r.peer = p /\ r.progress = db[n]
    BY DEF Player
  <2> QED BY <1>0, <2>1, JoinedPlayers
<1> HIDE DEF k
<1>3. View /\ View'
    BY InvView, InvViewNext
<1>4. /\ Holders(n) = {} /\ Promised(n) = db[n]
      /\ Holders(n)' = {p} /\ Promised(n)' = db[n]
  <2>1. Holders(n) = {} /\ Promised(n) = db[n]
    BY <1>1, <1>3 DEF View
  <2>2. /\ Holders(n)' = {players'[k].peer} \ {NoPeer}
        /\ Promised(n)' = players'[k].progress
    BY <1>2, <1>3 DEF View
  <2> QED BY <1>1, <1>2, <2>1, <2>2
<1>5. ASSUME NEW m \in Names, m # n
      PROVE  Holders(m)' = Holders(m) /\ Promised(m)' = Promised(m)
  <2>1. Named(m)' = Named(m)
    BY <1>2, <1>5 DEF Named
  <2>2. CASE Named(m) = {}
    BY <1>1, <1>3, <2>1, <2>2 DEF View
  <2>3. ASSUME NEW i \in Named(m)
        PROVE  Holders(m)' = Holders(m) /\ Promised(m)' = Promised(m)
    <3>1. i \in DOMAIN players /\ i \in DOMAIN players' /\ players'[i] = players[i]
          /\ players[i].name = m
      BY <1>2, <2>3 DEF Named
    <3>2. Holders(m) = {players[i].peer} \ {NoPeer} /\ Promised(m) = players[i].progress
      BY <1>3, <3>1 DEF View
    <3>3. Holders(m)' = {players'[i].peer} \ {NoPeer} /\ Promised(m)' = players'[i].progress
      BY <1>3, <3>1 DEF View
    <3> QED BY <3>1, <3>2, <3>3
  <2> QED BY <2>2, <2>3
<1>6. \A m \in Names : p \notin Holders(m)
    BY <1>1 DEF Holders, Named, WithPeer
<1>7. S!Begin(n, p)
    BY <1>1, <1>4, <1>5, <1>6 DEF S!Begin
<1> QED BY <1>1, <1>7 DEF S!Next

LEMMA DeletingPeerRefines ==
    ASSUME Inv, Inv', NEW p \in Peers, DeletingPeer(p)
    PROVE  S!Next
<1>1. View /\ View' /\ UNCHANGED <<db, epoch>>
    BY InvView, InvViewNext DEF DeletingPeer
<1>2. /\ DOMAIN players' = DOMAIN players
      /\ \A i \in DOMAIN players :
             /\ players'[i].name = players[i].name /\ players'[i].progress = players[i].progress
             /\ players'[i].peer = IF players[i].peer = p THEN NoPeer ELSE players[i].peer
    BY DisconnectedPlayers DEF DeletingPeer
<1> DEFINE ns == {n \in Names : p \in Holders(n)}
<1>3. ASSUME NEW n \in Names
      PROVE  /\ Holders(n)' = IF n \in ns THEN {} ELSE Holders(n)
             /\ Promised(n)' = Promised(n)
  <2>1. Named(n)' = Named(n)
    BY <1>2 DEF Named
  <2>2. CASE Named(n) = {}
    BY <1>1, <2>1, <2>2 DEF View
  <2>3. ASSUME NEW i \in Named(n)
        PROVE  /\ Holders(n)' = IF n \in ns THEN {} ELSE Holders(n)
               /\ Promised(n)' = Promised(n)
    <3>1. i \in DOMAIN players /\ players[i].name = n /\ players'[i].name = n
      BY <1>2, <2>3 DEF Named
    <3>2. /\ Holders(n) = {players[i].peer} \ {NoPeer} /\ Promised(n) = players[i].progress
          /\ Holders(n)' = {players'[i].peer} \ {NoPeer} /\ Promised(n)' = players'[i].progress
      BY <1>1, <1>2, <3>1 DEF View
    <3>3. Holders(n)' = IF p \in Holders(n) THEN {} ELSE Holders(n)
      BY <1>2, <3>1, <3>2, SessionAssumption
    <3> QED BY <1>2, <3>1, <3>2, <3>3
  <2> QED BY <2>2, <2>3
<1> HIDE DEF ns
<1> QED BY <1>1, <1>3, EndStep DEF ns

LEMMA RemovePlayerRefines ==
    ASSUME Inv, Inv', NEW n \in Names, RemovePlayer(n)
    PROVE  S!Next \/ UNCHANGED AbstractVars
<1>1. View /\ UNCHANGED players /\ db' = [db EXCEPT ![n] = 0] /\ db \in [Names -> 0 .. MaxProgress]
    BY InvView DEF RemovePlayer, Inv, TypeOK
<1>2. \A m \in Names : Named(m)' = Named(m) /\ Holders(m)' = Holders(m)
    BY <1>1, SameNamed
<1>3. ASSUME NEW m \in Names, Named(m) # {} \/ m # n
      PROVE  Promised(m)' = Promised(m)
    BY <1>1, <1>3, SameNamed DEF View
<1>4. CASE Named(n) = {}
  <2>1. Holders(n) = {} /\ Promised(n)' = 0 /\ epoch' = [epoch EXCEPT ![n] = ~@]
    BY <1>1, <1>4, SameNamed DEF View, RemovePlayer
  <2>2. S!Erase(n)
    BY <1>2, <1>3, <2>1 DEF S!Erase
  <2> QED BY <2>2 DEF S!Next
<1>5. CASE Named(n) # {}
  <2>1. UNCHANGED epoch
    BY <1>5 DEF RemovePlayer
  <2> QED BY <1>2, <1>3, <1>5, <2>1, SameView
<1> QED BY <1>4, <1>5

LEMMA PlayRefines ==
    ASSUME Inv, Inv', NEW i \in DOMAIN players, Play(i)
    PROVE  S!Next
<1>0. PICK n \in Names : n = players[i].name
    BY PlayerTypes DEF Inv, TypeOK
<1>1. View /\ View' /\ UNCHANGED <<db, epoch>> /\ players[i].peer # NoPeer
    BY InvView, InvViewNext DEF Play
<1>2. /\ DOMAIN players' = DOMAIN players
      /\ \A j \in DOMAIN players :
             /\ players'[j].name = players[j].name /\ players'[j].peer = players[j].peer
             /\ players'[j].progress = IF j = i THEN players[i].progress + 1
                                       ELSE players[j].progress
    BY PlayedPlayers
<1>4. /\ Holders(n) # {} /\ Holders(n)' = Holders(n) /\ Promised(n)' = Promised(n) + 1
  <2>1. Holders(n) = {players[i].peer} \ {NoPeer} /\ Promised(n) = players[i].progress
    BY <1>1, <1>0 DEF View
  <2>2. Holders(n)' = {players'[i].peer} \ {NoPeer} /\ Promised(n)' = players'[i].progress
    BY <1>1, <1>2, <1>0 DEF View
  <2> QED BY <1>1, <1>2, <2>1, <2>2
<1>5. ASSUME NEW m \in Names, m # n
      PROVE  Holders(m)' = Holders(m) /\ Promised(m)' = Promised(m)
  <2>1. Named(m)' = Named(m)
    BY <1>2 DEF Named
  <2>2. CASE Named(m) = {}
    BY <1>1, <2>1, <2>2 DEF View
  <2>3. ASSUME NEW j \in Named(m)
        PROVE  Holders(m)' = Holders(m) /\ Promised(m)' = Promised(m)
    <3>1. j \in DOMAIN players /\ players[j].name = m /\ players'[j].name = m /\ j # i
      BY <1>2, <1>0, <1>5, <2>3 DEF Named
    <3>2. /\ Holders(m) = {players[j].peer} \ {NoPeer} /\ Promised(m) = players[j].progress
          /\ Holders(m)' = {players'[j].peer} \ {NoPeer} /\ Promised(m)' = players'[j].progress
      BY <1>1, <1>2, <3>1 DEF View
    <3> QED BY <1>2, <3>1, <3>2
  <2> QED BY <2>2, <2>3
<1>6. S!Play(n)
    BY <1>1, <1>0, <1>4, <1>5 DEF S!Play
<1> QED BY <1>0, <1>6 DEF S!Next

LEMMA SavePlayersRefines ==
    ASSUME SavePlayers
    PROVE  UNCHANGED AbstractVars
<1>1. UNCHANGED <<players, epoch>> /\ db' = Saved
    BY DEF SavePlayers
<1>2. ASSUME NEW n \in Names
      PROVE  Holders(n)' = Holders(n) /\ Promised(n)' = Promised(n)
  <2>1. Named(n) = {} => db'[n] = Promised(n)
    BY <1>1 DEF Saved, Promised
  <2> QED BY <1>1, <2>1, SameNamed
<1> QED BY <1>1, <1>2, SameView

LEMMA RemoveRemovedObjectRefines ==
    ASSUME Inv, Inv', NEW i \in DOMAIN players, RemoveRemovedObject(i)
    PROVE  UNCHANGED AbstractVars
<1>0. PICK n \in Names : n = players[i].name
    BY PlayerTypes DEF Inv, TypeOK
<1>1. /\ View /\ View' /\ UNCHANGED epoch /\ players[i].peer = NoPeer
      /\ db' = [db EXCEPT ![n] = players[i].progress] /\ db \in [Names -> 0 .. MaxProgress]
    BY <1>0, InvView, InvViewNext DEF RemoveRemovedObject, Unlinked, Inv, TypeOK
<1>2. /\ \A j \in DOMAIN players' : \E k \in DOMAIN players \ {i} : players'[j] = players[k]
      /\ \A k \in DOMAIN players \ {i} : \E j \in DOMAIN players' : players'[j] = players[k]
    BY WithoutPlayers DEF RemoveRemovedObject
<1>4. Holders(n)' = Holders(n) /\ Promised(n)' = Promised(n)
  <2>1. Named(n)' = {}
    BY <1>0, <1>2 DEF Named, Inv, OnePlayer
  <2>2. Holders(n) = {} /\ Promised(n) = players[i].progress
    BY <1>0, <1>1 DEF View
  <2>3. Holders(n)' = {} /\ Promised(n)' = db'[n]
    BY <1>1, <2>1 DEF View
  <2> QED BY <1>1, <2>2, <2>3
<1>5. ASSUME NEW m \in Names, m # n
      PROVE  Holders(m)' = Holders(m) /\ Promised(m)' = Promised(m)
  <2>1. CASE Named(m) = {}
    <3>1. Named(m)' = {}
      BY <1>2, <2>1 DEF Named
    <3> QED BY <1>1, <1>5, <2>1, <3>1 DEF View
  <2>2. ASSUME NEW k \in Named(m)
        PROVE  Holders(m)' = Holders(m) /\ Promised(m)' = Promised(m)
    <3>1. k \in DOMAIN players \ {i} /\ players[k].name = m
      BY <1>0, <1>5, <2>2 DEF Named
    <3>2. PICK j \in DOMAIN players' : players'[j] = players[k]
      BY <1>2, <3>1
    <3>3. Holders(m) = {players[k].peer} \ {NoPeer} /\ Promised(m) = players[k].progress
      BY <1>1, <3>1 DEF View
    <3>4. players'[j].name = m
      BY <3>1, <3>2
    <3>5. Holders(m)' = {players'[j].peer} \ {NoPeer} /\ Promised(m)' = players'[j].progress
      BY <1>1, <3>4 DEF View
    <3> QED BY <3>2, <3>3, <3>5
  <2> QED BY <2>1, <2>2
<1> QED BY <1>1, <1>4, <1>5, SameView

LEMMA RestartRefines ==
    ASSUME Inv, Inv', Restart
    PROVE  S!Next
<1>1. View /\ View' /\ UNCHANGED epoch /\ db' = Saved /\ DOMAIN players' = {}
    BY InvView, InvViewNext, EmptySeq DEF Restart
<1>2. ASSUME NEW n \in Names
      PROVE  Holders(n)' = {} /\ Promised(n)' = Promised(n)
  <2>1. Named(n)' = {}
    BY <1>1 DEF Named
  <2>2. Holders(n)' = {} /\ Promised(n)' = Saved[n]
    BY <1>1, <2>1 DEF View
  <2>3. Saved[n] = Promised(n)
    BY NamedOne DEF Saved, Promised
  <2> QED BY <2>2, <2>3
<1> QED BY <1>1, <1>2, EndStep

LEMMA RefinementInit == Init => S!Init
<1> SUFFICES ASSUME Init PROVE S!Init
    OBVIOUS
<1>1. \A n \in Names : Named(n) = {}
    BY EmptySeq DEF Init, Named
<1>2. \A n \in Names : Holders(n) = {} /\ Promised(n) = 0
    BY <1>1 DEF Init, Holders, Promised
<1> QED BY <1>2 DEF S!Init, Init

LEMMA RefinementStep == Inv /\ Inv' /\ [Next]_vars => S!Next \/ UNCHANGED AbstractVars
<1> SUFFICES ASSUME Inv, Inv', [Next]_vars PROVE S!Next \/ UNCHANGED AbstractVars
    OBVIOUS
<1>1. CASE UNCHANGED vars
    BY <1>1, SamePlayers DEF vars
<1>2. ASSUME NEW p \in Peers, PeerAdded(p) \/ PeerLost(p) \/ Linger(p)
      PROVE  UNCHANGED AbstractVars
    BY <1>2, SamePlayers DEF PeerAdded, PeerLost, Linger
<1>3. ASSUME NEW p \in Peers, NEW ok \in BOOLEAN,
             \/ (\E n \in Names : HandleInit(p, n, ok)) \/ SrpBytesA(p, ok)
             \/ Register(p, ok) \/ ChangePassword(p, ok)
      PROVE  UNCHANGED AbstractVars
    BY <1>3, SamePlayers DEF HandleInit, SrpBytesA, Register, ChangePassword
<1>4. ASSUME NEW p \in Peers, NEW proof, SrpBytesM(p, proof)
      PROVE  UNCHANGED AbstractVars
    BY <1>4, SamePlayers DEF SrpBytesM
<1>5. ASSUME NEW p \in Peers, HandleInit2(p) \/ ReadyRefused(p) \/ JoinAborts(p)
      PROVE  UNCHANGED AbstractVars
    BY <1>5, SamePlayers DEF HandleInit2, ReadyRefused, JoinAborts
<1>6. ASSUME NEW p \in Peers, Packet(p)
      PROVE  S!Next \/ UNCHANGED AbstractVars
    BY <1>3, <1>4, <1>5, <1>6, JoinRefines DEF Packet
<1>7. ASSUME NEW n \in Names, Kick(n)
      PROVE  UNCHANGED AbstractVars
    BY <1>7, SamePlayers DEF Kick
<1>8. ASSUME NEW p \in Peers, DeletingPeer(p)
      PROVE  S!Next
    BY <1>8, DeletingPeerRefines
<1>9. ASSUME NEW n \in Names, RemovePlayer(n)
      PROVE  S!Next \/ UNCHANGED AbstractVars
    BY <1>9, RemovePlayerRefines
<1>10. ASSUME NEW i \in DOMAIN players, Play(i) \/ RemoveRemovedObject(i)
       PROVE  S!Next \/ UNCHANGED AbstractVars
    BY <1>10, PlayRefines, RemoveRemovedObjectRefines
<1>11. CASE SavePlayers \/ Restart
    BY <1>11, SavePlayersRefines, RestartRefines
<1> QED BY <1>1, <1>2, <1>6, <1>7, <1>8, <1>9, <1>10, <1>11 DEF Next

\* The server keeps what Sessions promises of its players: for any clients and
\* names, a name never plays twice and who comes back goes on with what it had.
THEOREM Refinement == Spec => ImplementsSessions
<1>1. Inv /\ Inv' /\ [Next]_vars => [S!Next]_AbstractVars
    BY RefinementStep
<1>2. Spec => S!Init /\ [][S!Next]_AbstractVars
    BY <1>1, Invariance, RefinementInit, PTL DEF Spec
<1> QED BY <1>2, PTL DEF ImplementsSessions, S!Spec, AbstractVars
=============================================================================
