--------------------------- MODULE ClientRegistry ---------------------------
(***************************************************************************)
(* domain::ClientRegistry: which peer (transport address) is connected     *)
(* under which pseudonym, and since when.  Every method takes mutex_, a    *)
(* leaf lock, for its whole body, so each is one atomic step of its        *)
(* caller.  Gender and country are carried and never read: left out.       *)
(***************************************************************************)
EXTENDS SteadyClock

CONSTANTS
    Peers,        \* transport addresses, one per client process
    Pseudonyms,   \* the names users type
    NoClient      \* "no entry in clients_"

\* The entry of a connected peer.
ClientInfo == [pseudonym : Pseudonyms, initialTimePoint : Time]

ASSUME NoClientAssumption == NoClient \notin ClientInfo

VARIABLE clients  \* clients_

RegistryTypeOK == clients \in [Peers -> ClientInfo \cup {NoClient}]

RegistryInit == clients = [p \in Peers |-> NoClient]

-----------------------------------------------------------------------------
(* Queries.                                                                *)

isPeerConnected(p) == clients[p] # NoClient

PeersNamed(n) == {p \in Peers : isPeerConnected(p) /\ clients[p].pseudonym = n}

\* A mutant: the check forgets to look at the other peers.
isPseudonymAvailable_AlwaysFree(p, n) == TRUE

\* A peer may take again the name it already has.
isPseudonymAvailable(p, n) == PeersNamed(n) \subseteq {p}

getPseudonymForPeer(p) == clients[p].pseudonym

\* Whichever holder the hash table yields first: a set of candidates.
getPeerForPseudonym(n) == PeersNamed(n)

getConnectedPseudonyms == {clients[p].pseudonym : p \in {q \in Peers : isPeerConnected(q)}}

getConnectionDuration(p) == now - clients[p].initialTimePoint

-----------------------------------------------------------------------------
(* Observer callbacks.                                                     *)

\* Adds the peer, or overwrites its entry: no trace of the former name.
RegistryOnClientConnected(event) ==
    clients' = [clients EXCEPT
                  ![event.peer] = [pseudonym |-> event.pseudonym, initialTimePoint |-> now]]

\* A mutant: nothing is erased.
RegistryOnClientDisconnected_KeepsEntry(event) == clients' = clients

\* Erases the first entry found under the event's pseudonym: not necessarily
\* the event's peer.
RegistryOnClientDisconnected(event) ==
    IF PeersNamed(event.pseudonym) = {}
      THEN clients' = clients
      ELSE \E p \in PeersNamed(event.pseudonym) :
             clients' = [clients EXCEPT ![p] = NoClient]
=============================================================================
