---------------------------- MODULE SessionRules ----------------------------
(***************************************************************************)
(* What the messages that set up and steer an agent's session must satisfy *)
(* (runner/v1/session.go).                                                 *)
(***************************************************************************)
EXTENDS RunnerABI, FiniteSets, FiniteSetsExt

CONSTANTS
    MaxSessionNodes,
    MaxSessionEdges,
    MaxSecrets,         (* secret values of a node, and their bytes          *)
    MaxSecretBytes,
    MaxTLSBytes,
    DigestLength,       (* length of a package digest                        *)
    MaxColumns,         (* of a previewed port                               *)
    MaxPreviewRows,     (* of a preview, and their bytes                     *)
    MaxPreviewBytes

ASSUME SessionAssumption == MaxSessionNodes \in Nat

(* Lists are slices of Go.                                                   *)
ListTyped(list) == Len(list) \in Nat /\ DOMAIN list = 1 .. Len(list)

StartTyped(start) ==
    \A list \in {start.edges, start.boundaries, start.peer_edges} : ListTyped(list)
ConnectTyped(connect) == ListTyped(connect.peers)

Capabilities == {"http", "file-read", "file-write", "scratch", "secret"}

-----------------------------------------------------------------------------
(* SpillLimits. Memory, scratch and frames are in units of the default frame.*)

DefaultSpillLimits == [memory |-> 32, scratch |-> 2048, files |-> 128, frame |-> 1, fanin |-> 8]

WithDefaults(limits) ==
    [name \in DOMAIN limits |->
       IF limits[name] = 0 THEN DefaultSpillLimits[name] ELSE limits[name]]

SpillLimitsValid(given) ==
    LET limits == WithDefaults(given) IN
    /\ limits.files >= 4
    /\ 0 \notin {limits.memory, limits.scratch, limits.frame}
    /\ limits.fanin \in 2 .. 8

-----------------------------------------------------------------------------
(* SessionStart.                                                             *)

GrantedSecrets(node) == IF node.grant = Nil THEN {} ELSE node.grant.secrets

(* A digest is its length; a secret's value is the bytes it takes.           *)
NodeValid(node) ==
    /\ Given({node.id, node.package, node.version})
    /\ node.digest # 0 =>
          /\ node.digest = DigestLength
          /\ node.capabilities # {} => node.grant # Nil
    /\ Cardinality(DOMAIN node.secrets) <= MaxSecrets
    /\ DOMAIN node.secrets \subseteq GrantedSecrets(node)
    /\ MapThenSumSet(LAMBDA name : node.secrets[name], DOMAIN node.secrets) <= MaxSecretBytes
    /\ node.capabilities \subseteq Capabilities
    /\ node.spill # Nil => node.digest = 0 /\ SpillLimitsValid(node.spill)

NodeIDs(start) == {start.nodes[i].id : i \in DOMAIN start.nodes}

PeerTLSValid(tls) == 0 \notin {tls.ca, tls.certificate, tls.key}
                     /\ tls.ca + tls.certificate + tls.key <= MaxTLSBytes

NodesValid(start) ==
    /\ Len(start.nodes) \in 1 .. MaxSessionNodes
    /\ \A i \in DOMAIN start.nodes : NodeValid(start.nodes[i])
    /\ Distinct([i \in DOMAIN start.nodes |-> start.nodes[i].id])
    /\ start.target \in NodeIDs(start) \cup {NoText}

(* Both ends of an edge run here, one end of a boundary edge.                *)
EdgeValid(start, edge) ==
    /\ Given({edge.id, edge.from_port, edge.to_port})
    /\ {edge.from_node, edge.to_node} \subseteq NodeIDs(start)

BoundaryValid(start, boundary) ==
    /\ Given({boundary.edge, boundary.node, boundary.port})
    /\ boundary.node \in NodeIDs(start)
    /\ boundary.direction \in {"input", "output"}

PeerEdgeComplete(edge) ==
    Given({edge.id, edge.from_host, edge.to_host, edge.from_node, edge.to_node,
           edge.from_port, edge.to_port})

(* Mutant: the local end of a peer edge may be at any host.                  *)
PeerEdgeAnywhere(start, edge) ==
    /\ PeerEdgeComplete(edge)
    /\ (edge.from_node \in NodeIDs(start)) # (edge.to_node \in NodeIDs(start))
    /\ edge.from_host # edge.to_host

(* A peer edge leaves or enters this host, at one of its nodes.              *)
PeerEdgeValid(start, edge) ==
    LET fromLocal == edge.from_node \in NodeIDs(start)
        toLocal == edge.to_node \in NodeIDs(start)
    IN  /\ PeerEdgeComplete(edge)
        /\ fromLocal # toLocal
        /\ edge.from_host # edge.to_host
        /\ fromLocal => edge.from_host = start.host
        /\ toLocal => edge.to_host = start.host

(* Edges of the three kinds share one space of names.                        *)
EdgeIDs(start) ==
    [i \in DOMAIN start.edges |-> start.edges[i].id]
    \o [i \in DOMAIN start.boundaries |-> start.boundaries[i].edge]
    \o [i \in DOMAIN start.peer_edges |-> start.peer_edges[i].id]

SessionStartValid(start) ==
    /\ start.execution # NoText
    /\ NodesValid(start)
    /\ \A list \in {start.edges, start.boundaries, start.peer_edges} :
          Len(list) <= MaxSessionEdges
    /\ start.peer_edges # <<>> => start.host # NoText /\ start.tls # Nil
    /\ start.tls # Nil => PeerTLSValid(start.tls)
    /\ \A i \in DOMAIN start.edges : EdgeValid(start, start.edges[i])
    /\ \A i \in DOMAIN start.boundaries : BoundaryValid(start, start.boundaries[i])
    /\ \A i \in DOMAIN start.peer_edges : PeerEdgeValid(start, start.peer_edges[i])
    /\ Distinct(EdgeIDs(start))

-----------------------------------------------------------------------------
(* SessionConnect: the peers of a host and the edges it shares with them.    *)

PeerValid(peer) == Given({peer.host, peer.address}) /\ peer.port # 0

(* Mutant: only the hosts that edges leave need be peers.                    *)
ConnectEdgeFrom(connect, edge) ==
    /\ PeerEdgeComplete(edge)
    /\ (edge.from_host = connect.host) # (edge.to_host = connect.host)
    /\ \E i \in DOMAIN connect.peers : connect.peers[i].host = edge.from_host

ConnectEdgeValid(connect, edge) ==
    LET fromLocal == edge.from_host = connect.host
        toLocal == edge.to_host = connect.host
        other == IF fromLocal THEN edge.to_host ELSE edge.from_host
    IN  /\ PeerEdgeComplete(edge)
        /\ edge.from_host # edge.to_host
        /\ fromLocal # toLocal
        /\ \E i \in DOMAIN connect.peers : connect.peers[i].host = other

SessionConnectValid(connect) ==
    /\ connect.host # NoText
    /\ Len(connect.peers) <= MaxSessionNodes /\ Len(connect.edges) <= MaxSessionEdges
    /\ \A i \in DOMAIN connect.peers : PeerValid(connect.peers[i])
    /\ Distinct([i \in DOMAIN connect.peers |-> connect.peers[i].host])
    /\ \A i \in DOMAIN connect.edges : ConnectEdgeValid(connect, connect.edges[i])
    /\ Distinct([i \in DOMAIN connect.edges |-> connect.edges[i].id])

-----------------------------------------------------------------------------
(* SessionReady, Credit, and the preview in SessionCompleted, whose rows are *)
(* their widths.                                                             *)

SessionReadyValid(ready) == ready.abi = ABIVersion

CreditValid(credit) ==
    /\ {credit.edge, credit.port} # {NoText}
    /\ credit.batches \in 1 .. MaxSessionEdges

PreviewPortValid(port) ==
    /\ port.id # NoText
    /\ port.columns <= MaxColumns
    /\ \A row \in DOMAIN port.rows : port.rows[row] = port.columns

SessionPreviewValid(preview) ==
    LET ports == preview.ports IN
    /\ Len(ports) <= MaxSessionNodes
    /\ \A i \in DOMAIN ports : PreviewPortValid(ports[i])
    /\ Distinct([i \in DOMAIN ports |-> ports[i].id])
    /\ MapThenSumSet(LAMBDA i : Len(ports[i].rows), DOMAIN ports) <= MaxPreviewRows
    /\ MapThenSumSet(LAMBDA i : ports[i].bytes, DOMAIN ports) <= MaxPreviewBytes

-----------------------------------------------------------------------------
(* How two messages of a session fit together.                               *)

PeerEdges(start) == {start.peer_edges[i] : i \in DOMAIN start.peer_edges}

PeerHosts(start) ==
    (UNION {{edge.from_host, edge.to_host} : edge \in PeerEdges(start)}) \ {start.host}

(* connect tells a started host its own peer edges, and the hosts at their   *)
(* other ends.                                                               *)
Connects(connect, start) ==
    /\ connect.host = start.host
    /\ connect.edges = start.peer_edges
    /\ {connect.peers[i].host : i \in DOMAIN connect.peers} = PeerHosts(start)
=============================================================================
