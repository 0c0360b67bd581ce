--------------------------- MODULE MessageExchange ---------------------------
(***************************************************************************)
(* Messages on their way through sessions (runner/v1/transport.go,         *)
(* message.go, session.go, arrow_batch.go, and the capability methods of   *)
(* go/sdk.go): somebody encodes one, the other end decodes it and may pass *)
(* it on, as a runner that emits the batch it got, and once it is there    *)
(* another may be sent: the host that starts two agents, tells one its     *)
(* peers or answers a capability request.                                  *)
(***************************************************************************)
EXTENDS MessageRules

CONSTANTS
    Messages,           (* what may be sent first                            *)
    FollowUps,          (* what may be sent after a start or a request       *)
    MaxHops             (* bound on how often a message is passed on         *)

(* A message has its address and its parts, and each part what Go gives it.  *)
PartTyped(part, content) ==
    /\ part = "batch" => BatchTyped(content)
    /\ part = "session_start" => StartTyped(content)
    /\ part = "session_connect" => ConnectTyped(content)
    /\ part = "capability_request" => DOMAIN content.payload \subseteq Capabilities

MessageTyped(document) ==
    /\ document = [name \in Addresses \cup {"parts"} |-> document[name]]
    /\ \A part \in DOMAIN document.parts : PartTyped(part, document.parts[part])

ASSUME MessagesAssumption == \A document \in Messages \cup FollowUps : MessageTyped(document)
ASSUME HopsAssumption == MaxHops \in Nat

VARIABLES
    given,      (* the message as its sender had it                          *)
    message,    (* what the end that has it now holds                        *)
    frame,      (* the frame between two ends                                *)
    hops,       (* how often it was received                                 *)
    received,   (* the messages that reached the other end before            *)
    pc          (* where the message is                                      *)

vars == <<given, message, frame, hops, received, pc>>

Init ==
    /\ given \in Messages /\ message = given
    /\ frame = Nil /\ hops = 0 /\ received = {}
    /\ pc = "held"

EncodeMessage ==
    /\ pc = "held" /\ hops < MaxHops
    /\ IF EncodeAccepts(message) THEN frame' = Frame(message) /\ pc' = "sent"
                                 ELSE pc' = "refused" /\ UNCHANGED frame
    /\ UNCHANGED <<given, message, hops, received>>

DecodeMessage ==
    /\ pc = "sent"
    /\ IF DecodeAccepts(frame)
       THEN message' = Message(frame) /\ hops' = hops + 1 /\ pc' = "held"
       ELSE pc' = "lost" /\ UNCHANGED <<message, hops>>
    /\ frame' = Nil
    /\ UNCHANGED <<given, received>>

(* External: the host, or the runner, goes on.                               *)
SendNext ==
    /\ pc = "held" /\ hops > 0
    /\ message.type \in {"session_start", "capability_request"} /\ received = {}
    /\ received' = {message}
    /\ given' \in FollowUps /\ message' = given' /\ hops' = 0
    /\ UNCHANGED <<frame, pc>>

Next == EncodeMessage \/ DecodeMessage \/ SendNext

Spec == Init /\ [][Next]_vars

-----------------------------------------------------------------------------
(* Properties.                                                               *)

(* What one end encodes the other refuses only if the encoding is one its CBOR*)
(* decoder does not take (transport.go:313, 343), although the two judge     *)
(* different things: the sender a batch, the receiver an Arrow record and the*)
(* batch it makes of it. What was received once is never refused again, by   *)
(* the end that passes it on or by the next, and has the parts that readers  *)
(* of its type dereference (transport.go:191-214, 281-309,                   *)
(* message.go:377-455).                                                      *)
AcceptedIsReceived ==
    /\ pc = "lost" => hops = 0 /\ ~Unmarshals(Frame(message))
    /\ hops > 0 => pc # "refused" /\ RequiredPart(message.type) \subseteq DOMAIN message.parts

SameContent(one, other) ==
    /\ \A name \in Addresses : one[name] = other[name]
    /\ IF one.type \in BatchTypes
       THEN /\ one.parts["batch"].rows = other.parts["batch"].rows
            /\ Content(one.parts["batch"]) = Content(other.parts["batch"])
       ELSE one.parts = other.parts

(* A message says the same wherever it got: who it is for, its sequence, and *)
(* every cell of its batch with its absence (transport.go:205-213).          *)
ContentSurvives == hops > 0 => SameContent(given, message)

(* The first conversion to Arrow drops what a batch need not hold (a validity*)
(* without a null, values under a null, slices of other types), and no later *)
(* one changes anything: however many runners pass a batch on, they all get  *)
(* the same (arrow_batch.go:62-134).                                         *)
RelayIsStable == [][hops > 0 /\ hops' = hops + 1 => message' = message]_vars

(* The kind whose method asked, and what the method returns of the answer.   *)
Asked(request) == request.parts["capability_request"].payload
Answer(response) == response.parts["capability_response"]

(* An answer to a request, of its ID and kind, that is no error has the part *)
(* the capability method dereferences (sdk.go:136-177,                       *)
(* docs/runner-abi.md:146-147).                                              *)
AnswerHasResult ==
    \A request \in received :
        /\ request.type = "capability_request"
        /\ message.type = "capability_response" /\ hops > 0
        /\ Answer(message).id = request.parts["capability_request"].id
        /\ Answer(message).kind = request.parts["capability_request"].kind
        /\ "error" \notin DOMAIN Answer(message).result
        => DOMAIN Asked(request) \subseteq DOMAIN Answer(message).result

(* An edge that two agents were started with runs between them, from a node  *)
(* of one to a node of the other: neither start says so by itself            *)
(* (session.go:397-420).                                                     *)
PeerEdgesMeet ==
    \A first \in received :
        /\ {first.type, message.type} = {"session_start"} /\ hops > 0
        => LET one == first.parts["session_start"]
               other == message.parts["session_start"]
           IN  one.host # other.host =>
                 \A edge \in PeerEdges(one) \cap PeerEdges(other) :
                   \/ edge.from_node \in NodeIDs(one) /\ edge.to_node \in NodeIDs(other)
                   \/ edge.from_node \in NodeIDs(other) /\ edge.to_node \in NodeIDs(one)

ListedPeers(connect) ==
    /\ \A i \in DOMAIN connect.peers : PeerValid(connect.peers[i])
    /\ Distinct([i \in DOMAIN connect.peers |-> connect.peers[i].host])

(* A host that started an agent can connect it: the edges of an accepted     *)
(* start, with the hosts at their other ends, are a topology session_connect *)
(* takes, unless there are more such hosts than it may list (session.go:424).*)
StartedConnects ==
    \A start \in received :
        /\ start.type = "session_start"
        /\ message.type = "session_connect" /\ message.abi = ABIVersion
        /\ message.sequence = 0 /\ DOMAIN message.parts = {"session_connect"}
        /\ Connects(message.parts["session_connect"], start.parts["session_start"])
        /\ ListedPeers(message.parts["session_connect"])
        /\ start.parts["session_start"].peer_edges # <<>>
        /\ Cardinality(PeerHosts(start.parts["session_start"])) <= MaxSessionNodes
        => pc # "refused"
=============================================================================
