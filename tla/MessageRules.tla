---------------------------- MODULE MessageRules ----------------------------
(***************************************************************************)
(* What every message of the runner protocol must satisfy (Validate of     *)
(* runner/v1/message.go), and how a message becomes a transport frame and  *)
(* a message again (EncodeMessage and DecodeMessage of transport.go). The  *)
(* parts of a message are a function whose domain are those that are       *)
(* there; so are the payload of a capability request and the result of a   *)
(* response. The bytes of frames are FrameTransport's.                     *)
(***************************************************************************)
EXTENDS SessionRules, BatchConversion

CONSTANTS
    NotText,            (* strings a CBOR decoder does not take for text     *)
    MaxMapPairs         (* of a map it takes; stands for array elements too  *)

BatchTypes == {"input_batch", "output_batch"}

(* Parts that only messages of the type of the same name may contain.        *)
OwnParts == {"capability_request", "capability_response", "session_start",
             "session_ready", "session_connect", "session_completed", "credit",
             "edge_stats"}

PlainTypes == {"initialize", "ready", "input_end", "completed", "stop_input",
               "batch_complete", "cancel", "session_connected", "session_run",
               "session_completed"}

MessageTypes ==
    BatchTypes \cup OwnParts \cup PlainTypes \cup {"failed", "log", "progress", "host_resources"}

-----------------------------------------------------------------------------
(* The parts.                                                                *)

FailureValid(failure) == Given({failure.code, failure.message})

HostResourcesValid(resources) ==
    /\ ~(resources.start /\ resources.end)
    /\ resources.memory # Nil
    /\ resources.memory.total > 0
    /\ resources.memory.used <= resources.memory.total

(* What a request of each kind must say.                                     *)
RequiredTexts(kind, payload) ==
    CASE kind = "http" -> {payload.method, payload.url}
      [] kind = "file-read" -> {payload.scope}
      [] kind = "file-write" -> {payload.scope, payload.operation}
      [] kind = "scratch" ->
           {payload.operation} \cup (IF payload.operation = "usage" THEN {} ELSE {payload.path})
      [] kind = "secret" -> {payload.name}

ScratchOperations == {"write", "append", "read", "list", "delete", "usage"}

CapabilityRequestValid(request) ==
    /\ request.id # NoText
    /\ Cardinality(DOMAIN request.payload) = 1
    /\ request.kind \in Capabilities \cap DOMAIN request.payload
    /\ Given(RequiredTexts(request.kind, request.payload[request.kind]))
    /\ request.kind = "scratch" => request.payload["scratch"].operation \in ScratchOperations

(* Mutant: the result need not be of the response's kind.                    *)
AnyResult(response) == TRUE
ResultMatches(response) ==
    "error" \notin DOMAIN response.result => response.kind \in DOMAIN response.result

CapabilityResponseValid(response) ==
    /\ response.id # NoText
    /\ response.kind \in Capabilities
    /\ Cardinality(DOMAIN response.result) = 1
    /\ "error" \in DOMAIN response.result => FailureValid(response.result["error"])
    /\ "http" \in DOMAIN response.result =>
         /\ response.result["http"].status \in 100 .. 999
         /\ response.result["http"].final_url # NoText
    /\ ResultMatches(response)

-----------------------------------------------------------------------------
(* Message.Validate.                                                         *)

(* The part a message must contain, if any.                                  *)
RequiredPart(type) ==
    CASE type \in BatchTypes -> {"batch"}
      [] type = "failed" -> {"error"}
      [] type \in PlainTypes -> {}
      [] OTHER -> {type}

PartValid(part, content) ==
    CASE part = "batch" -> BatchValid(content)
      [] part = "error" -> FailureValid(content)
      [] part = "log" -> content.message # NoText
      [] part = "host_resources" -> HostResourcesValid(content)
      [] part = "capability_request" -> CapabilityRequestValid(content)
      [] part = "capability_response" -> CapabilityResponseValid(content)
      [] part = "session_start" -> SessionStartValid(content)
      [] part = "session_ready" -> SessionReadyValid(content)
      [] part = "session_connect" -> SessionConnectValid(content)
      [] part = "session_completed" -> content.preview # Nil => SessionPreviewValid(content.preview)
      [] part = "credit" -> CreditValid(content)
      [] part = "edge_stats" -> content.edge # NoText
      [] OTHER -> TRUE

(* A log, an error, progress, resources and a configuration may come with any*)
(* type, and are looked at with their own only.                              *)
PartsBelong(message) ==
    \A part \in DOMAIN message.parts :
        /\ part = "batch" => message.type \in BatchTypes
        /\ part \in OwnParts => message.type = part

PartsComplete(message) ==
    /\ RequiredPart(message.type) \subseteq DOMAIN message.parts
    /\ \A part \in DOMAIN message.parts :
          part \in RequiredPart(message.type) \cup OwnParts => PartValid(part, message.parts[part])

Validates(message) ==
    /\ message.abi = ABIVersion
    /\ message.type \in MessageTypes
    /\ PartsBelong(message)
    /\ message.sequence # 0 => message.type \in BatchTypes \cup {"batch_complete"}
    /\ message.type = "batch_complete" => message.sequence # 0
    /\ message.type = "stop_input" => message.port # NoText
    /\ PartsComplete(message)

-----------------------------------------------------------------------------
(* EncodeMessage: a batch message becomes metadata and an Arrow record, any  *)
(* other a control frame. DecodeMessage is the way back.                     *)

Addresses == {"abi", "type", "execution", "node", "port", "edge", "sequence"}

(* Mutant: the edge is left out.                                             *)
WithoutEdge(message) ==
    [name \in Addresses |-> IF name = "edge" THEN NoText ELSE message[name]]
Metadata(message) == [name \in Addresses |-> message[name]]

MetadataValid(metadata) == metadata.abi = ABIVersion /\ metadata.type \in BatchTypes

Frame(message) ==
    IF message.type \in BatchTypes
    THEN [kind |-> "arrow", metadata |-> Metadata(message),
          record |-> BatchToArrow(message.parts["batch"])]
    ELSE [kind |-> "control", message |-> message]

(* EncodeMessage validates the message, and what it made of it.              *)
EncodeAccepts(message) ==
    /\ Validates(message)
    /\ message.type \in BatchTypes =>
         MetadataValid(Metadata(message)) /\ RecordValid(Frame(message).record)

(* The maps of a part of a message, by their sizes, that no check bounds: the *)
(* configuration of a node, the headers of an HTTP request or response.      *)
MapSizes(part, content) ==
    CASE part = "config" -> {content}
      [] part = "session_start" -> {content.nodes[i].config : i \in DOMAIN content.nodes}
      [] part = "capability_request" /\ "http" \in DOMAIN content.payload ->
           {content.payload["http"].headers}
      [] part = "capability_response" /\ "http" \in DOMAIN content.result ->
           {content.result["http"].headers}
      [] OTHER -> {}

(* External: the CBOR decoder takes text that is text, and maps up to its    *)
(* cap; the encoder looks at neither. Strings other than those of the address*)
(* are left out.                                                             *)
TextReads(address) ==
    {address[name] : name \in {"execution", "node", "port", "edge"}} \cap NotText = {}
MapsRead(message) ==
    \A part \in DOMAIN message.parts :
        \A size \in MapSizes(part, message.parts[part]) : size <= MaxMapPairs

Unmarshals(frame) ==
    IF frame.kind = "arrow" THEN TextReads(frame.metadata)
                            ELSE TextReads(frame.message) /\ MapsRead(frame.message)

Message(frame) ==
    IF frame.kind = "control" THEN frame.message
    ELSE [name \in Addresses \cup {"parts"} |->
            IF name = "parts" THEN [part \in {"batch"} |-> ArrowToBatch(frame.record)]
                              ELSE frame.metadata[name]]

DecodeAccepts(frame) ==
    /\ Unmarshals(frame)
    /\ frame.kind = "arrow" => MetadataValid(frame.metadata) /\ RecordValid(frame.record)
    /\ frame.kind = "control" => frame.message.type \notin BatchTypes
    /\ Validates(Message(frame))
=============================================================================
