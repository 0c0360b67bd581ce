-------------------------- MODULE MCMessageExchange --------------------------
(* The messages MessageExchange is checked with: batches of up to two rows   *)
(* and columns, right and wrong; every type with every part; and the starts, *)
(* topologies and answers of small sessions.                                 *)
EXTENDS MessageExchange

Plain(type, parts) ==
    [abi |-> ABIVersion, type |-> type, execution |-> "run", node |-> "n", port |-> "p",
     edge |-> "e", sequence |-> 0, parts |-> parts]

Only(part, content) == [only \in {part} |-> content]

-----------------------------------------------------------------------------
(* Batches.                                                                  *)

ColumnOf(name, type, valid, ints, texts) ==
    [name |-> name, type |-> type, valid |-> valid,
     values |-> [kind \in DataTypes |-> IF kind = "int64" THEN ints ELSE texts]]

Validities == {<<>>, <<TRUE>>, <<FALSE>>, <<TRUE, FALSE>>, <<FALSE, FALSE>>, <<TRUE, TRUE>>}
Ints == {<<>>, <<0>>, <<1>>, <<0, 1>>, <<1, 1>>}
Texts == {<<>>, <<1>>, <<1, 2>>}

SingleColumns ==
    {ColumnOf(name, type, valid, ints, texts) :
       name \in {"a", NoText}, type \in {"int64", "string", "date"}, valid \in Validities,
       ints \in Ints, texts \in Texts}

PairedColumns ==
    {ColumnOf(name, "string", valid, <<>>, texts) :
       name \in {"a", "b"}, valid \in {<<>>, <<FALSE, TRUE>>}, texts \in {<<1>>, <<1, 2>>, <<0, 1>>}}

SomeBatches ==
    {[rows |-> rows, columns |-> <<column>>] : rows \in 0 .. 2, column \in SingleColumns}
    \cup {[rows |-> rows, columns |-> <<one, other>>] :
            rows \in 1 .. 2, one \in PairedColumns, other \in PairedColumns}
    \cup {[rows |-> rows, columns |-> <<>>] : rows \in 0 .. 1}

GoodBatch == [rows |-> 1, columns |-> <<ColumnOf("a", "int64", <<FALSE>>, <<1>>, <<1>>)>>]

-----------------------------------------------------------------------------
(* Sessions: two agents on h1 and h2, peers of these and of h3 and h4.       *)

SomeNode == [id |-> "n1", package |-> "p", version |-> "v", digest |-> 0, capabilities |-> {},
             grant |-> Nil, secrets |-> [name \in {} |-> 0], spill |-> Nil, config |-> 0]
Nodes(ids) == [i \in DOMAIN ids |-> [SomeNode EXCEPT !.id = ids[i]]]

Spill == [memory |-> 0, scratch |-> 0, files |-> 0, frame |-> 0, fanin |-> 0]

SomeNodes ==
    {SomeNode, [SomeNode EXCEPT !.package = NoText], [SomeNode EXCEPT !.digest = 3],
     [SomeNode EXCEPT !.digest = DigestLength, !.capabilities = {"http"}],
     [SomeNode EXCEPT !.digest = DigestLength, !.capabilities = {"http"}, !.grant = [secrets |-> {}]],
     [SomeNode EXCEPT !.capabilities = {"gpu"}],
     [SomeNode EXCEPT !.secrets = [name \in {"key"} |-> 1]],
     [SomeNode EXCEPT !.grant = [secrets |-> {"key", "pin"}], !.secrets = [name \in {"key", "pin"} |-> 1]],
     [SomeNode EXCEPT !.grant = [secrets |-> {"key"}], !.secrets = [name \in {"key"} |-> 9]],
     [SomeNode EXCEPT !.spill = Spill], [SomeNode EXCEPT !.spill = Spill, !.digest = DigestLength],
     [SomeNode EXCEPT !.spill = [Spill EXCEPT !.files = 3]],
     [SomeNode EXCEPT !.spill = [Spill EXCEPT !.fanin = 1]],
     [SomeNode EXCEPT !.config = MaxMapPairs], [SomeNode EXCEPT !.config = MaxMapPairs + 1]}

TLS == [ca |-> 1, certificate |-> 1, key |-> 1]

Start(host, nodes, peerEdges) ==
    [execution |-> "run", host |-> host, nodes |-> nodes, edges |-> <<>>, boundaries |-> <<>>,
     peer_edges |-> peerEdges, target |-> NoText, tls |-> TLS]

PeerEdge(id, hosts, nodes) ==
    [id |-> id, from_host |-> hosts[1], to_host |-> hosts[2], from_node |-> nodes[1],
     to_node |-> nodes[2], from_port |-> "out", to_port |-> "in"]

SomePeerEdges ==
    {PeerEdge(id, hosts, nodes) :
       id \in {"e", NoText}, hosts \in {"h1", "h2", "h3"} \X {"h1", "h2", "h3"},
       nodes \in {"n1", "n2"} \X {"n1", "n2"}}

Fan(hosts) == [i \in DOMAIN hosts |->
                 PeerEdge(<<"e", "f", "g">>[i], <<"h1", hosts[i]>>, <<"n1", "n2">>)]
Fans == {Fan(hosts) : hosts \in {<<"h2", "h3">>, <<"h2", "h2">>, <<"h2", "h3", "h4">>}}

PeerStarts ==
    {Start(host, Nodes(ids), <<edge>>) :
       host \in {"h1", "h2"}, ids \in {<<"n1">>, <<"n2">>, <<"n1", "n2">>}, edge \in SomePeerEdges}
    \cup {Start("h1", Nodes(<<"n1">>), fan) : fan \in Fans}

Local == [id |-> "l", from_node |-> "n1", from_port |-> "out", to_node |-> "n1", to_port |-> "in"]
Boundary == [edge |-> "b", node |-> "n1", port |-> "p", direction |-> "input"]
Lone == Start("h1", Nodes(<<"n1">>), <<>>)
Fanned == Start("h1", Nodes(<<"n1">>), Fan(<<"h2">>))

OtherStarts ==
    {Start("h1", <<node>>, <<>>) : node \in SomeNodes}
    \cup {[Fanned EXCEPT !.tls = tls] :
            tls \in {Nil, [TLS EXCEPT !.key = 0], [TLS EXCEPT !.key = 9]}}
    \cup {[Fanned EXCEPT !.edges = <<edge>>, !.boundaries = <<boundary>>] :
            edge \in {Local, [Local EXCEPT !.id = "e"], [Local EXCEPT !.to_node = "n3"]},
            boundary \in {Boundary, [Boundary EXCEPT !.edge = "l"], [Boundary EXCEPT !.node = "n3"],
                          [Boundary EXCEPT !.direction = "up"]}}
    \cup {[Lone EXCEPT !.execution = NoText], [Lone EXCEPT !.target = "n1"],
          [Lone EXCEPT !.target = "n3"], [Lone EXCEPT !.nodes = <<>>],
          [Lone EXCEPT !.nodes = Nodes(<<"n1", "n1">>)],
          [Lone EXCEPT !.nodes = Nodes(<<"n1", "n2", "n3">>)],
          [Fanned EXCEPT !.edges = [i \in 1 .. 4 |-> [Local EXCEPT !.id = i]]]}

Peer(host) == [host |-> host, address |-> "a", port |-> 1]
PeerLists ==
    {<<>>, <<Peer("h1")>>, <<Peer("h2")>>, <<Peer("h3")>>, <<Peer("h2"), Peer("h3")>>,
     <<Peer("h2"), Peer("h2")>>, <<Peer("h2"), Peer("h3"), Peer("h4")>>,
     <<[Peer("h2") EXCEPT !.port = 0]>>}

SomeConnects ==
    {[host |-> start.host, peers |-> peers, edges |-> start.peer_edges] :
       start \in {s \in PeerStarts : SessionStartValid(s)}, peers \in PeerLists}

-----------------------------------------------------------------------------
(* Capabilities.                                                             *)

Payloads == [kind \in Capabilities |->
    CASE kind = "http" -> [method |-> "get", url |-> "u", headers |-> 1]
      [] kind = "file-read" -> [scope |-> "s"]
      [] kind = "file-write" -> [scope |-> "s", operation |-> "begin"]
      [] kind = "scratch" -> [operation |-> "read", path |-> "p"]
      [] kind = "secret" -> [name |-> "key"]]

ARequest(id, kind, payload) == [id |-> id, kind |-> kind, payload |-> payload]

SomeRequests ==
    {ARequest("cap-1", kind, Only(other, Payloads[other])) :
       kind \in Capabilities \cup {"gpu"}, other \in Capabilities}
    \cup {ARequest("cap-1", "http", [kind \in kinds |-> Payloads[kind]]) :
            kinds \in {{}, {"http", "secret"}}}
    \cup {ARequest(NoText, "http", Only("http", Payloads["http"])),
          ARequest("cap-1", "http", Only("http", [method |-> "get", url |-> NoText, headers |-> 0])),
          ARequest("cap-1", "http", Only("http", [Payloads["http"] EXCEPT !.headers = MaxMapPairs + 1]))}
    \cup {ARequest("cap-1", "scratch", Only("scratch", [operation |-> operation, path |-> NoText])) :
            operation \in {"usage", "list", "move"}}

Results == [kind \in Capabilities \cup {"error"} |->
    CASE kind = "http" -> [status |-> 200, final_url |-> "u", headers |-> MaxMapPairs]
      [] kind = "error" -> [code |-> "c", message |-> "m"]
      [] OTHER -> [data |-> 0]]

AResponse(id, kind, result) == [id |-> id, kind |-> kind, result |-> result]

SomeResponses ==
    {AResponse("cap-1", kind, Only(other, Results[other])) :
       kind \in Capabilities \cup {"gpu"}, other \in Capabilities \cup {"error"}}
    \cup {AResponse("cap-2", "secret", Only("secret", Results["secret"])),
          AResponse("cap-1", "secret", [kind \in {"secret", "error"} |-> Results[kind]]),
          AResponse("cap-1", "secret", [kind \in {} |-> 0]),
          AResponse("cap-1", "secret", Only("error", [code |-> "c", message |-> NoText])),
          AResponse("cap-1", "http", Only("http", [Results["http"] EXCEPT !.status = 99])),
          AResponse("cap-1", "http", Only("http", [Results["http"] EXCEPT !.headers = MaxMapPairs + 1]))}

-----------------------------------------------------------------------------
(* Every part, and every type with at most one part or two.                  *)

Previewed(columns, rows, bytes) ==
    [ports |-> <<[id |-> "p", columns |-> columns, rows |-> rows, bytes |-> bytes],
                 [id |-> "q", columns |-> 1, rows |-> <<1>>, bytes |-> 1]>>]

Contents(part) ==
    CASE part = "batch" -> {GoodBatch}
      [] part = "error" -> {Results["error"], [code |-> NoText, message |-> "m"]}
      [] part = "log" -> {[message |-> "m"], [message |-> NoText]}
      [] part = "progress" -> {[rows |-> 0]}
      [] part = "config" -> {MaxMapPairs, MaxMapPairs + 1}
      [] part = "host_resources" ->
           {[start |-> start, end |-> end, memory |-> memory] :
              start \in BOOLEAN, end \in BOOLEAN,
              memory \in {Nil} \cup [total : 0 .. 2, used : 0 .. 2]}
      [] part = "capability_request" -> SomeRequests
      [] part = "capability_response" -> SomeResponses
      [] part = "session_start" -> OtherStarts
      [] part = "session_ready" -> {[abi |-> abi] : abi \in {ABIVersion, "v0"}}
      [] part = "session_connect" -> SomeConnects
      [] part = "session_completed" ->
           {[preview |-> Nil], [preview |-> Previewed(2, <<2, 2>>, 1)],
            [preview |-> Previewed(2, <<2, 1>>, 1)], [preview |-> Previewed(4, <<>>, 1)],
            [preview |-> Previewed(1, <<1, 1, 1>>, 1)], [preview |-> Previewed(2, <<2>>, 3)],
            [preview |-> [ports |-> <<[id |-> NoText, columns |-> 0, rows |-> <<>>, bytes |-> 0]>>]]}
      [] part = "credit" ->
           {[edge |-> edge, port |-> port, batches |-> batches] :
              edge \in {"e", NoText}, port \in {"p", NoText}, batches \in {0, 1, 3, 4}}
      [] part = "edge_stats" -> {[edge |-> "e"], [edge |-> NoText]}

Parts == OwnParts \cup {"batch", "error", "log", "progress", "host_resources", "config"}

TypeMessages ==
    {Plain(type, [part \in {} |-> Nil]) : type \in MessageTypes \cup {"hello"}}
    \cup UNION {{Plain(type, Only(part, content)) :
                   type \in {part, "failed", "ready", "output_batch"}, content \in Contents(part)} :
                part \in Parts}
    \cup {Plain("output_batch", [both \in {"batch", part} |->
                   IF both = "batch" THEN GoodBatch ELSE CHOOSE c \in Contents(part) : TRUE]) :
            part \in Parts}

AddressMessages ==
    {[Plain(type, IF type \in BatchTypes THEN Only("batch", GoodBatch) ELSE <<>>) EXCEPT
        !.abi = abi, !.edge = edge, !.port = port, !.sequence = sequence] :
       type \in BatchTypes \cup {"batch_complete", "stop_input", "ready"},
       abi \in {ABIVersion, "v0"}, edge \in {"e", NoText, "raw"}, port \in {"p", NoText},
       sequence \in 0 .. 1}

SomeMessages ==
    {Plain("output_batch", Only("batch", batch)) : batch \in SomeBatches}
    \cup {Plain("session_start", Only("session_start", start)) : start \in PeerStarts}
    \cup TypeMessages \cup AddressMessages

SomeFollowUps ==
    {Plain("session_start", Only("session_start", start)) : start \in PeerStarts}
    \cup {Plain("session_connect", Only("session_connect", connect)) : connect \in SomeConnects}
    \cup {Plain("capability_response", Only("capability_response", response)) :
            response \in SomeResponses}
=============================================================================
