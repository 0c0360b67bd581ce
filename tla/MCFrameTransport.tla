-------------------------- MODULE MCFrameTransport --------------------------
(* Messages that FrameTransport is checked with: sizes at the limits, for an *)
(* encoder and a decoder that admit 4 units and metadata of 1.               *)
EXTENDS FrameTransport

Control(size, readable) ==
    [kind |-> "control", metadata |-> 1, body |-> size, readable |-> readable]
Batch(metadata, body) ==
    [kind |-> "batch", metadata |-> metadata, body |-> body, readable |-> TRUE]

AtTheLimits == {Control(1, FALSE), Batch(1, 2), Batch(1, 3), Batch(2, 1)}
=============================================================================
