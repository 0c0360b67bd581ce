----------------------------- MODULE FramePipe -----------------------------
(***************************************************************************)
(* What framed transport promises its two ends: frames numbered 1, 2, ...  *)
(* are written one after the other and read in that order, each once and   *)
(* whole. Once a frame was torn nothing is promised beyond it.             *)
(***************************************************************************)
EXTENDS Naturals, Sequences

CONSTANT MaxFrames      (* bound on the frames written                       *)

VARIABLES
    written,    (* frames written whole before any was torn                  *)
    torn,       (* a frame was torn                                          *)
    read        (* numbers of the frames read, 0 for what was never written  *)

vars == <<written, torn, read>>

Init == written = 0 /\ torn = FALSE /\ read = <<>>

Write ==
    /\ ~torn /\ written < MaxFrames
    /\ written' = written + 1
    /\ UNCHANGED <<torn, read>>

Tear ==
    /\ torn' = TRUE
    /\ UNCHANGED <<written, read>>

Read ==
    /\ Len(read) < written
    /\ read' = Append(read, Len(read) + 1)
    /\ UNCHANGED <<written, torn>>

ReadBeyond ==
    /\ torn /\ Len(read) >= written
    /\ \E n \in 0 .. MaxFrames : read' = Append(read, n)
    /\ UNCHANGED <<written, torn>>

Next == Write \/ Tear \/ Read \/ ReadBeyond

Spec == Init /\ [][Next]_vars
=============================================================================
