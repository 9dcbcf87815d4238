----------------------------- MODULE MCSseCodec ------------------------------
(***************************************************************************)
(* Two events, the second with a line separator in a string, and a gap.    *)
(***************************************************************************)
EXTENDS SseCodec

CONSTANTS plain, separated

MCMessages ==
    <<[id |-> 1, type |-> "message", data |-> plain],
      [id |-> 2, type |-> "message", data |-> separated],
      [id |-> 3, type |-> "gap", data |-> plain]>>
=============================================================================
