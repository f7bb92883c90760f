----------------------------- MODULE MCDurableWork -----------------------------
(***************************************************************************)
(* Instances of DurableWork for TLC.                                        *)
(***************************************************************************)
EXTENDS DurableWork

CONSTANTS c1, c2, main, lane

\* startInboxConsumer: without a lane consumer, the main one serves every conversation.
MCServes == [k \in Consumers |->
  IF lane \notin Consumers THEN Conversations
  ELSE IF k = main THEN {c1} ELSE {c2}]
================================================================================
