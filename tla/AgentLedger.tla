---------------------------- MODULE AgentLedger ----------------------------
(***************************************************************************)
(* Agent implements Ledger: where a packet waits (table, channel, batch in *)
(* hand) is forgotten, and so are the agent's own datagrams.               *)
(***************************************************************************)
EXTENDS Agent

(* What the collector must not be told about, as flow.rs:39-41 puts it:    *)
(* UDP to the collector's address and port, whoever sends it.              *)
CollectorTraffic ==
  {k \in Key : <<k.protocol, k.dst, k.dst_port>> = <<"udp", CollectorIp, CollectorPort>>}

L == INSTANCE Ledger WITH
       log      <- captured,
       exported <- exported \ {Echo},
       failed   <- failed \ {Echo},
       withheld <- withheld \ {Echo},
       lost     <- lost \ {Echo},
       closed   <- capPc = "done",
       Withheld <- CollectorTraffic

(* The two threads together do what the ledger promises: every step either *)
(* is invisible to it or captures one packet, gives a group of pending     *)
(* packets the same fate without overtaking an earlier one of their flow,  *)
(* or ends the capture with the loss of the newest.  What goes to the      *)
(* collector is never sent, and everything else is (flow.rs:39-46,         *)
(* capture.rs:33-54, main.rs:54-62).                                       *)
ImplementsLedger == L!Spec
=============================================================================
