----------------------------- MODULE MCForwarder ----------------------------
(* Two requests, and an RPC node that names three leaders: the current    *)
(* one has a QUIC address, the next has none, and the last is known by a   *)
(* plain TPU address near the last port.  The list the handler starts with *)
(* may be empty.                                                           *)
EXTENDS Forwarder

CONSTANTS q1, q2, k1, k2, k3, ip

MCNodes ==
  << [pubkey |-> k2, tpu_quic |-> None, tpu |-> <<ip, 9000>>],
     [pubkey |-> None, tpu_quic |-> <<ip, 7000>>, tpu |-> None],
     [pubkey |-> k1, tpu_quic |-> None, tpu |-> None],
     [pubkey |-> k2, tpu_quic |-> <<ip, 8006>>, tpu |-> <<ip, 8000>>],
     [pubkey |-> k3, tpu_quic |-> None, tpu |-> <<ip, 65532>>] >>

MCRpcAnswers ==
  {[slot |-> 10, leaders |-> <<k2, k1, k3>>, nodes |-> MCNodes]}
=============================================================================
