-------------------------------- MODULE MCIo --------------------------------
(* One or two of each kind on one loop, and few calls. *)
EXTENDS Io, TLC

CONSTANTS s1, s2, srv, udp, kid, job, cw, p1, p2, b1, b2

MCEmitter == {s1, s2, srv, udp, kid, job, cw}
MCPeer == p1 :> p2 @@ p2 :> p1
=============================================================================
