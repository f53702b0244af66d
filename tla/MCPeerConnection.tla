--------------------------- MODULE MCPeerConnection ---------------------------
(* The first session may be answered (test_peer_connection.c), every one    *)
(* may be offered (peer_signaling.c); closed connections are renegotiated.  *)
EXTENDS PeerConnection

MCAnswered == {1}
================================================================================
