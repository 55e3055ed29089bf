---------------------------- MODULE MCSshSession ----------------------------
(* Two application goroutines against one session.  The output channel has  *)
(* one place and the peer one chunk in flight for each pump, so a pump soon  *)
(* blocks on its second chunk.                                               *)
EXTENDS SshSession
=============================================================================
