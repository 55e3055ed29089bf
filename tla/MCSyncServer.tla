---------------------------- MODULE MCSyncServer ----------------------------
(* Two applications of one account.  Every mix of four requests is out of    *)
(* reach, so a behaviour is of one of three kinds: four requests about the   *)
(* vault (two uploads, or an upload and two pulls), or three about accounts  *)
(* and devices, or three of an account that exists with a device revoked     *)
(* among them.                                                               *)
EXTENDS SyncServer, TLC

VARIABLE use

Uses == {[kinds |-> {"get", "put"}, reqs |-> 4],
         [kinds |-> {"register", "login", "get"}, reqs |-> 3],
         [kinds |-> {"login", "revoke", "get", "put"}, reqs |-> 3]}

MCInit == Init /\ use \in Uses
MCNext == /\ Next
          /\ UNCHANGED use
          /\ sent' <= use.reqs
          /\ \A r \in 1..sent' : req'[r].kind \in use.kinds

MCSpec == MCInit /\ [][MCNext]_<<vars, use>>

Symmetry == Permutations(Apps)
=============================================================================
