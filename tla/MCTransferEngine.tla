-------------------------- MODULE MCTransferEngine --------------------------
(* Two tasks and one name to write to, so that they meet at that name: both   *)
(* with a file of two chunks and the policy "overwrite", or with a file of    *)
(* one chunk and the other policies; or three tasks that wait for two slots,  *)
(* with no files to copy.                                                     *)
EXTENDS TransferEngine

VARIABLE use

MCSize == [s \in Sources |-> IF s = "long" THEN 2 ELSE 1]
Transfers(s, policies) ==
    [files : {<<[source |-> s, name |-> "f"]>>}, conflict : policies]
Overwriting == Transfers("long", {"overwrite"})
Keeping == Transfers("short", {"skip", "rename"})
EmptyDirectory == [files : {<<>>}, conflict : {"overwrite"}]
MCJobs == Overwriting \cup Keeping \cup EmptyDirectory
Uses == {[jobs |-> Overwriting, tasks |-> 2],
         [jobs |-> Keeping, tasks |-> 2],
         [jobs |-> EmptyDirectory, tasks |-> 3]}

MCInit == Init /\ use \in Uses
MCNext == /\ Next
          /\ UNCHANGED use
          /\ nextID' <= use.tasks
          /\ \A t \in 1..nextID' : job'[t] \in use.jobs
MCSpec == MCInit /\ [][MCNext]_<<vars, use>> /\ Fairness /\ PeerAnswers
=============================================================================
