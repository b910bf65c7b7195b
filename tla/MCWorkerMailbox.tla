-------------------------- MODULE MCWorkerMailbox --------------------------
(***************************************************************************)
(* One sender of several messages, the lifecycle thread and a mailbox of   *)
(* one message: the two submitters find the mailbox full, empty and being  *)
(* emptied, and either waits for the space the other one takes.            *)
(***************************************************************************)
EXTENDS WorkerMailbox

CONSTANTS sender
MCSenders == {sender}
=============================================================================
