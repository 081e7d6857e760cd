----------------------------- MODULE MCTcpClient -----------------------------
(* TcpClient on a small instance: a server that executes some calls, refuses *)
(* some for want of the procedure, and denies some.                          *)
EXTENDS TcpClient

MCHeaders == {
    [mtype |-> "REPLY", reply_stat |-> "MSG_ACCEPTED", accept_stat |-> "SUCCESS"],
    [mtype |-> "REPLY", reply_stat |-> "MSG_ACCEPTED", accept_stat |-> "PROC_UNAVAIL"],
    [mtype |-> "REPLY", reply_stat |-> "MSG_DENIED", accept_stat |-> "SUCCESS"] }

=============================================================================
