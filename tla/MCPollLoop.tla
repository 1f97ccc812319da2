------------------------------ MODULE MCPollLoop ------------------------------
(* TLC instance of PollLoop.                                               *)
EXTENDS PollLoop

===============================================================================
