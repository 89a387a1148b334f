---------------------------- MODULE MCPoliteness ----------------------------
(***************************************************************************)
(* Two hosts and four local addresses for TLC.  Three of the addresses are *)
(* behind one public address, "a", which is the whole pool of host "g";    *)
(* host "h" prefers "b" to "a".  The command to "g" has a port, so that    *)
(* its feedback is filed under a name of its own.                          *)
(***************************************************************************)
EXTENDS Politeness, TLC

MCHostOf == [c \in Command |-> IF c = 2 THEN "g" ELSE "h"]
MCNetlocOf == [MCHostOf EXCEPT ![2] = "g:8080"]
MCBindIps == <<"a1", "a2", "a3", "b">>
MCPublicIp == [ip \in {"a1", "a2", "a3"} |-> "a"]
MCScore == ("g" :> ("a" :> 2 @@ "b" :> 1)) @@ ("h" :> ("a" :> 3 @@ "b" :> 4))
             @@ ("g:8080" :> ("a" :> 1 @@ "b" :> 2))

NoRefresh == [c \in Command |-> {}]

\* For the run about ports: every command goes to port 8080 of host "g".
PortHostOf == [c \in Command |-> "g"]
PortNetlocOf == [c \in Command |-> "g:8080"]
=============================================================================
