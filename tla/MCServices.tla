----------------------------- MODULE MCServices -----------------------------
(***************************************************************************)
(* The services around the loop, each on its own: a TCPConnector, a        *)
(* TCPConnection from the time it is set up (what the former hands over is *)
(* a handler that is enabled already, see Accept), a log, the signals and  *)
(* the keyboard, the echo programs.  Only the one chosen at the beginning  *)
(* moves.                                                                  *)
(***************************************************************************)
EXTENDS TCPConnector, TCPConnection, AsyncLog, Signals, TCPEcho

VARIABLE chosen

vars == <<chosen, connectorVars, connectionVars, logVars, signalVars, echoVars>>

MCChunks == {<<1>>, <<2>>}

Init ==
  /\ chosen \in {"connector", "connection", "log", "signals", "echo"}
  /\ ConnectorInit /\ ConnectionInit /\ LogInit /\ SignalInit /\ EchoInit

Next ==
  /\ UNCHANGED chosen
  /\ \/ chosen = "connector" /\ ConnectorNext
        /\ UNCHANGED <<connectionVars, logVars, signalVars, echoVars>>
     \/ chosen = "connection" /\ ConnectionNext
        /\ UNCHANGED <<connectorVars, logVars, signalVars, echoVars>>
     \/ chosen = "log" /\ LogNext
        /\ UNCHANGED <<connectorVars, connectionVars, signalVars, echoVars>>
     \/ chosen = "signals" /\ SignalNext
        /\ UNCHANGED <<connectorVars, connectionVars, logVars, echoVars>>
     \/ chosen = "echo" /\ EchoNext
        /\ UNCHANGED <<connectorVars, connectionVars, logVars, signalVars>>

\* Where nothing moves nothing that must move is enabled.
Spec ==
  /\ Init /\ [][Next]_vars
  /\ ConnectorFairness /\ ConnectionFairness /\ LogFairness /\ EchoFairness
=============================================================================
