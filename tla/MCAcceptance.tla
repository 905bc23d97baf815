----------------------------- MODULE MCAcceptance -----------------------------
\* The instance of Acceptance that TLC checks.
EXTENDS Acceptance

MCSelections == {
  <<{"baseline"}, {"node", "plugin", "saveApi"}>>, <<{"mutations", "quit"}, {}>>,
  <<{"baseline", "quit"}, {"node"}>>,
  <<{"offline", "composed"}, {}>>, <<{"tcp_reads", "quit"}, {"rack", "occupied", "parameter"}>>,
  <<{"tcp_reads"}, {}>>, <<{"websocket_reads", "capability"}, {}>>}
===============================================================================
