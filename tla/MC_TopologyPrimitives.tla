------------------------ MODULE MC_TopologyPrimitives ------------------------
EXTENDS TopologyPrimitives

\* Two device ids, each written in either case, and one port: enough for a
\* switch precreated by both primitives and for an ISL between two switches.
MC_Dpids == 1..2
MC_Ports == {1}
=============================================================================
