--------------------------- MODULE MCIntegration ----------------------------
(* Integration with one or two back ends at a time, short byte streams and *)
(* few events.                                                             *)
EXTENDS Integration

CONSTANTS c1, c2, t1, t2, n1

MCDeployments == {{"tcp", "http", "station"}, {"serial"}, {"mqtt", "station"},
                  {"tcp", "opcua"}, {"opcua", "opcuaclient"}, {"modbus"}}

\* Every short stream, and four long ones: a frame inside a line of text, a
\* start byte that is none before a reading, a frame whose payload looks like a
\* start byte, and a line too long for the parser before a reading.
MCStreams == [1..4 -> Bytes]
    \cup {<<"x", ",", "S", "x", "x", "x", "n">>, <<"S", "n", "x", ",", "x", "n">>,
          <<"S", ",", "S", "x", "x", ",", "x", "n">>,
          <<"x", "x", "x", "x", ",", "x", "n", "x", ",", "x", "n">>}
=============================================================================
