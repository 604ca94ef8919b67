----------------------------- MODULE MCServers -----------------------------
EXTENDS Servers

\* One, two and three tiles: base64 ends with each of its paddings.
MCMapSizes == {<<1, 1>>, <<2, 1>>, <<1, 3>>}

(* LZ4 writes fewer than 13 bytes as they are, after a token with their      *)
(* number.  Bound: the maps above are that small.                          *)
MCCompressed(bytes) == <<16 * Len(bytes)>> \o bytes
MCDecompressed(bytes) == Tail(bytes)

\* Every message, whether the server has a handler for it or not.
MCArriving == Classes

=============================================================================
