------------------------------- MODULE MCWire -------------------------------
EXTENDS Wire

CONSTANTS empty, short, blob

\* blob is not UTF-8, and its length takes two bytes.
MCStrings == {empty, short, blob}
MClength == empty :> 0 @@ short :> 127 @@ blob :> 128
MCUtf8 == {empty, short}
=============================================================================
