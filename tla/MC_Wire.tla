------------------------------ MODULE MC_Wire -------------------------------
EXTENDS Wire

\* One message of every kind the code can decode, with short strings and
\* byte vectors, and a FileResponse whose u64 offset has four distinct
\* bytes so that their order shows.  Every byte stays below 128, so any
\* four of them read as a u32 fit TLC's integers.
MC_CodecCases ==
  { [kind |-> 1, fields |-> <<<<49>>, <<7>>, 1>>],
    [kind |-> 2, fields |-> <<<<49>>, <<>>, TRUE, 1>>],
    [kind |-> 3, fields |-> <<<<102>>, <<47>>, FALSE, 1>>],
    [kind |-> 4, fields |-> <<FALSE, <<100>>, 0, 0>>],
    [kind |-> 4, fields |-> <<TRUE, <<>>, 0, 16909060>>],
    [kind |-> 5, fields |-> <<2, <<1, 2>>, TRUE>>],
    [kind |-> 6, fields |-> <<4, TRUE, <<>>>>],
    [kind |-> 9, fields |-> <<5, <<101>>>>] }
\* The framing is checked with a FileData and a FileAck.
MC_Messages ==
  { [kind |-> 5, fields |-> <<2, <<1, 2>>, TRUE>>],
    [kind |-> 6, fields |-> <<4, TRUE, <<>>>>] }
MC_MaxMsgs == 2
MC_Garbage == {0, 1}
\* A 32-byte key (any key is one a hex string in the configuration gives).
MC_FastKey == [i \in 1..32 |-> (i * 97 + 13) % 256]
=============================================================================
