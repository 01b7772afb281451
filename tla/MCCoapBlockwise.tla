-------------------------- MODULE MCCoapBlockwise --------------------------
(***************************************************************************)
(* Small instances of CoapBlockwise: bodies around the borders of a block, *)
(* options around the borders of the delta and length coding.              *)
(***************************************************************************)
EXTENDS CoapBlockwise

MCValue(n, byte) == [i \in 1 .. n |-> byte]

\* Numbers at a distance of 12, 13, 268 and 269 from each other, values of 0, 1,
\* 12, 13 and 269 bytes, equal numbers with different values, bytes that look
\* like the payload marker, an unknown critical option.
MCOptions ==
    {Opt(4, MCValue(8, 255)), Opt(12, <<>>), Opt(12, <<40>>), Opt(15, MCValue(13, 255)),
     Opt(24, MCValue(12, 0)), Opt(280, <<1>>), Opt(292, MCValue(269, 7)),
     Opt(OPT_NUM_URI_PATH, <<115>>), Opt(65001, <<>>)}

MCFirstAsks ==
    {NoBlock} \cup {Blk(0, size, FALSE) : size \in {16, 32, 64}}
              \cup {Blk(num, 16, FALSE) : num \in {1, 16}} \cup {Blk(1, size, FALSE) : size \in {32, 64}}

MCBodySizes == {0, 1, 16, 17, 32, 33, 64, 65, 300}
=============================================================================
