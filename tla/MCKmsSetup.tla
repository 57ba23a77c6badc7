------------------------------ MODULE MCKmsSetup ------------------------------
EXTENDS KmsSetup

MCEncoders == {NoEncoder, {}, {2, 3}}

Mode(h, v, preferred, refresh) ==
    [h |-> h, v |-> v, preferred |-> preferred, refresh |-> refresh]
MCModeLists ==
    {<<>>,
     <<Mode(72, 48, FALSE, 60), Mode(64, 40, TRUE, 50), Mode(64, 56, TRUE, 0)>>,
     <<Mode(64, 56, FALSE, 0), Mode(64, 40, FALSE, 60)>>}

\* Equally far from two modes, nearest to the last, and so large that squares wrap.
MCModeRequests == {NoRequest, [x |-> 0, y |-> 40], [x |-> 64, y |-> 48],
                   [x |-> 300, y |-> 300]}

\* A rate that is missing, negative or too high, and a size that a uint16_t does
\* not hold: with ShortMax = 255 the size stored is 0.
MCForceRequests ==
    {NoRequest} \cup [x : {68}, y : {41}, rate : {60, 0, 2000}]
                \cup {[x |-> 260, y |-> 256, rate |-> -60]}
=============================================================================
