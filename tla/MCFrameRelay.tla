---------------------------- MODULE MCFrameRelay ----------------------------
(* An instance of FrameRelay for TLC. *)
EXTENDS FrameRelay

\* Every PFP there is, or none.
MCPfps == {PfpHeaderNew(m, r, b, e, d, o, re) :
               m \in 0 .. 3, r \in 0 .. 3, b \in 0 .. 3, e \in 0 .. 3,
               d \in BOOLEAN, o \in BOOLEAN, re \in BOOLEAN} \cup {None}

\* Both halves of the number, their order, its ends.
MCSeqCounters == {None, 1, 256, 65534, 65535}

\* What other implementations may send: all flags that matter here with the
\* extensions present, right or wrong, reserved bits set, a payload length
\* above the limit, a byte too many.
MCForeign ==
    {<<t, 1, flags, 0, 0, 0, 0, n>> \o p \o s \o rest :
        t \in {1, 9}, flags \in {0, 7, 8, 16, 24, 26}, n \in {0, 1, 4},
        p \in {<<>>} \cup {<<207, m, 12, c>> : m \in {20, 0}, c \in {2, 6, 254}},
        s \in {<<>>} \cup {<<207, m, i, v, 1, 2, 170>> :
                              m \in {20, 0}, i \in {0, 1}, v \in {1, 49}},
        rest \in {<<>>, <<187>>, <<187, 187, 187, 187>>}}
=============================================================================
