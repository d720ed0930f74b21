---------------------------- MODULE MCDiskLayout ----------------------------
(***************************************************************************)
(* DiskLayout with sides of up to three files, good ones and ones that     *)
(* fds_to_bin or block_decode does not take.                               *)
(***************************************************************************)
EXTENDS DiskLayout

CONSTANTS MaxFiles, MaxSize

Side(head, info, files) == [head |-> head, info |-> info, files |-> files]
GoodFile(n) == [size |-> n, type |-> 4]
Good == {Side("hvc", 2, f) : f \in UNION {[1 .. n -> {GoodFile(k) : k \in 1 .. MaxSize}] : n \in 0 .. MaxFiles}}
Bad == {Side("one", 2, <<>>), Side("other", 2, <<>>), Side("hvc", 0, <<GoodFile(1)>>),
        Side("hvc", 2, <<[size |-> 1, type |-> 0], GoodFile(1)>>),
        Side("hvc", 2, <<GoodFile(1), [size |-> 2, type |-> 0]>>)}
MCGames == {<<s>> : s \in Good \cup Bad}
           \cup {<<s, t>> : s \in Good, t \in Bad \cup {Side("hvc", 2, <<GoodFile(1)>>)}}
           \cup {<<s, t>> : s \in Bad, t \in {Side("hvc", 2, <<>>)}}
=============================================================================
