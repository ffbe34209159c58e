----------------------------- MODULE MCScanDisk -----------------------------
(* A disk with a partition, a mapped device, a CD drive without a path.    *)
EXTENDS ScanDisk

MCDisks == <<"dm0", "sda", "sr0">>
MCParts == [d \in {"sda"} |-> <<"sda1">>]
MCProcOrder == <<"sda", "sda1", "sr0", "dm0">>
MCDevDir == <<"mapper", "/dev/sda", "/dev/sda1">>
MCMapperDir == <<"/dev/mapper/vg">>
MCPathDev == [p \in {"/dev/mapper/vg", "/dev/sda", "/dev/sda1"} |->
                CASE p = "/dev/mapper/vg" -> "dm0"
                  [] p = "/dev/sda" -> "sda" [] p = "/dev/sda1" -> "sda1"]

\* Two events or failures in the first scan of links and one in the first of
\* directories; then one until the second scan has ended.
MCMaxEvents ==
    [l \in {"link", "dir"} |->
        [n \in {1, 3, 5, 7} |-> IF n = 1 /\ l = "link" THEN 2 ELSE IF n <= 3 THEN 1 ELSE 0]]
=============================================================================
