---------------------------- MODULE MCVaultQuota ----------------------------
EXTENDS VaultQuota
CONSTANTS o1, o2, i1, i2, f1, f2

\* A create and a removal race at the folder cap and at the last byte, an item id
\* comes back, an edit grows a row, an import of two rows meets a row created
\* meanwhile.
Arriving ==
    {[kind |-> "create", ids |-> {i1}, size |-> 1],
     [kind |-> "create", ids |-> {f1}, size |-> 2],
     [kind |-> "update", ids |-> {i1}, size |-> 2],
     [kind |-> "remove", ids |-> {i1, f2}, size |-> 1],
     [kind |-> "import", ids |-> {i1, i2}, size |-> 1],
     [kind |-> "importTxn", ids |-> {i1, i2}, size |-> 1],
     [kind |-> "rotate", ids |-> {i1}, size |-> 1]}

\* A vault with one item and one folder.
Starting == {[id \in {i1, i2, f1, f2} |-> CASE id = i1 -> 2 [] id = f2 -> 1 [] OTHER -> 0]}
=============================================================================
