--------------------------- MODULE MC_NodeRecords ---------------------------
EXTENDS NodeKeys

\* times as <<hi, lo>>: within 32 bits, the only ones the records keep
MCTimes == {<<0, 0>>, <<0, 1700000000>>}

MCNodeObjs ==
    [type: {FILENODE, FOLDERNODE, 2}, size: {0, 7}, h: {"h1"}, parent: {UNDEF, "h2"},
     owner: {"u1"}, cts: MCTimes, ctime: {<<0, 1700000000>>}, keylen: {0, 16, 32},
     undecrypted: BOOLEAN, falen: {0, 3}, attrs: {"attrs"}]

MCLocalObjs ==
    [type: {FILENODE, FOLDERNODE}, size: {0, 7}, fsid: {9}, dbid: {0, 4},
     node: {UNDEF, "h1"}, namelen: {0, 3}, crc: {"crc"}, mtime: {0, 1700000000}]

\* keystrings for the delivered file: one with another user's entry before
\* the share's, one whose first entry is the share's and does not decrypt
MCKeystrings ==
    { << [holder |-> "u2", ok |-> TRUE], [holder |-> "h2", ok |-> TRUE] >>,
      << [holder |-> "h2", ok |-> FALSE], [holder |-> "u1", ok |-> TRUE] >> }
=============================================================================
