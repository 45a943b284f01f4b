--------------------------- MODULE MC_WinDirNotify ---------------------------
EXTENDS WinSync

\* the debris folder "d"; "d\y" lies inside it, "dy" beside it; the old
\* and new names of a rename of "x"
MCChanges ==
    << [a |-> "added", n |-> <<"x">>],
       [a |-> "added", n |-> <<"d", "\\", "y">>],
       [a |-> FILE_ACTION_RENAMED_OLD_NAME, n |-> <<"x">>],
       [a |-> "newname", n |-> <<"d", "y">>] >>

MCIgnore == <<"d">>

\* every name of one to three characters over d, y and the separator
MCNameSpace ==
    UNION {[1..k -> {"d", "y", "\\"}] : k \in 1..3}

MCActions == {"added", "newname", FILE_ACTION_RENAMED_OLD_NAME}

\* the scanned folder F1: its "." and ".." links, a hidden file "a", a
\* folder ".a" (a dot name that is not a link), a hidden system file "s"
\* and a folder that is a reparse point "r"; another folder F2, a file X
MCObjs == {"F1", "F2", "X"}
MCAttrs == [o \in MCObjs |-> IF o = "X" THEN 32 ELSE FILE_ATTRIBUTE_DIRECTORY]
MCListing ==
    [o \in MCObjs |->
        IF o = "F1"
        THEN << [n |-> <<".">>, attrs |-> 16], [n |-> <<".", ".">>, attrs |-> 16],
                [n |-> <<"a">>, attrs |-> 2], [n |-> <<".", "a">>, attrs |-> 16],
                [n |-> <<"s">>, attrs |-> 6], [n |-> <<"r">>, attrs |-> 1040] >>
        ELSE IF o = "F2"
        THEN << [n |-> <<".">>, attrs |-> 16], [n |-> <<".", ".">>, attrs |-> 16],
                [n |-> <<"b">>, attrs |-> 32] >>
        ELSE << >>]
MCReplacements == {"F2", "X", NoObj}
=============================================================================
