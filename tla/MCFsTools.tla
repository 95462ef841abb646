------------------------------- MODULE MCFsTools -------------------------------
EXTENDS FsTools

a == <<"a">>
b == <<"b">>
ab == <<"a", "b">>

MCPaths == {<<>>, <<a>>, <<a, b>>, <<ab>>, <<b>>}
MCAllowed == {{}, {<<a>>}}
MCContents == {<<"x">>, <<"x", "y">>}

\* A directory with a file next to another file, and one with a file that a runner cuts.
MCInitTrees == {[p \in MCPaths |-> CASE p \in {<<>>, <<a>>} -> Dir
                                     [] p = <<a, b>> -> File(c)
                                     [] p = <<b>> -> File(<<"y">>)
                                     [] OTHER -> Absent] :
                  c \in {<<"x", "x">>, <<"y", "x", "y">>}}

================================================================================
