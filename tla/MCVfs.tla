------------------------------- MODULE MCVfs -------------------------------
(* A small filesystem: one layer file, one volume, names a and b.          *)
EXTENDS Vfs, TLC

CONSTANTS p1, p2, vol, lay
Split == [p \in {p1, p2} |-> IF p = p1 THEN {"open", "link", "symlink", "mkdir"}
                           ELSE {"unlink", "rename"}]
PathsDef == {<<"a">>, <<"b">>, <<"a", "b">>}
TargetsDef == {<<"/", "b">>}
FlagsDef == {{"follow", "create"}, {"follow", "truncate"}}
MountDef == {<<"/", "a">>}
StacksDef == {<<>>, <<<<[t |-> "file", p |-> <<"a">>, blob |-> lay]>>>>}
HostDirDef == <<<<"b", vol>>>>
=============================================================================
