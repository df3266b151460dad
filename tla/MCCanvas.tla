------------------------------ MODULE MCCanvas ------------------------------
(* Two apps that import sockets or serve a filesystem, a volume, a gateway,  *)
(* a capture node and an uplink, with a full and an attenuated token.        *)
EXTENDS Canvas

CONSTANTS a, b, f, g, c, u

MCIds == {a, b, f, g, c, u}
KindIn(ids) == [x \in ids |-> CASE x = f -> "file" [] x = g -> "gateway"
                              [] x = c -> "capture" [] x = u -> "uplink"
                              [] OTHER -> "app"]
MCKindOf == KindIn(MCIds)
MCComponents == {{"net"}, {"fs"}}
MCTokens == {Uses, {"midi"}}
=============================================================================
