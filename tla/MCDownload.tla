---------------------------- MODULE MCDownload ----------------------------
(* A small directory tree with links, a file of four versions (the third is *)
(* empty, the fourth too large), and headers of every shape.                *)
EXTENDS Download, TLC

Names == {"maps", "Sound", "cfg", "link", "alias", "out", "a.bsp", "c.cfg", "w.wad", "l.wad"}
MCLower == [n \in Names \cup {"sound", "SOUND", "bsp", ".wad", "WAD", "*"} |->
              CASE n \in {"Sound", "SOUND"} -> "sound" [] n = "WAD" -> "wad" [] OTHER -> n]
MCDotted == [bsp |-> ".bsp", wad |-> ".wad"] @@ (".wad" :> ".wad")
MCExtension == [n \in Names |->
                  CASE n = "a.bsp" -> ".bsp" [] n \in {"w.wad", "l.wad"} -> ".wad"
                    [] n = "c.cfg" -> ".cfg" [] OTHER -> ""]
MCLists ==
    {[dirs |-> {"maps", "", "SOUND"}, types |-> {"bsp", ".wad"}, rootTypes |-> {"WAD"}],
     [dirs |-> {"*", "maps"}, types |-> {"bsp", "*"}, rootTypes |-> {}],
     [dirs |-> {"maps"}, types |-> {"bsp", ".wad"}, rootTypes |-> {"*"}]}

Dir(at) == [kind |-> "dir", under |-> TRUE, at |-> at, size |-> 0]
File(at) == [kind |-> "file", under |-> TRUE, at |-> at, size |-> 1]
Outside(kind) == [kind |-> kind, under |-> FALSE, at |-> <<"out">>, size |-> 1]

MCTree ==
    <<"maps">> :> Dir(<<"maps">>) @@ <<"Sound">> :> Dir(<<"Sound">>)
    @@ <<"cfg">> :> Dir(<<"cfg">>) @@ <<"link">> :> Dir(<<"cfg">>)
    @@ <<"alias">> :> Dir(<<"maps">>) @@ <<"out">> :> Outside("dir")
    @@ <<"maps", "a.bsp">> :> File(<<"maps", "a.bsp">>)
    @@ <<"maps", "c.cfg">> :> File(<<"maps", "c.cfg">>)
    @@ <<"maps", "w.wad">> :> [File(<<"maps", "w.wad">>) EXCEPT !.size = 9]
    @@ <<"maps", "link", "a.bsp">> :> File(<<"cfg", "a.bsp">>)
    @@ <<"maps", "a.bsp", "cfg">> :> [kind |-> "error", under |-> FALSE, at |-> <<>>, size |-> 0]
    @@ <<"Sound", "a.bsp">> :> File(<<"Sound", "a.bsp">>)
    @@ <<"cfg", "a.bsp">> :> File(<<"cfg", "a.bsp">>)
    @@ <<"link", "a.bsp">> :> File(<<"cfg", "a.bsp">>)
    @@ <<"alias", "a.bsp">> :> File(<<"maps", "a.bsp">>)
    @@ <<"out", "a.bsp">> :> Outside("file")
    @@ <<"w.wad">> :> File(<<"w.wad">>) @@ <<"c.cfg">> :> File(<<"c.cfg">>)
    @@ <<"l.wad">> :> File(<<"maps", "w.wad">>)

\* "/a/b/c" with single or double separators, and targets that are no paths
Spelled(parts, slashes) == FoldLeft(LAMBDA u, p : u \o slashes \o <<p>>, <<>>, parts)
MCUrls ==
    {Spelled(p, s) : p \in UNION {[1..n -> Names] : n \in 1..2}
                             \cup {<<"maps", d, "a.bsp">> : d \in Names \cup {".", ".."}}
                             \cup {<<"maps", "a.bsp", "cfg">>, <<"maps", "x255">>,
                                   <<"maps", "link", "link", "a.bsp">>},
                     s \in {<<"/">>, <<"/", "/">>}}
    \cup {<<>>, <<"/">>, <<"a.bsp">>, <<"/", "ctl">>, <<"/", "maps", "/", "a.bsp", "/">>}
MCFileUrl == <<"/", "maps", "/", "a.bsp">>

MCSize == <<3, 2, 0, 4>>
MCGzSize == <<2, 1, 0, 2>>
MCModified == <<1, 3, 5, 7>>
MCDecimal == [n \in 0..4 |-> <<n>>]

Texts == {<<>>, <<0>>, <<1>>, <<2>>, <<3>>, <<9>>, <<1, 5>>, <<1, 6>>, <<0, 1>>, <<10>>}
MCRangeHeaders ==
    {[form |-> "malformed"]} \cup [form : {"bytes"}, first : Texts, last : Texts]

Item(c, ok) == [coding |-> c, allowed |-> ok]
MCAcceptHeaders ==
    {<<>>, <<Item("gzip", TRUE)>>, <<Item("*", TRUE)>>,
     <<Item("*", TRUE), Item("gzip", FALSE)>>, <<Item("gzip", FALSE), Item("*", TRUE)>>,
     <<Item("br", TRUE), Item("*", FALSE)>>}
=============================================================================
