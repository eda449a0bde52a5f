-------------------------------- MODULE MCECache --------------------------------
EXTENDS ECache, TLC
Op(k, path, name) == [k |-> k, path |-> path, name |-> name, new |-> <<>>, dir |-> FALSE,
                      src |-> NULL]
Open(path) == Op("open", path, "")
Create(path) == Op("create", path, path[Len(path)])
Mkdir(path) == [Create(path) EXCEPT !.dir = TRUE]
Cd(path) == Op("chdir", path, "")
Rm(path) == Op("remove", path, "")
Mv(old, new) == [Op("rename", old, new[Len(new)]) EXCEPT !.new = new]
CloseAll == Op("close", <<>>, "")

\* scripts inside one directory of the root
Work(d) ==
  LET in(n) == <<"/", d, n>> IN
  << <<Create(in("x")), Rm(in("x")), CloseAll>>,
     <<Cd(<<"/", d>>), Open(<<"..", d, "f">>), Cd(<<"/">>), Open(in("no")), CloseAll>>,
     <<Open(in("f")), Mv(in("f"), in("g")), Open(in("g")), CloseAll>>,
     <<Mkdir(in("s")), Mv(in("f"), <<"/", d, "s", "h">>), Rm(in("s"))>>,
     <<Open(in("f")), Rm(in("f")), Create(in("f")), CloseAll>>,
     <<Cd(in("f")), Open(<<"/", d, "f", "no">>), Mv(<<"/", d>>, in("x")), Mkdir(in("f"))>> >>
Over(d) == <<Mkdir(<<"/", d, "s">>), Mkdir(<<"/", d, "t">>), Mv(<<"/", d, "s">>, <<"/", d, "t">>)>>
MCDisks == {(<<Root, "a">> :> "da") @@ (<<Root, "b">> :> "db")
            @@ (<<"da", "f">> :> "fa") @@ (<<"db", "f">> :> "fb")}
Load(a, b) == [calls |-> [p \in Procs |-> IF p = 1 THEN a ELSE b],
               shared |-> FALSE, over |-> FALSE]
Meet == {<<Open(<<"/", "a", "f">>), CloseAll, Open(<<"/", "a", "f">>)>>,
         <<Create(<<"/", "a", "x">>), Rm(<<"/", "a", "x">>), CloseAll>>}
MCRace == {[Load(a, b) EXCEPT !.shared = TRUE] : a, b \in Meet}
Pairs == {<<1, 2>>, <<2, 3>>, <<3, 4>>, <<4, 1>>, <<5, 3>>, <<6, 5>>}
MCLoads == {Load(Work("a")[k[1]], Work("b")[k[2]]) : k \in Pairs}
           \cup {Load(Work("a")[k] \o Work("a")[j], <<>>) : k, j \in 1..6}
           \cup {[Load(Over("a"), <<>>) EXCEPT !.over = TRUE]} \cup MCRace
=============================================================================
