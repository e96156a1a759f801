----------------------------- MODULE MCCommands -----------------------------
(* Instances of Commands.tla: a directory "a" with a file in it, a file of  *)
(* the same name beside it, and an empty directory.                         *)
EXTENDS Commands

Op(kind, arg, val) == [kind |-> kind, arg |-> arg, val |-> val]
SomeDirs == {<<>>, <<"a">>, <<"e">>}
SomeFiles == {<<"f">>, <<"a", "f">>}
TwoFiles == {"p", "q"}

Settings == {Op("cd", <<"a">>, 0), Op("umask", <<>>, 2), Op("umask", <<>>, 0), Op("cos", <<>>, 1),
             Op("rfio", <<>>, 1), Op("createdir", <<>>, 1)}
Requests == {Op("mkdir", <<"b", "c">>, 0), Op("mkdir", <<"f">>, 0), Op("rm", <<"f">>, 0),
             Op("stat", <<"a">>, 0), Op("df", <<"a">>, 0), Op("dir", <<"e">>, 0)}
SingleOps == Settings \cup Requests

LocalOps == {Op("lcd", <<>>, 0), Op("set", <<>>, 0), Op("set", <<>>, 1), Op("badoption", <<>>, 0),
             Op("unknown", <<>>, 0)}
ManyOps == {Op("cd", <<"a">>, 0), Op("mget", <<>>, 0), Op("mput", <<>>, 1)}
           \cup LocalOps

ManyFaults == {"read", "nomem", "refuse", "setup", "transfer"}

OneMkdir == {Op("mkdir", <<"b", "c">>, 0)}
=============================================================================
