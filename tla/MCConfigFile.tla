---------------------------- MODULE MCConfigFile ----------------------------
(* ConfigFile as TLC checks it: two files, one of them under two names.     *)
EXTENDS ConfigFile

f == <<"f">>
g == <<"g">>
h == <<"h">>
x == <<"x">>

MCInode == {1, 2}
MCFileOf == (f :> 1) @@ (g :> 2) @@ (h :> 1)
MCNames == {f, x}
MCChars ==
    [item |-> <<"f", " ", "g", "\n">>,
     quoted |-> <<" ", "g", "\"", "\\", "\"", ">", "\"", "#", "f", "\n">>,
     comment |-> <<" ", "#", "<", "\n">>,
     block |-> <<"<", "f", " ", "g", ">", "\n">>,
     end |-> <<" ", "<", "/", "f", ">", "\n">>,
     include |-> <<"<", "!", "g", ">", "\n">>,
     back |-> <<"<", "!", "h", ">", "\n">>,
     missing |-> <<"<", "!", "x", ">", "\n">>,
     open |-> <<"\"", "f", "\n">>,
     stray |-> <<">", "\n">>,
     cut |-> <<"f", " ", "g">>,
     remark |-> <<" ", "#", "f">>]

MCLine == DOMAIN MCChars

\* A line may begin with a stray '>', which read_item passes over.
MCMeans ==
    [item |-> [kind |-> "item", name |-> f, values |-> <<g>>],
     quoted |-> [kind |-> "item", name |-> g, values |-> <<<<"\"", ">">>>>],
     comment |-> [kind |-> "nothing"],
     block |-> [kind |-> "block", name |-> f, values |-> <<g>>],
     end |-> [kind |-> "end", name |-> f],
     include |-> [kind |-> "include", name |-> g],
     back |-> [kind |-> "include", name |-> h],
     missing |-> [kind |-> "include", name |-> x],
     open |-> Bad,
     stray |-> [kind |-> "nothing"],
     cut |-> [kind |-> "item", name |-> f, values |-> <<g>>],
     remark |-> [kind |-> "nothing"]]

\* Only the last line of a file may lack its newline.
Ended(t) == \A k \in 1..Len(t) - 1 : t[k] \notin {"cut", "remark"}
Included(t) == \E k \in DOMAIN t : t[k] = "include"

\* The second file is empty where nothing includes it.
MCTexts ==
    LET short == {t \in BoundedSeq(MCLine, 2) : Ended(t)}
        long == {t \in BoundedSeq(MCLine, 3) : Ended(t)}
    IN  {<<t, <<>>>> : t \in long} \cup {<<t, u>> : t \in {t \in long : Included(t)}, u \in short}
=============================================================================
