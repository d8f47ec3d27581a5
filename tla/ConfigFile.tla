----------------------------- MODULE ConfigFile -----------------------------
(***************************************************************************)
(* config_doc and its loader (src/libll++/config_file.cpp): files of lines *)
(*     name value ...      <name value ...>      </name>      <!file>      *)
(* are read one character ahead into a tree of items; an included file is  *)
(* read in the middle of the one that names it.                            *)
(*                                                                         *)
(* The contents of the files are lines out of a table, Chars, that also    *)
(* says what each line is meant to be, Means; the loader sees characters   *)
(* only.  A carriage return, which getc drops, and a tab, which is taken   *)
(* as a space, are left out; so are the positions in messages.             *)
(***************************************************************************)
EXTENDS Integers, SequencesExt

CONSTANTS
    Inode,          \* files, told apart by st_dev and st_ino
    FileOf,         \* the file of each name that open finds
    Names,          \* names of files the client may ask for
    Line, Chars, Means,
    Texts,          \* what the files may hold: sequences of lines, of which only
                    \* the last may lack its newline
    MaxLoads        \* calls of load (bound)

ASSUME ConfigAssumption ==
    /\ \A n \in DOMAIN FileOf : FileOf[n] \in Inode
    /\ Texts \subseteq [Inode -> Seq(Line)] /\ MaxLoads \in Nat
    /\ \A t \in Texts : \A i \in Inode : \A k \in 1..Len(t[i]) - 1 : Last(Chars[t[i][k]]) = "\n"

VARIABLES
    lines,          \* what is in the files
    files,          \* _files, the front first: each with the place of the
                    \* character read ahead (_c of the front one)
    items,          \* the items of the document, in the order they were pushed
    cur,            \* _cur, the open block: its place in items, or 0
    result,         \* what load returned last
    asked,          \* the name it was asked for
    descriptors,    \* descriptors open
    refused,        \* includes refused as recursive
    loads           \* calls of load made

loaderVars == <<lines, files, items, cur, result, asked, descriptors, refused, loads>>

Content(i) == FlattenSeq([k \in DOMAIN lines[i] |-> Chars[lines[i][k]]])

-----------------------------------------------------------------------------
(* get_token: the token of the characters s that begins at place i, its    *)
(* text, and the place behind it.  EOF is at the end and stays there.      *)

EOF == "eof"
At(s, i) == IF i > Len(s) THEN EOF ELSE s[i]
Token(tk, text, at) == [tk |-> tk, text |-> text, at |-> at]

\* A string in quotes, from behind the first one.
Quoted(s, from) ==
    LET more(c, rest) == [rest EXCEPT !.text = <<c>> \o @]
        read[i \in Nat] ==
            CASE At(s, i) = "\"" -> Token("string", <<>>, i + 1)
              [] At(s, i) \in {EOF, "\n"} -> Token("fail", <<>>, i)
              [] At(s, i) = "\\" ->
                    IF At(s, i + 1) \in {"\\", "\""} THEN more(s[i + 1], read[i + 2])
                    ELSE Token("fail", <<>>, i)
              [] OTHER -> more(s[i], read[i + 1])
    IN  read[from]

Bare(s, from) ==
    LET stop == CHOOSE j \in from..Len(s) + 1 :
                    /\ At(s, j) \in {EOF, "#", "\n", " ", "\"", "<", ">"}
                    /\ \A i \in from..j - 1 : At(s, i) \notin {"#", "\n", " ", "\"", "<", ">"}
    IN  Token("string", SubSeq(s, from, stop - 1), stop)

\* Mutant: a comment takes the end of its line with it.
GetTokenPastLine(s, from) ==
    LET read[i \in Nat] ==
            LET c == At(s, i)
            IN  CASE c = " " -> read[i + 1]
                  [] c = "#" -> read[1 + CHOOSE j \in i..Len(s) + 1 :
                                    At(s, j) \in {EOF, "\n"} /\ \A k \in i..j - 1 : s[k] # "\n"]
                  [] c \in {EOF, "\n", ">"} -> Token(c, <<>>, IF c = EOF THEN i ELSE i + 1)
                  [] c = "<" -> IF At(s, i + 1) \in {"/", "!"}
                                THEN Token(c \o s[i + 1], <<>>, i + 2) ELSE Token(c, <<>>, i + 1)
                  [] c = "\"" -> Quoted(s, i + 1)
                  [] OTHER -> Bare(s, i)
    IN  read[from]

GetToken(s, from) ==
    LET read[i \in Nat] ==
            LET c == At(s, i)
            IN  CASE c = " " -> read[i + 1]
                  [] c = "#" -> read[CHOOSE j \in i..Len(s) + 1 :
                                    At(s, j) \in {EOF, "\n"} /\ \A k \in i..j - 1 : s[k] # "\n"]
                  [] c \in {EOF, "\n", ">"} -> Token(c, <<>>, IF c = EOF THEN i ELSE i + 1)
                  [] c = "<" -> IF At(s, i + 1) \in {"/", "!"}
                                THEN Token(c \o s[i + 1], <<>>, i + 2) ELSE Token(c, <<>>, i + 1)
                  [] c = "\"" -> Quoted(s, i + 1)
                  [] OTHER -> Bare(s, i)
    IN  read[from]

\* Strings up to another token: that token, with the strings as its text.
Strings(s, from) ==
    LET read[i \in Nat] ==
            LET t == GetToken(s, i)
            IN  IF t.tk # "string" THEN [t EXCEPT !.text = <<>>]
                ELSE LET rest == read[t.at] IN [rest EXCEPT !.text = <<t.text>> \o @]
    IN  read[from]

-----------------------------------------------------------------------------
(* config_loader *)

LoaderInit ==
    /\ lines \in Texts
    /\ files = <<>> /\ items = <<>> /\ cur = 0
    /\ result = "none" /\ asked = CHOOSE n \in Names : TRUE
    /\ descriptors = 0 /\ refused = 0 /\ loads = 0

Innermost == files[1]
Chr == Content(Innermost.inode)
First == GetToken(Chr, Innermost.at)
Second == GetToken(Chr, First.at)

\* The characters up to at have been read.
Ahead(at) == [files EXCEPT ![1].at = at]

Failed(extra) ==
    /\ result' = "fail"
    /\ files' = <<>>
    /\ descriptors' = descriptors - Len(files) + extra
    /\ UNCHANGED <<items>>

Accepted == UNCHANGED <<result, descriptors>>

\* load: config_doc clears what it holds first.
Load(name) ==
    /\ result # "loading" /\ loads < MaxLoads
    /\ loads' = loads + 1 /\ asked' = name
    /\ items' = <<>> /\ cur' = 0
    /\ IF name \in DOMAIN FileOf
       THEN /\ files' = <<[inode |-> FileOf[name], at |-> 1]>>
            /\ result' = "loading"
            /\ descriptors' = descriptors + 1
       ELSE files' = <<>> /\ result' = "fail" /\ UNCHANGED descriptors
    /\ UNCHANGED <<lines, refused>>

\* The file under it is read on from: getc passes the character that was ahead
\* when it included this one.
EndOfFile ==
    /\ First.tk = EOF
    /\ files' = [k \in 1..Len(files) - 1 |->
                    IF k > 1 THEN files[k + 1]
                    ELSE [files[2] EXCEPT !.at = IF At(Content(files[2].inode), @) = EOF THEN @ ELSE @ + 1]]
    /\ descriptors' = descriptors - 1
    /\ result' = IF Len(files) = 1 THEN "ok" ELSE "loading"
    /\ UNCHANGED <<items, cur, refused>>

\* An empty line, and any token no item begins with.
Nothing ==
    /\ First.tk \in {"\n", ">"}
    /\ files' = Ahead(First.at)
    /\ Accepted /\ UNCHANGED <<items, cur, refused>>

Item ==
    LET last == Strings(Chr, First.at)
    IN  /\ First.tk = "string"
        /\ IF last.tk = "\n"
           THEN /\ items' = Append(items, [name |-> First.text, values |-> last.text, parent |-> cur])
                /\ files' = Ahead(last.at)
                /\ Accepted
           ELSE Failed(0)
        /\ UNCHANGED <<cur, refused>>

BlockBegin ==
    LET last == Strings(Chr, Second.at)
        end == GetToken(Chr, last.at)
    IN  /\ First.tk = "<"
        /\ IF Second.tk = "string" /\ last.tk = ">" /\ end.tk = "\n"
           THEN /\ items' = Append(items, [name |-> Second.text, values |-> last.text, parent |-> cur])
                /\ cur' = Len(items) + 1
                /\ files' = Ahead(end.at)
                /\ Accepted
           ELSE Failed(0) /\ UNCHANGED cur
        /\ UNCHANGED refused

BlockEnd ==
    LET close == GetToken(Chr, Second.at)
        end == GetToken(Chr, close.at)
        matching == Second.tk = "string" /\ cur # 0 /\ items[cur].name = Second.text
    IN  /\ First.tk = "</"
        /\ cur' = IF matching THEN items[cur].parent ELSE cur
        /\ IF matching /\ close.tk = ">" /\ end.tk = "\n"
           THEN files' = Ahead(end.at) /\ Accepted /\ UNCHANGED items
           ELSE Failed(0)
        /\ UNCHANGED refused

\* Mutant: only the file that includes is compared.
ReadingOnly(inode) == inode = Innermost.inode

\* The file is among those being read.
Reading(inode) == \E k \in DOMAIN files : files[k].inode = inode

\* The file is opened before it is compared with those being read; one that is
\* refused is not closed.
Include ==
    LET close == GetToken(Chr, Second.at)
        end == GetToken(Chr, close.at)
        named == Second.tk = "string" /\ close.tk = ">" /\ end.tk = "\n"
        found == named /\ Second.text \in DOMAIN FileOf
        again == IF found THEN Reading(FileOf[Second.text]) ELSE FALSE
    IN  /\ First.tk = "<!"
        /\ IF found /\ ~again
           THEN /\ files' = <<[inode |-> FileOf[Second.text], at |-> 1]>> \o Ahead(end.at)
                /\ descriptors' = descriptors + 1
                /\ UNCHANGED <<result, items>>
           ELSE Failed(IF again THEN 1 ELSE 0)
        /\ refused' = IF again THEN refused + 1 ELSE refused
        /\ UNCHANGED cur

Malformed ==
    /\ First.tk = "fail"
    /\ Failed(0)
    /\ UNCHANGED <<cur, refused>>

ReadItem ==
    /\ result = "loading"
    /\ EndOfFile \/ Nothing \/ Item \/ BlockBegin \/ BlockEnd \/ Include \/ Malformed
    /\ UNCHANGED <<lines, asked, loads>>

LoaderNext == ReadItem \/ \E name \in Names : Load(name)

LoaderSpec == LoaderInit /\ [][LoaderNext]_loaderVars

-----------------------------------------------------------------------------
(* What must hold. *)

\* The lines of a file as they are meant, those of included files in their place;
\* "bad" where a file is missing or includes one it is itself part of.
Bad == [kind |-> "bad"]

Reads(inode) ==
    LET read[i \in Inode, above \in SUBSET Inode] ==
            FlattenSeq([k \in DOMAIN lines[i] |->
                LET m == Means[lines[i][k]]
                IN  IF m.kind # "include" THEN <<m>>
                    ELSE IF m.name \notin DOMAIN FileOf THEN <<Bad>>
                    ELSE IF FileOf[m.name] \in above \cup {i} THEN <<Bad>>
                    ELSE read[FileOf[m.name], above \cup {i}]])
    IN  read[inode, {}]

\* The document they make, and whether it could be made.
Take(d, m) ==
    CASE d.bad \/ m.kind = "nothing" -> d
      [] m.kind \in {"item", "block"} ->
            [d EXCEPT !.items = Append(@, [name |-> m.name, values |-> m.values, parent |-> d.cur]),
                      !.cur = IF m.kind = "block" THEN Len(d.items) + 1 ELSE @]
      [] m.kind = "end" ->
            IF d.cur = 0 THEN [d EXCEPT !.bad = TRUE]
            ELSE IF d.items[d.cur].name # m.name THEN [d EXCEPT !.bad = TRUE]
            ELSE [d EXCEPT !.cur = d.items[d.cur].parent]
      [] OTHER -> [d EXCEPT !.bad = TRUE]

Meant(name) ==
    FoldLeft(Take, [items |-> <<>>, cur |-> 0, bad |-> FALSE],
             IF name \in DOMAIN FileOf THEN Reads(FileOf[name]) ELSE <<Bad>>)

\* Nothing follows an include in any file but a line that can do without its
\* first character, a blank.
Sheltered ==
    \A i \in Inode : \A k \in 1..Len(lines[i]) - 1 :
        Means[lines[i][k]].kind = "include" => Chars[lines[i][k + 1]][1] \in {" ", "\n"}

\* A file whose last line lacks its newline ends in one that means nothing.
Terminated ==
    \A i \in Inode : lines[i] # <<>> =>
        LET l == Last(lines[i]) IN Last(Chars[l]) = "\n" \/ Means[l].kind = "nothing"

\* load builds the document the lines of the files mean, blocks that reach
\* across files included, and fails only when one of the lines is no line, an
\* end has no block, or an include cannot be followed; what it has built by then
\* is what came before.  Two places where the code does less are left open.  It
\* reads a character ahead, and the one ahead of an include is lost
\* (config_file.cpp:404); where that matters nothing is claimed.  And a last line
\* may end in EOF, say read_item and its messages (config_file.cpp:278, 297,
\* 317-318, 365-366, 385-386), but they compare with EOF what get_token returns,
\* token_eof; so load may fail on such a file.  When it does, what it has built is
\* still a beginning of the document, and it never takes it for another one.
Parsed ==
    result \in {"ok", "fail"} /\ Sheltered =>
        LET d == Meant(asked)
        IN  /\ result = "ok" => ~d.bad /\ items = d.items
            /\ result = "fail" =>
                /\ IsPrefix(items, d.items)
                /\ Terminated => d.bad /\ items = d.items

\* A file is never read inside itself, under whichever name, so includes end;
\* and each that was opened is closed once, when its end is read or when loading
\* fails, except one refused as recursive.
FilesHeld ==
    /\ \A j, k \in DOMAIN files : files[j].inode = files[k].inode => j = k
    /\ descriptors = Len(files) + refused
    /\ result # "loading" => files = <<>>
=============================================================================
