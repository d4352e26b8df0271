----------------------------- MODULE MCAccounts -----------------------------
(* Instances of Accounts for TLC: the host and one jail, the users "a" and "b". *)
EXTENDS Accounts

User(name, id, shell, ok, nl) ==
    [name |-> name, id |-> id, last |-> <<shell>>, ok |-> ok, nl |-> nl, len |-> 3]
Group(name, id, members, nl) ==
    [name |-> name, id |-> id, last |-> members, ok |-> TRUE, nl |-> nl, len |-> 1 + Len(members)]

MCRoots == {"/", "/rt"}

\* The passwd of the host has a comment, the group of the jail ends without a newline.
MCInitially ==
    [etc   |-> [path \in MCRoots |->
                  IF path = "/" THEN [passwd |-> 1, group |-> 2]
                  ELSE [passwd |-> 3, group |-> 4]],
     lines |-> <<<<User("a", 0, "sh", TRUE, TRUE), User("#", 0, "sh", FALSE, TRUE),
                   User("b", 1, "sh", TRUE, TRUE)>>,
                 <<Group("a", 0, <<"a", "b">>, TRUE)>>,
                 <<User("b", 0, "sh", TRUE, FALSE)>>,
                 <<Group("b", 1, <<"b">>, TRUE), Group("a", 2, <<"a", "b">>, FALSE)>>>>]

MCReplacing == [passwd |-> <<User("a", 1, "sh", TRUE, TRUE)>>,
                group  |-> <<Group("a", 0, <<>>, TRUE), Group("b", 1, <<"a", "b">>, TRUE)>>]
MCPut == [passwd |-> User("b", 2, "sh", TRUE, TRUE), group |-> Group("b", 2, <<"a">>, TRUE)]
MCCut == <<"sh">> :> <<"s">> @@ <<"b">> :> <<"-">> @@ <<"a", "b">> :> <<"a", "-">> @@ <<"a">> :> <<"-">>

Texts == {<<"a", "\n">>, <<"a", "x", "b", "\n">>, <<"b", "x", "\n">>, <<"b", "a">>}
MCLines == {[text |-> text, ok |-> ok] : text \in Texts, ok \in BOOLEAN}
MCShadows ==
    {<<one, two>> : one \in {l \in MCLines : Ended(l)}, two \in MCLines}
MCTcbs ==
    {<<[text |-> <<"b", "x", "\n">>, ok |-> TRUE], [text |-> <<"a", "x", "b", "\n">>, ok |-> TRUE]>>}
=============================================================================
