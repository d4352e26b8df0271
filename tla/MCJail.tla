------------------------------- MODULE MCJail -------------------------------
(* Instances of Jail for TLC. *)
EXTENDS Jail, TLC

CONSTANTS f1

\* "/rt" is the jail, "/rt2" its sibling by name; "/aa" is the host's.
MCNamePrefixes == {<<"rt", "rt2">>}
MCNameRest == <<"rt", "rt2">> :> "2"
MCIgnored == {<<"", "proc", "">>, <<"", "dev", "">>}

MCFs == (<<>>           :> Directory
      @@ <<"rt">>       :> Directory
      @@ <<"rt", "aa">> :> Directory
      @@ <<"rt2">>      :> Directory
      @@ <<"aa">>       :> Directory
      @@ <<"proc">>     :> Directory)

\* Room for links that lead to links.
MCFs2 == (<<>>           :> Directory
       @@ <<"rt">>       :> Directory
       @@ <<"rt", "aa">> :> Directory
       @@ <<"aa">>       :> Directory)

MCCwd == <<>>

MCArgs == {Slash, <<"", "rt">>, <<"", "", "rt">>, <<"", "rt2">>, <<"", "aa">>, <<"aa">>,
           <<"..">>, <<"ln">>, <<"", "aa", "ln">>}
MCArgs2 == {<<"", "rt">>, <<"", "ln">>, <<"", "aa">>, <<"", "aa", "ln">>, <<"ln">>, <<"..">>}
MCTargets == {<<"", "aa">>, <<"..", "ln">>}
MCTargets2 == {<<"", "aa">>, <<"..", "ln">>, <<"aa">>}
MCProbes == {Slash, <<"", "aa">>, <<"", "", "aa">>, <<"aa">>, <<"ln">>, <<"", "ln">>,
             <<"", "ln", "">>, <<"ln", "aa">>, <<"", "aa", "ln">>, <<"", "aa", "..", "ln", "xx">>,
             <<"", "ln", "..", "aa">>, <<".", "aa", ".">>, <<"..">>, <<"", "..", "aa">>,
             <<"aa", "ln", ".", "ln">>, <<"", "proc">>, <<"", "proc", "xx">>}
=============================================================================
