----------------------------- MODULE MCWrappers -----------------------------
(* Instances of Wrappers for TLC. *)
EXTENDS Wrappers, TLC

CONSTANTS f1

\* "/rt" is the jail; "/aa" is the host's, and a directory of the jail too.
MCNamePrefixes == {}
MCNameRest == <<>>
MCIgnored == {<<"", "proc", "">>, <<"", "dev", "">>}

MCFs == (<<>>           :> Directory
      @@ <<"rt">>       :> Directory
      @@ <<"rt", "aa">> :> Directory)

MCCwd == <<>>

MCArgs == {<<"", "rt">>, <<"", "aa">>, <<"", "ln">>, <<"", "aa", "ln">>, <<"..">>}
MCTargets == {<<"", "aa">>, <<"..", "ln">>}
MCProbes == {Slash, <<"", "aa">>, <<"ln">>, <<"", "ln", "">>, <<"", "ln", "ln">>,
             <<"", "aa", "ln">>, <<"", "aa", "..", "ln">>, <<"", "ln", "..", "aa">>}
=============================================================================
