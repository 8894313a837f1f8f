---------------------------- MODULE MCSmartPatcher ----------------------------
\* The kinds of change that the repository has: a line added, a block replaced or removed, a change
\* inside of what an earlier patch has put there (0035 in 0010, 0041 in 0007), a patch of several
\* files (0040, 0041), a text that occurs twice, and a text that could end where the next one begins
\* (0044).
EXTENDS SmartPatcher

MCPatches == <<
    << [file |-> "manager", changes |->
          << [orig |-> <<"b", "c">>, mod |-> <<"b", "30", "c">>],
             [orig |-> <<"d">>, mod |-> <<"D">>],
             [orig |-> <<"i", "i">>, mod |-> <<"i", "j", "i">>] >>] >>,
    << [file |-> "manager", changes |-> << [orig |-> <<"30">>, mod |-> <<"120">>] >>] >>,
    << [file |-> "decrypt", changes |-> << [orig |-> <<"v">>, mod |-> <<"v3", "v4">>],
                                           [orig |-> <<"w", "o">>, mod |-> <<"O">>] >>],
       [file |-> "hash", changes |-> << [orig |-> <<"s", "/">>, mod |-> <<"r">>],
                                        [orig |-> <<"h">>, mod |-> <<"/", "sha512">>] >>] >> >>

\* A tree that the patches fit, with bytes that do not decode in the middle of what one looks for;
\* one in which a block has changed and a file has gone; one with such bytes where no change fits.
MCUpstreams == {
    [manager |-> <<"a", "b", "c", "d", "i", "i", "e">>, decrypt |-> <<"v", "m", "v", "w", "ff", "o", "n">>,
     hash |-> <<"s", "/", "h", "g">>],
    [manager |-> <<"a", "b", "new", "c", "d", "e">>, decrypt |-> <<"v", "w", "m", "o">>],
    [manager |-> <<"a", "b", "c", "c3">>, hash |-> <<"s", "ff", "g">>] }

MCTokens == {"a", "b", "c", "d", "e", "g", "h", "i", "j", "m", "n", "o", "r", "s", "v", "w", "/",
             "new", "30", "120", "D", "O", "v3", "v4", "sha512"}

MCUndecodable == {"ff", "c3"}
=============================================================================
