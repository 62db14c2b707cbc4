------------------------------ MODULE MCClient ------------------------------
(***************************************************************************)
(* Scripts of lines as people write them: every expression is followed by  *)
(* white space, and a comment line by something else.                      *)
(***************************************************************************)
EXTENDS ClientRepl

MCLines ==
  { <<"(", "a", ")", "nl">>,                               \* (a)
    <<"a", " ">>,                                          \* a
    <<"'", "(", "a", ")", "nl">>,                          \* '(a)
    <<"(", "'", "a", "nl", " ", "(", ")", ")", "nl">>,     \* ('a
                                                           \*  ())
    <<"dquote", "(", "dquote", "nl">>,                     \* "("
    <<"(", "dquote", "backslash", "dquote", " ", "dquote", ")", "nl">>,
                                                           \* ("\" ")
    <<"(", ";", ")", "nl", ")", "nl">>,                    \* (;)
                                                           \* )
    <<";", "(", "nl", "(", ")", " ", "nl">>,               \* ;(
                                                           \* ()
    <<"a", ";", "a", "nl", " ">>,                          \* a;a
    <<")", "nl">> }                                        \* )
=============================================================================
