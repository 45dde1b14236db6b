------------------------------- MODULE MCChat -------------------------------
EXTENDS Chat

T(parts, size) == [parts |-> parts, size |-> size]
PlainText == {T(<<"a">>, 1)}
ColonTexts == {T(<<"a">>, 1), T(<<"b", "c">>, 2)}
LongTexts == {T(<<"a">>, 1), T(<<"a">>, MAX_LEN + 1)}
=============================================================================
