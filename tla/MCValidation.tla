----------------------------- MODULE MCValidation -----------------------------
EXTENDS Validation
\* One name is the escaped form of the other.
MCNames == {<<"/">>, <<"~", "1">>}
MCRuleLists == {<<"email">>, <<"length", "email">>}
=============================================================================
