---------------------------- MODULE MCInputPath ----------------------------
EXTENDS InputPath

Documents == {"a", "b"}
None == {}
OneMove == {<<"a", "b">>}
=============================================================================
