------------------------------ MODULE MCScopes -----------------------------
(* Scopes with two names in one bucket, which the second anonymous child of  *)
(* a scope falls into as well; and with a name and a longer one it starts.   *)
EXTENDS Scopes

TwoNames == {<<"i">>, <<"n">>}
PrefixNames == {<<"i">>, <<"i", "d">>, <<"n">>}
OneBucket == [n \in PrefixNames |-> 1]
MCAnonBucket == <<3, 1, 3, 3, 3, 3, 3, 3>>
TwoNamesBucket == [n \in TwoNames |-> 1]
=============================================================================
