---------------------------- MODULE MCAccountData ----------------------------
EXTENDS AccountData
BothOrders == {<<"k", "l">>, <<"l", "k">>}
BothChains == {<<>>, <<"breaker", "other">>, <<"other", "breaker">>}
=============================================================================
