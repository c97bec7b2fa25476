---------------------------- MODULE MCProxySearch ----------------------------
(* Instance of ProxySearch for TLC. *)
EXTENDS ProxySearch, TLC

CONSTANTS c1, c2

Provider(g, nodl, news) == [group |-> g, NoDownload |-> nodl, Newsreader |-> news]
(* Two providers of a group, a newsreader and none; one of another group. *)
TwoGroups == <<Provider("A", FALSE, TRUE), Provider("A", FALSE, FALSE), Provider("B", FALSE, TRUE)>>
Clients == {c1, c2}
(* One client reads news, the other looks for an article. *)
ReaderAndFetcher == (c1 :> Kinds \ {"STAT"}) @@ (c2 :> {"STAT"})
TwoAndOne == (c1 :> 2) @@ (c2 :> 1)
HeldByA == {<<"A", 1>>}
LateAtB == {<<"B", 0>>}
=============================================================================
