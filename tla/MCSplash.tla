---- MODULE MCSplash ----
(* A plain url, one whose path goes up and whose second key has no value,    *)
(* one whose argument holds an "&", one that fills the buffer, and one too   *)
(* long for it.                                                              *)
EXTENDS Splash

One(v) == [key |-> <<"k">>, value |-> v]
FiveOrigins ==
    {[path |-> <<"/">>, args |-> <<>>],
     [path |-> <<"/", "2", "/", ".", ".", "/", "a">>,
      args |-> <<One(<<"a">>), [key |-> <<"2">>, value |-> None]>>],
     [path |-> <<"/">>, args |-> <<One(<<"a", "&", "a">>)>>],
     [path |-> <<"/", "a", "a", "a">>, args |-> <<One(<<"a">>), One(<<"2">>)>>],
     [path |-> <<"/", "a", "a", "a">>, args |-> <<One(<<"a">>), One(<<"a", "a">>)>>]}
NoText == <<>>
=========================
